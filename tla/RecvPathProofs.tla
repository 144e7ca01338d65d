--------------------------- MODULE RecvPathProofs ---------------------------
(***************************************************************************)
(* The packet and the receive path, for every size of the buffer and of a  *)
(* packet, every set of messages and every way the kernel may cut the      *)
(* stream.                                                                 *)
(*                                                                         *)
(* Decode inverts Encode for every payload and key, and it notices the     *)
(* last byte changed by one bit.  The code is a chain: every byte depends  *)
(* on the one before it, so its functions are recursive.  SetInduction and *)
(* RecursionExists are induction and recursion with a set and a function   *)
(* where the library has operators.  The exclusive or is taken bit by bit. *)
(*                                                                         *)
(* RecvInv is inductive: the pieces of a pending WSARecv are the free part *)
(* of the buffer, the bytes in use are those of the stream behind the last *)
(* delivered message, and a packet is empty when the worker takes it,      *)
(* whatever bytes an earlier message left in it.  The lemmas about the     *)
(* stream say where a message ends, so that the header found at iFront is  *)
(* the one of the next message.  A message may be longer than a packet.    *)
(***************************************************************************)
EXTENDS RecvPath, ContainerLemmas

(* a function on 0 .. n can be defined by its value at 0 and a step *)
LEMMA RecursionExists ==
    ASSUME NEW S, NEW a \in S, NEW n \in Nat, NEW step \in [1 .. n -> [S -> S]]
    PROVE  \E f \in [0 .. n -> S] :
              f[0] = a /\ \A i \in 1 .. n : f[i] = step[i][f[i - 1]]
<1> DEFINE Upto(f, k) == f[0] = a /\ \A i \in 1 .. k : f[i] = step[i][f[i - 1]]
           T == {k \in Nat : k <= n => \E f \in [0 .. k -> S] : Upto(f, k)}
<1>1. 0 \in T
  <2>1. Upto([i \in 0 .. 0 |-> a], 0) /\ [i \in 0 .. 0 |-> a] \in [0 .. 0 -> S]
    OBVIOUS
  <2> QED
    BY <2>1
<1>2. ASSUME NEW k \in Nat, k \in T
      PROVE  k + 1 \in T
  <2>0. SUFFICES ASSUME k + 1 <= n
                 PROVE  \E f \in [0 .. k + 1 -> S] : Upto(f, k + 1)
    <3> HIDE DEF Upto
    <3> QED
      OBVIOUS
  <2>1. PICK f \in [0 .. k -> S] : Upto(f, k)
    BY <1>2, <2>0
  <2> DEFINE g == [i \in 0 .. k + 1 |-> IF i <= k THEN f[i] ELSE step[k + 1][f[k]]]
  <2>2. step[k + 1][f[k]] \in S
    <3>1. step[k + 1] \in [S -> S] /\ f[k] \in S
      BY <2>0, <2>1, <1>2
    <3> QED
      BY <3>1
  <2>3. g \in [0 .. k + 1 -> S]
    BY <2>1, <2>2, <1>2
  <2>4. Upto(g, k + 1)
    <3>1. g[0] = a
      BY <2>1, <1>2
    <3>2. ASSUME NEW i \in 1 .. k + 1
          PROVE  g[i] = step[i][g[i - 1]]
      <4>1. CASE i <= k
        BY <4>1, <3>2, <2>1, <1>2
      <4>2. CASE i = k + 1
        <5>1. g[k + 1] = step[k + 1][f[k]] /\ g[k] = f[k]
          BY <1>2
        <5>2. i - 1 = k
          BY <4>2, <1>2
        <5> QED
          BY <4>2, <5>1, <5>2, Zenon
      <4> QED
        BY <4>1, <4>2, <3>2, <1>2
    <3> QED
      BY <3>1, <3>2
  <2> QED
    BY <2>3, <2>4
<1> HIDE DEF T
<1>3. n \in T
  BY <1>1, <1>2, SetInduction
<1> QED
  BY <1>3 DEF T

-----------------------------------------------------------------------------
(* bit i of a, and the number with the bits c *)
Bit(a, i) == (a \div 2^i) % 2

Sum8(c) == c[0] + 2 * c[1] + 4 * c[2] + 8 * c[3]
              + 16 * c[4] + 32 * c[5] + 64 * c[6] + 128 * c[7]

(* the weights of the bits *)
LEMMA Powers == /\ 2^0 = 1 /\ 2^1 = 2 /\ 2^2 = 4 /\ 2^3 = 8
                /\ 2^4 = 16 /\ 2^5 = 32 /\ 2^6 = 64 /\ 2^7 = 128
  BY SMT


(* a byte is the sum of its bits ... *)
LEMMA ByteIsItsBits ==
    ASSUME NEW a \in Byte
    PROVE  a = Sum8([i \in 0 .. 7 |-> Bit(a, i)])
  BY Powers, SMTT(60) DEF Byte, Sum8, Bit

(* ... and the bits of such a sum are the ones added *)
LEMMA BitsOfSum ==
    ASSUME NEW c \in [0 .. 7 -> 0 .. 1]
    PROVE  Sum8(c) \in Byte /\ \A i \in 0 .. 7 : Bit(Sum8(c), i) = c[i]
<1>1. /\ c[0] \in 0 .. 1 /\ c[1] \in 0 .. 1 /\ c[2] \in 0 .. 1 /\ c[3] \in 0 .. 1
      /\ c[4] \in 0 .. 1 /\ c[5] \in 0 .. 1 /\ c[6] \in 0 .. 1 /\ c[7] \in 0 .. 1
  OBVIOUS
<1>2. Sum8(c) \in Byte
  BY <1>1 DEF Sum8, Byte
<1>3. Bit(Sum8(c), 0) = c[0]
  BY <1>1, Powers DEF Sum8, Bit
<1>4. Bit(Sum8(c), 1) = c[1]
  BY <1>1, Powers DEF Sum8, Bit
<1>5. Bit(Sum8(c), 2) = c[2]
  BY <1>1, Powers DEF Sum8, Bit
<1>6. Bit(Sum8(c), 3) = c[3]
  BY <1>1, Powers DEF Sum8, Bit
<1>7. Bit(Sum8(c), 4) = c[4]
  BY <1>1, Powers DEF Sum8, Bit
<1>8. Bit(Sum8(c), 5) = c[5]
  BY <1>1, Powers DEF Sum8, Bit
<1>9. Bit(Sum8(c), 6) = c[6]
  BY <1>1, Powers DEF Sum8, Bit
<1>10. Bit(Sum8(c), 7) = c[7]
  BY <1>1, Powers DEF Sum8, Bit
<1> QED
  BY <1>2, <1>3, <1>4, <1>5, <1>6, <1>7, <1>8, <1>9, <1>10

(* Xor is the sum of the bits that differ *)
LEMMA XorIsSum ==
    ASSUME NEW a \in Byte, NEW b \in Byte
    PROVE  Xor[a][b] = Sum8([i \in 0 .. 7 |-> (a \div 2^i + b \div 2^i) % 2])
<1> DEFINE f[i \in 0 .. 8] == IF i = 8 THEN 0
                ELSE ((a \div 2^i + b \div 2^i) % 2) + 2 * f[i + 1]
           c == [i \in 0 .. 7 |-> (a \div 2^i + b \div 2^i) % 2]
<1>1. Xor[a][b] = f[0]
  BY DEF Xor
<1>6. \A i \in 0 .. 7 : c[i] \in 0 .. 1
  BY DEF Byte
<1> DEFINE g7 == c[7]
           g6 == c[6] + 2 * g7
           g5 == c[5] + 2 * g6
           g4 == c[4] + 2 * g5
           g3 == c[3] + 2 * g4
           g2 == c[2] + 2 * g3
           g1 == c[1] + 2 * g2
           g0 == c[0] + 2 * g1
           g == [i \in 0 .. 8 |-> CASE i = 0 -> g0 [] i = 1 -> g1 [] i = 2 -> g2
                                    [] i = 3 -> g3 [] i = 4 -> g4 [] i = 5 -> g5
                                    [] i = 6 -> g6 [] i = 7 -> g7 [] i = 8 -> 0]
<1> HIDE DEF c
<1>2. g = [i \in 0 .. 8 |-> IF i = 8 THEN 0 ELSE c[i] + 2 * g[i + 1]]
  <2> HIDE DEF g0, g1, g2, g3, g4, g5, g6, g7
  <2>1. /\ g[0] = g0 /\ g[1] = g1 /\ g[2] = g2 /\ g[3] = g3 /\ g[4] = g4
        /\ g[5] = g5 /\ g[6] = g6 /\ g[7] = g7 /\ g[8] = 0
    OBVIOUS
  <2> HIDE DEF g
  <2>2. ASSUME NEW i \in 0 .. 8
        PROVE  g[i] = IF i = 8 THEN 0 ELSE c[i] + 2 * g[i + 1]
    <3>1. i \in {0, 1, 2, 3, 4, 5, 6, 7, 8}
      BY <2>2
    <3>2. CASE i = 7
      BY <2>1, <3>2, <1>6 DEF g7
    <3> QED
      BY <2>1, <3>1, <3>2 DEF g0, g1, g2, g3, g4, g5, g6
  <2>3. DOMAIN g = 0 .. 8 /\ g = [i \in DOMAIN g |-> g[i]]
    BY DEF g
  <2> QED
    BY <2>2, <2>3
<1>3. g = [i \in 0 .. 8 |->
              IF i = 8 THEN 0 ELSE ((a \div 2^i + b \div 2^i) % 2) + 2 * g[i + 1]]
  BY <1>2 DEF c
<1> HIDE DEF g
<1>4. f = [i \in 0 .. 8 |->
              IF i = 8 THEN 0 ELSE ((a \div 2^i + b \div 2^i) % 2) + 2 * f[i + 1]]
  BY <1>3 DEF f
<1> HIDE DEF f
<1>5. f = [i \in 0 .. 8 |-> IF i = 8 THEN 0 ELSE c[i] + 2 * f[i + 1]]
  BY <1>4 DEF c
<1>7. /\ f[8] = 0
      /\ f[7] = c[7] + 2 * f[8] /\ f[6] = c[6] + 2 * f[7] /\ f[5] = c[5] + 2 * f[6]
      /\ f[4] = c[4] + 2 * f[5] /\ f[3] = c[3] + 2 * f[4] /\ f[2] = c[2] + 2 * f[3]
      /\ f[1] = c[1] + 2 * f[2] /\ f[0] = c[0] + 2 * f[1]
  BY ONLY <1>5
<1>8. c[0] \in 0 .. 1 /\ c[1] \in 0 .. 1 /\ c[2] \in 0 .. 1 /\ c[3] \in 0 .. 1
     /\ c[4] \in 0 .. 1 /\ c[5] \in 0 .. 1 /\ c[6] \in 0 .. 1 /\ c[7] \in 0 .. 1
  BY <1>6
<1>9. f[0] = Sum8(c)
  BY ONLY <1>7, <1>8 DEF Sum8
<1> QED
  BY <1>1, <1>9 DEF c
LEMMA XorBits ==
    ASSUME NEW a \in Byte, NEW b \in Byte
    PROVE  /\ Xor[a][b] \in Byte
           /\ \A i \in 0 .. 7 : Bit(Xor[a][b], i) = (Bit(a, i) + Bit(b, i)) % 2
<1> DEFINE c == [i \in 0 .. 7 |-> (a \div 2^i + b \div 2^i) % 2]
<1>1. Xor[a][b] = Sum8(c)
  BY XorIsSum
<1>2. c \in [0 .. 7 -> 0 .. 1]
  BY Powers DEF Byte
<1>3. ASSUME NEW i \in 0 .. 7
      PROVE  c[i] = (Bit(a, i) + Bit(b, i)) % 2
  <2>1. i \in {0, 1, 2, 3, 4, 5, 6, 7}
    BY <1>3
  <2> QED
    BY <2>1, Powers DEF Bit, Byte
<1> HIDE DEF c
<1> QED
  BY <1>1, <1>2, <1>3, BitsOfSum

(* bytes with the same bits are equal *)
LEMMA SameBits ==
    ASSUME NEW a \in Byte, NEW b \in Byte, \A i \in 0 .. 7 : Bit(a, i) = Bit(b, i)
    PROVE  a = b
<1>1. [i \in 0 .. 7 |-> Bit(a, i)] = [i \in 0 .. 7 |-> Bit(b, i)]
  OBVIOUS
<1> QED
  BY <1>1, ByteIsItsBits

(* a bit is 0 or 1 *)
LEMMA BitRange ==
    ASSUME NEW a \in Byte, NEW i \in 0 .. 7
    PROVE  Bit(a, i) \in 0 .. 1
<1>1. i \in {0, 1, 2, 3, 4, 5, 6, 7}
  OBVIOUS
<1> QED
  BY <1>1, Powers DEF Bit, Byte

(* the exclusive or undoes itself *)
LEMMA XorTwice ==
    ASSUME NEW a \in Byte, NEW b \in Byte
    PROVE  Xor[Xor[a][b]][b] = a
<1> DEFINE c == Xor[a][b]
           d == Xor[c][b]
<1>1. c \in Byte /\ \A i \in 0 .. 7 : Bit(c, i) = (Bit(a, i) + Bit(b, i)) % 2
  BY XorBits
<1> HIDE DEF c
<1>2. d \in Byte /\ \A i \in 0 .. 7 : Bit(d, i) = (Bit(c, i) + Bit(b, i)) % 2
  BY <1>1, XorBits
<1> HIDE DEF d
<1>3. ASSUME NEW i \in 0 .. 7
      PROVE  Bit(d, i) = Bit(a, i)
  <2>1. Bit(a, i) \in 0 .. 1 /\ Bit(b, i) \in 0 .. 1
    BY <1>3, BitRange
  <2> QED
    BY <2>1, <1>1, <1>2, <1>3
<1> QED
  BY <1>2, <1>3, SameBits DEF c, d

(* changing the last bit commutes with the exclusive or *)
LEMMA XorFlip ==
    ASSUME NEW a \in Byte, NEW b \in Byte
    PROVE  Xor[Xor[a][1]][b] = Xor[Xor[a][b]][1]
<1> DEFINE c == Xor[a][1]
           d == Xor[c][b]
           e == Xor[a][b]
           f == Xor[e][1]
<1>0. 1 \in Byte
  BY DEF Byte
<1>1. c \in Byte /\ \A i \in 0 .. 7 : Bit(c, i) = (Bit(a, i) + Bit(1, i)) % 2
  BY <1>0, XorBits
<1>2. e \in Byte /\ \A i \in 0 .. 7 : Bit(e, i) = (Bit(a, i) + Bit(b, i)) % 2
  BY XorBits
<1> HIDE DEF c, e
<1>3. d \in Byte /\ \A i \in 0 .. 7 : Bit(d, i) = (Bit(c, i) + Bit(b, i)) % 2
  BY <1>1, XorBits
<1>4. f \in Byte /\ \A i \in 0 .. 7 : Bit(f, i) = (Bit(e, i) + Bit(1, i)) % 2
  BY <1>0, <1>2, XorBits
<1> HIDE DEF d, f
<1>5. ASSUME NEW i \in 0 .. 7
      PROVE  Bit(d, i) = Bit(f, i)
  <2>1. Bit(a, i) \in 0 .. 1 /\ Bit(b, i) \in 0 .. 1 /\ Bit(1, i) \in 0 .. 1
    BY <1>0, <1>5, BitRange
  <2> QED
    BY <2>1, <1>1, <1>2, <1>3, <1>4, <1>5
<1> QED
  BY <1>3, <1>4, <1>5, SameBits DEF c, d, e, f

(* the exclusive or with 1 moves a byte by one *)
LEMMA FlipByOne ==
    ASSUME NEW a \in Byte
    PROVE  Xor[a][1] \in {a - 1, a + 1}
<1>1. Xor[a][1] = Sum8([i \in 0 .. 7 |-> (a \div 2^i + 1 \div 2^i) % 2])
  <2>1. 1 \in Byte
    BY DEF Byte
  <2> QED
    BY <2>1, XorIsSum
<1>2. a = Sum8([i \in 0 .. 7 |-> Bit(a, i)])
  BY ByteIsItsBits
<1>3. /\ (a \div 2^1 + 1 \div 2^1) % 2 = Bit(a, 1)
      /\ (a \div 2^2 + 1 \div 2^2) % 2 = Bit(a, 2)
      /\ (a \div 2^3 + 1 \div 2^3) % 2 = Bit(a, 3)
      /\ (a \div 2^4 + 1 \div 2^4) % 2 = Bit(a, 4)
      /\ (a \div 2^5 + 1 \div 2^5) % 2 = Bit(a, 5)
      /\ (a \div 2^6 + 1 \div 2^6) % 2 = Bit(a, 6)
      /\ (a \div 2^7 + 1 \div 2^7) % 2 = Bit(a, 7)
  BY Powers DEF Bit, Byte
<1>4. Bit(a, 0) \in 0 .. 1 /\ (a \div 2^0 + 1 \div 2^0) % 2 = 1 - Bit(a, 0)
  BY Powers DEF Bit, Byte
<1>5. \A i \in 0 .. 7 : Bit(a, i) \in 0 .. 1
  BY BitRange
<1> QED
  BY <1>1, <1>2, <1>3, <1>4, <1>5 DEF Sum8

-----------------------------------------------------------------------------
(* one step of the chain takes bytes to bytes *)
LEMMA ScrambledByte ==
    \A s, before, key \in Byte, cnt \in Nat : Scrambled(s, before, key, cnt) \in Byte
<1>1. ASSUME NEW s \in Byte, NEW k \in Byte
      PROVE  Xor[s][k] \in Byte
  BY <1>1, XorBits
<1>2. \A before, key \in Byte, cnt \in Nat : (before + key + cnt) % 256 \in Byte
  BY DEF Byte
<1> QED
  BY <1>1, <1>2, ZenonT(30) DEF Scrambled

(* the step undoes itself *)
LEMMA ScrambledTwice ==
    \A s, before, key \in Byte, cnt \in Nat :
       Scrambled(Scrambled(s, before, key, cnt), before, key, cnt) = s
<1>1. ASSUME NEW s \in Byte, NEW k \in Byte
      PROVE  Xor[Xor[s][k]][k] = s
  BY <1>1, XorTwice
<1>2. \A before, key \in Byte, cnt \in Nat : (before + key + cnt) % 256 \in Byte
  BY DEF Byte
<1> QED
  BY <1>1, <1>2 DEF Scrambled

(* the step carries a change of the last bit over *)
LEMMA ScrambledFlip ==
    \A s, before, key \in Byte, cnt \in Nat :
       Scrambled(Xor[s][1], before, key, cnt) = Xor[Scrambled(s, before, key, cnt)][1]
<1>1. ASSUME NEW s \in Byte, NEW k \in Byte
      PROVE  Xor[Xor[s][1]][k] = Xor[Xor[s][k]][1]
  BY <1>1, XorFlip
<1>2. \A before, key \in Byte, cnt \in Nat : (before + key + cnt) % 256 \in Byte
  BY DEF Byte
<1> QED
  BY <1>1, <1>2 DEF Scrambled

(* a chain of Encode is well defined *)
LEMMA ChainExists ==
    ASSUME NEW n \in Nat, NEW s, \A i \in 1 .. n : s[i] \in Byte, NEW key \in Byte
    PROVE  LET c[i \in 0 .. n] == IF i = 0 THEN 0
                                  ELSE Scrambled(s[i], c[i - 1], key, i)
           IN  /\ c \in [0 .. n -> Byte]
               /\ c[0] = 0
               /\ \A i \in 1 .. n : c[i] = Scrambled(s[i], c[i - 1], key, i)
<1> DEFINE c[i \in 0 .. n] == IF i = 0 THEN 0
                              ELSE Scrambled(s[i], c[i - 1], key, i)
           step == [i \in 1 .. n |-> [x \in Byte |-> Scrambled(s[i], x, key, i)]]
<1>1. step \in [1 .. n -> [Byte -> Byte]]
  <2>1. ASSUME NEW i \in 1 .. n, NEW x \in Byte
        PROVE  Scrambled(s[i], x, key, i) \in Byte
    <3>1. s[i] \in Byte /\ i \in Nat
      BY <2>1
    <3> QED
      BY <3>1, <2>1, ScrambledByte
  <2> QED
    BY <2>1
<1>2. 0 \in Byte
  BY DEF Byte
<1>3. PICK f \in [0 .. n -> Byte] :
           f[0] = 0 /\ \A i \in 1 .. n : f[i] = step[i][f[i - 1]]
  <2> HIDE DEF step, c
  <2> QED
    BY <1>1, <1>2, RecursionExists, SMTT(30)
<1>4. ASSUME NEW i \in 1 .. n, NEW x \in Byte
      PROVE  step[i][x] = Scrambled(s[i], x, key, i)
  BY <1>4
<1> HIDE DEF step
<1>5. \A i \in 1 .. n : f[i] = Scrambled(s[i], f[i - 1], key, i)
  BY <1>3, <1>4
<1>6. f = [i \in 0 .. n |-> IF i = 0 THEN 0 ELSE Scrambled(s[i], f[i - 1], key, i)]
  BY <1>3, <1>5
<1>7. c = [i \in 0 .. n |-> IF i = 0 THEN 0 ELSE Scrambled(s[i], c[i - 1], key, i)]
  BY <1>6 DEF c
<1> HIDE DEF c
<1>8. c[0] = 0 /\ \A i \in 1 .. n : c[i] = Scrambled(s[i], c[i - 1], key, i)
  BY <1>7
<1>9. c \in [0 .. n -> Byte]
  <2> DEFINE T == {i \in Nat : i <= n => c[i] \in Byte}
  <2>1. 0 \in T
    BY <1>2, <1>8
  <2>2. ASSUME NEW i \in Nat, i \in T
        PROVE  i + 1 \in T
    <3>1. CASE i + 1 <= n
      <4>1. c[i + 1] = Scrambled(s[i + 1], c[(i + 1) - 1], key, i + 1)
        BY <1>8, <2>2, <3>1
      <4>2. (i + 1) - 1 = i /\ c[i] \in Byte /\ s[i + 1] \in Byte /\ i + 1 \in Nat
        BY <2>2, <3>1
      <4>3. Scrambled(s[i + 1], c[i], key, i + 1) \in Byte
        BY <4>2, ScrambledByte
      <4>4. c[i + 1] \in Byte
        BY <4>1, <4>2, <4>3
      <4> QED
        BY <4>2, <4>4
    <3> QED
      BY <3>1, <2>2
  <2> HIDE DEF T
  <2>3. Nat \subseteq T
    BY <2>1, <2>2, SetInduction
  <2>4. \A i \in 0 .. n : c[i] \in Byte
    BY <2>3 DEF T
  <2> QED
    BY <1>7, <2>4
<1> QED
  BY <1>8, <1>9 DEF c

(* the two chains of Encode, the second of which is what it returns *)
LEMMA EncodeChains ==
    ASSUME NEW n \in Nat, NEW s, \A i \in 1 .. n : s[i] \in Byte, NEW key \in Byte
    PROVE  \E rk \in [0 .. n -> Byte], pk \in [0 .. n -> Byte] :
              /\ rk[0] = 0 /\ pk[0] = 0
              /\ \A i \in 1 .. n :
                    /\ rk[i] = Scrambled(s[i], rk[i - 1], key, i)
                    /\ pk[i] = Scrambled(rk[i], pk[i - 1], dfPACKET_KEY, i)
              /\ EncodeBytes(s, n, key) = [i \in 1 .. n |-> pk[i]]
<1> DEFINE rk[i \in 0 .. n] == IF i = 0 THEN 0
                               ELSE Scrambled(s[i], rk[i - 1], key, i)
<1>1. /\ rk \in [0 .. n -> Byte]
      /\ rk[0] = 0
      /\ \A i \in 1 .. n : rk[i] = Scrambled(s[i], rk[i - 1], key, i)
  BY ChainExists
<1> DEFINE pk[i \in 0 .. n] == IF i = 0 THEN 0
                               ELSE Scrambled(rk[i], pk[i - 1], dfPACKET_KEY, i)
<1>2. EncodeBytes(s, n, key) = [i \in 1 .. n |-> pk[i]]
  BY DEF EncodeBytes
<1> HIDE DEF rk
<1>3. dfPACKET_KEY \in Byte /\ \A i \in 1 .. n : rk[i] \in Byte
  BY <1>1 DEF Byte, dfPACKET_KEY
<1>4. /\ pk \in [0 .. n -> Byte]
      /\ pk[0] = 0
      /\ \A i \in 1 .. n : pk[i] = Scrambled(rk[i], pk[i - 1], dfPACKET_KEY, i)
  BY <1>3, ChainExists
<1> HIDE DEF pk
<1> QED
  BY <1>1, <1>2, <1>4

(* what Encode returns are bytes *)
LEMMA EncodedBytes ==
    ASSUME NEW n \in Nat, NEW s, \A i \in 1 .. n : s[i] \in Byte, NEW key \in Byte
    PROVE  EncodeBytes(s, n, key) \in [1 .. n -> Byte]
<1>1. PICK rk \in [0 .. n -> Byte], pk \in [0 .. n -> Byte] :
              /\ rk[0] = 0 /\ pk[0] = 0
              /\ \A i \in 1 .. n :
                    /\ rk[i] = Scrambled(s[i], rk[i - 1], key, i)
                    /\ pk[i] = Scrambled(rk[i], pk[i - 1], dfPACKET_KEY, i)
              /\ EncodeBytes(s, n, key) = [i \in 1 .. n |-> pk[i]]
  BY EncodeChains
<1> QED
  BY <1>1

(* What Decode makes of the n bytes that Encode returned: the bytes Encode   *)
(* was given.                                                                *)
LEMMA DecodeInverts ==
    ASSUME NEW n \in Nat, NEW s, \A i \in 1 .. n : s[i] \in Byte, NEW key \in Byte,
           NEW t, \A i \in 1 .. n : t[i] = EncodeBytes(s, n, key)[i]
    PROVE  DecodeBytes(t, n, key) = [i \in 1 .. n |-> s[i]]
<1>1. PICK rk \in [0 .. n -> Byte], pk \in [0 .. n -> Byte] :
           /\ rk[0] = 0 /\ pk[0] = 0
           /\ \A i \in 1 .. n :
                 /\ rk[i] = Scrambled(s[i], rk[i - 1], key, i)
                 /\ pk[i] = Scrambled(rk[i], pk[i - 1], dfPACKET_KEY, i)
           /\ EncodeBytes(s, n, key) = [i \in 1 .. n |-> pk[i]]
  BY EncodeChains
<1> DEFINE tmp == [i \in 0 .. n |->
                     IF i = 0 THEN 0
                     ELSE Scrambled(t[i], IF i = 1 THEN 0 ELSE t[i - 1],
                                    dfPACKET_KEY, i)]
<1>2. DecodeBytes(t, n, key) = [i \in 1 .. n |-> Scrambled(tmp[i], tmp[i - 1], key, i)]
  BY DEF DecodeBytes
<1>3. dfPACKET_KEY \in Byte
  BY DEF dfPACKET_KEY, Byte
<1>4. \A i \in 1 .. n : t[i] = pk[i]
  BY <1>1
<1>5. ASSUME NEW i \in 0 .. n
      PROVE  tmp[i] = rk[i]
  <2>1. CASE i = 0
    BY <2>1, <1>1
  <2>2. CASE i # 0
    <3>1. i \in 1 .. n /\ i - 1 \in 0 .. n /\ i \in Nat
      BY <1>5, <2>2
    <3>2. (IF i = 1 THEN 0 ELSE t[i - 1]) = pk[i - 1]
      BY <1>1, <1>4, <3>1
    <3>3. tmp[i] = Scrambled(pk[i], pk[i - 1], dfPACKET_KEY, i)
      BY <1>4, <2>2, <3>1, <3>2
    <3>4. rk[i] \in Byte /\ pk[i - 1] \in Byte
      BY <1>1, <3>1
    <3>5. pk[i] = Scrambled(rk[i], pk[i - 1], dfPACKET_KEY, i)
      BY <1>1, <3>1
    <3>6. Scrambled(Scrambled(rk[i], pk[i - 1], dfPACKET_KEY, i), pk[i - 1],
                    dfPACKET_KEY, i) = rk[i]
      BY <3>1, <3>4, <1>3, ScrambledTwice
    <3> HIDE DEF tmp
    <3> QED
      BY <3>3, <3>5, <3>6
  <2> QED
    BY <2>1, <2>2
<1> HIDE DEF tmp
<1>6. ASSUME NEW i \in 1 .. n
      PROVE  Scrambled(tmp[i], tmp[i - 1], key, i) = s[i]
  <2>1. i \in 0 .. n /\ i - 1 \in 0 .. n /\ i \in Nat
    BY <1>6
  <2>2. tmp[i] = rk[i] /\ tmp[i - 1] = rk[i - 1] /\ rk[i - 1] \in Byte /\ s[i] \in Byte
    BY <1>1, <1>5, <1>6, <2>1
  <2>3. rk[i] = Scrambled(s[i], rk[i - 1], key, i)
    BY <1>1, <1>6
  <2>4. Scrambled(Scrambled(s[i], rk[i - 1], key, i), rk[i - 1], key, i) = s[i]
    BY <2>1, <2>2, ScrambledTwice
  <2> QED
    BY <2>2, <2>3, <2>4
<1> QED
  BY <1>2, <1>6

(* and with the last bit of the last byte changed *)
LEMMA DecodeFlipped ==
    ASSUME NEW n \in Nat \ {0}, NEW s, \A i \in 1 .. n : s[i] \in Byte, NEW key \in Byte,
           NEW t, \A i \in 1 .. n - 1 : t[i] = EncodeBytes(s, n, key)[i],
           t[n] = Xor[EncodeBytes(s, n, key)[n]][1]
    PROVE  DecodeBytes(t, n, key) = [i \in 1 .. n |-> IF i = n THEN Xor[s[n]][1] ELSE s[i]]
<1> DEFINE u == EncodeBytes(s, n, key)
           Tmp(v) == [i \in 0 .. n |->
                     IF i = 0 THEN 0
                     ELSE Scrambled(v[i], IF i = 1 THEN 0 ELSE v[i - 1],
                                    dfPACKET_KEY, i)]
<1>1. /\ DecodeBytes(t, n, key) =
            [i \in 1 .. n |-> Scrambled(Tmp(t)[i], Tmp(t)[i - 1], key, i)]
      /\ DecodeBytes(u, n, key) =
            [i \in 1 .. n |-> Scrambled(Tmp(u)[i], Tmp(u)[i - 1], key, i)]
  BY DEF DecodeBytes
<1>2. DecodeBytes(u, n, key) = [i \in 1 .. n |-> s[i]]
  <2> HIDE DEF Tmp
  <2>1. n \in Nat /\ \A i \in 1 .. n : u[i] = EncodeBytes(s, n, key)[i]
    OBVIOUS
  <2>2. \A i \in 1 .. n : s[i] \in Byte
    OBVIOUS
  <2>3. key \in Byte
    OBVIOUS
  <2> HIDE DEF u
  <2> QED
    BY ONLY <2>1, <2>2, <2>3, DecodeInverts
<1>3. u \in [1 .. n -> Byte] /\ dfPACKET_KEY \in Byte /\ 0 \in Byte
  <2> HIDE DEF Tmp
  <2>1. n \in Nat
    OBVIOUS
  <2>2. \A i \in 1 .. n : s[i] \in Byte
    OBVIOUS
  <2>3. key \in Byte
    OBVIOUS
  <2>4. u \in [1 .. n -> Byte]
    BY ONLY <2>1, <2>2, <2>3, EncodedBytes
  <2> QED
    BY <2>4 DEF dfPACKET_KEY, Byte
<1> HIDE DEF u
<1>4. \A i \in 0 .. n - 1 : Tmp(t)[i] = Tmp(u)[i]
  BY DEF u
<1>5. Tmp(t)[n] = Xor[Tmp(u)[n]][1] /\ Tmp(u)[n] \in Byte /\ Tmp(u)[n - 1] \in Byte
  <2> DEFINE before(v) == IF n = 1 THEN 0 ELSE v[n - 1]
  <2>1. /\ Tmp(t)[n] = Scrambled(t[n], before(t), dfPACKET_KEY, n)
        /\ Tmp(u)[n] = Scrambled(u[n], before(u), dfPACKET_KEY, n)
    OBVIOUS
  <2>2. before(t) = before(u) /\ before(u) \in Byte /\ u[n] \in Byte /\ t[n] = Xor[u[n]][1]
    BY <1>3 DEF u
  <2>3. Tmp(u)[n - 1] \in Byte
    <3>1. CASE n = 1
      BY <3>1, <1>3
    <3>2. CASE n # 1
      <4>1. /\ n - 1 \in 1 .. n /\ n - 1 \in Nat
            /\ (IF n - 1 = 1 THEN 0 ELSE u[(n - 1) - 1]) \in Byte
        BY <1>3, <3>2
      <4>2. Tmp(u)[n - 1] = Scrambled(u[n - 1], IF n - 1 = 1 THEN 0 ELSE u[(n - 1) - 1],
                                      dfPACKET_KEY, n - 1)
        BY <4>1
      <4>3. u[n - 1] \in Byte
        BY <1>3, <4>1
      <4>4. Scrambled(u[n - 1], IF n - 1 = 1 THEN 0 ELSE u[(n - 1) - 1],
                      dfPACKET_KEY, n - 1) \in Byte
        <5> DEFINE b == IF n - 1 = 1 THEN 0 ELSE u[(n - 1) - 1]
        <5>1. b \in Byte
          BY <4>1
        <5> HIDE DEF b
        <5>2. Scrambled(u[n - 1], b, dfPACKET_KEY, n - 1) \in Byte
          BY <4>1, <4>3, <5>1, <1>3, ScrambledByte
        <5> QED
          BY <5>2 DEF b
      <4> QED
        BY <4>2, <4>4
    <3> QED
      BY <3>1, <3>2
  <2> HIDE DEF Tmp, before
  <2>4. n \in Nat
    OBVIOUS
  <2>5. /\ Scrambled(u[n], before(u), dfPACKET_KEY, n) \in Byte
        /\ Scrambled(Xor[u[n]][1], before(u), dfPACKET_KEY, n) =
              Xor[Scrambled(u[n], before(u), dfPACKET_KEY, n)][1]
    <3> DEFINE b == before(u)
    <3>1. b \in Byte /\ u[n] \in Byte
      BY <2>2
    <3> HIDE DEF b
    <3>2. Scrambled(u[n], b, dfPACKET_KEY, n) \in Byte
      BY <3>1, <2>4, <1>3, ScrambledByte
    <3>3. Scrambled(Xor[u[n]][1], b, dfPACKET_KEY, n) =
             Xor[Scrambled(u[n], b, dfPACKET_KEY, n)][1]
      BY <3>1, <2>4, <1>3, ScrambledFlip
    <3> QED
      BY <3>2, <3>3 DEF b
  <2> QED
    BY <2>1, <2>2, <2>3, <2>5
<1> HIDE DEF Tmp
<1>6. \A i \in 1 .. n : Scrambled(Tmp(u)[i], Tmp(u)[i - 1], key, i) = s[i]
  BY <1>1, <1>2
<1>7. ASSUME NEW i \in 1 .. n
      PROVE  Scrambled(Tmp(t)[i], Tmp(t)[i - 1], key, i) =
                IF i = n THEN Xor[s[n]][1] ELSE s[i]
  <2>1. CASE i # n
    BY <2>1, <1>4, <1>6, <1>7
  <2>2. CASE i = n
    <3>1. Scrambled(Tmp(t)[n], Tmp(t)[n - 1], key, n) =
             Scrambled(Xor[Tmp(u)[n]][1], Tmp(u)[n - 1], key, n)
      BY <1>4, <1>5
    <3>2. Scrambled(Xor[Tmp(u)[n]][1], Tmp(u)[n - 1], key, n) =
             Xor[Scrambled(Tmp(u)[n], Tmp(u)[n - 1], key, n)][1]
      <4>1. n \in Nat
        OBVIOUS
      <4> QED
        BY <4>1, <1>5, ScrambledFlip
    <3>3. Scrambled(Tmp(u)[n], Tmp(u)[n - 1], key, n) = s[n]
      BY <1>6
    <3> QED
      BY <2>2, <3>1, <3>2, <3>3
  <2> QED
    BY <2>1, <2>2
<1> QED
  BY <1>1, <1>7

-----------------------------------------------------------------------------
(* f[i] is the sum of the first i bytes *)
Sums(f, bytes, n) ==
    f[0] = 0 /\ \A i \in 1 .. n : f[i] = f[i - 1] + bytes[i]

(* The check sum is the last of the partial sums, modulo 256 ... *)
LEMMA PartialSums ==
    ASSUME NEW n \in Nat, NEW bytes, \A i \in 1 .. n : bytes[i] \in Byte
    PROVE  \E f \in [0 .. n -> Nat] :
              Sums(f, bytes, n) /\ CheckSum(bytes, n) = f[n] % 256
<1> DEFINE sumVal[i \in 0 .. n] == IF i = 0 THEN 0 ELSE sumVal[i - 1] + bytes[i]
           step == [i \in 1 .. n |-> [x \in Nat |-> x + bytes[i]]]
<1>1. CheckSum(bytes, n) = sumVal[n] % 256
  BY DEF CheckSum
<1>2. step \in [1 .. n -> [Nat -> Nat]]
  BY SMTT(30) DEF Byte
<1>3. PICK f \in [0 .. n -> Nat] :
           f[0] = 0 /\ \A i \in 1 .. n : f[i] = step[i][f[i - 1]]
  <2> HIDE DEF step, sumVal
  <2> DEFINE N == Nat
  <2>1. 0 \in N /\ step \in [1 .. n -> [N -> N]]
    BY <1>2
  <2> HIDE DEF N
  <2>2. \E f \in [0 .. n -> N] :
           f[0] = 0 /\ \A i \in 1 .. n : f[i] = step[i][f[i - 1]]
    BY <2>1, RecursionExists
  <2> QED
    BY <2>2 DEF N
<1>4. ASSUME NEW i \in 1 .. n
      PROVE  f[i] = f[i - 1] + bytes[i]
  <2>1. f[i - 1] \in Nat
    BY <1>3, <1>4
  <2> QED
    BY <1>3, <1>4, <2>1
<1>5. f = [i \in 0 .. n |-> IF i = 0 THEN 0 ELSE f[i - 1] + bytes[i]]
  BY <1>3, <1>4
<1>6. sumVal = [i \in 0 .. n |-> IF i = 0 THEN 0 ELSE sumVal[i - 1] + bytes[i]]
  BY <1>5 DEF sumVal
<1> HIDE DEF sumVal
<1>7. sumVal[0] = 0 /\ \A i \in 1 .. n : sumVal[i] = sumVal[i - 1] + bytes[i]
  BY <1>6
<1>8. sumVal \in [0 .. n -> Nat]
  <2> DEFINE T == {i \in Nat : i <= n => sumVal[i] \in Nat}
  <2>1. 0 \in T
    BY <1>7
  <2>2. ASSUME NEW i \in Nat, i \in T
        PROVE  i + 1 \in T
    <3>1. CASE i + 1 <= n
      <4>1. sumVal[i + 1] = sumVal[(i + 1) - 1] + bytes[i + 1] /\ bytes[i + 1] \in Byte
        BY <2>2, <1>7, <3>1
      <4>2. (i + 1) - 1 = i /\ sumVal[i] \in Nat
        BY <2>2, <3>1
      <4>3. sumVal[i + 1] = sumVal[i] + bytes[i + 1]
        BY <4>1, <4>2, Zenon
      <4>4. \A x \in Nat, y \in Byte : x + y \in Nat
        BY DEF Byte
      <4>5. sumVal[i + 1] \in Nat
        BY <4>1, <4>2, <4>3, <4>4, Zenon
      <4> QED
        BY <2>2, <4>5
    <3> QED
      BY <3>1, <2>2
  <2> HIDE DEF T
  <2>3. Nat \subseteq T
    BY <2>1, <2>2, SetInduction
  <2>4. \A i \in 0 .. n : sumVal[i] \in Nat
    BY <2>3 DEF T
  <2> QED
    BY <1>6, <2>4
<1> QED
  BY <1>1, <1>7, <1>8 DEF Sums

(* ... which are determined by the bytes *)
LEMMA PartialSumsAgree ==
    ASSUME NEW n \in Nat, NEW bytes, NEW f, NEW g,
           Sums(f, bytes, n), Sums(g, bytes, n)
    PROVE  f[n] = g[n]
<1> DEFINE T == {i \in Nat : i <= n => f[i] = g[i]}
<1>1. 0 \in T
  BY DEF Sums
<1>2. ASSUME NEW i \in Nat, i \in T
      PROVE  i + 1 \in T
  <2>1. CASE i + 1 <= n
    <3>1. /\ f[i + 1] = f[(i + 1) - 1] + bytes[i + 1]
          /\ g[i + 1] = g[(i + 1) - 1] + bytes[i + 1]
      BY <1>2, <2>1 DEF Sums
    <3>2. (i + 1) - 1 = i /\ f[i] = g[i]
      BY <1>2, <2>1
    <3>3. f[i + 1] = g[i + 1]
      BY <3>1, <3>2, Zenon
    <3> QED
      BY <3>3, <1>2
  <2> QED
    BY <2>1, <1>2
<1> HIDE DEF T
<1>3. Nat \subseteq T
  BY <1>1, <1>2, SetInduction
<1> QED
  BY <1>3 DEF T

(* the check sum is a byte *)
LEMMA CheckSumByte ==
    ASSUME NEW n \in Nat, NEW bytes, \A i \in 1 .. n : bytes[i] \in Byte
    PROVE  CheckSum(bytes, n) \in Byte
<1>1. PICK f \in [0 .. n -> Nat] :
           Sums(f, bytes, n) /\ CheckSum(bytes, n) = f[n] % 256
  BY PartialSums
<1>2. f[n] \in Nat
  BY <1>1
<1>3. \A x \in Nat : x % 256 \in 0 .. 255
  OBVIOUS
<1> QED
  BY <1>1, <1>2, <1>3 DEF Byte

(* the check sums of the same bytes are equal *)
LEMMA CheckSumSame ==
    ASSUME NEW n \in Nat, NEW b, NEW c, \A i \in 1 .. n : b[i] \in Byte /\ c[i] = b[i]
    PROVE  CheckSum(c, n) = CheckSum(b, n)
<1>1. PICK f \in [0 .. n -> Nat] :
           Sums(f, b, n) /\ CheckSum(b, n) = f[n] % 256
  BY PartialSums, ZenonT(30)
<1>2. PICK g \in [0 .. n -> Nat] :
           Sums(g, c, n) /\ CheckSum(c, n) = g[n] % 256
  <2>1. \A i \in 1 .. n : c[i] \in Byte
    OBVIOUS
  <2> QED
    BY <2>1, PartialSums, ZenonT(30)
<1>3. Sums(g, b, n)
  BY <1>2 DEF Sums
<1>4. f[n] = g[n]
  BY <1>1, <1>3, PartialSumsAgree
<1> QED
  BY <1>1, <1>2, <1>4

(* neighbours differ modulo 256 *)
LEMMA OffByOne ==
    \A x, y \in Nat : y \in {x - 1, x + 1} => y % 256 # x % 256
<1>1. ASSUME NEW x \in Nat
      PROVE  (x + 1) % 256 # x % 256
  BY <1>1, SMT
<1> QED
  BY <1>1

(* and the last byte off by one makes another check sum *)
LEMMA CheckSumFlip ==
    ASSUME NEW n \in Nat \ {0}, NEW b, NEW c,
           \A i \in 1 .. n : b[i] \in Byte /\ c[i] \in Byte,
           \A i \in 1 .. n - 1 : c[i] = b[i], c[n] \in {b[n] - 1, b[n] + 1}
    PROVE  CheckSum(c, n) # CheckSum(b, n)
<1>1. PICK f \in [0 .. n -> Nat] :
           Sums(f, b, n) /\ CheckSum(b, n) = f[n] % 256
  <2>1. n \in Nat /\ \A i \in 1 .. n : b[i] \in Byte
    OBVIOUS
  <2> QED
    BY <2>1, PartialSums, ZenonT(30)
<1>2. PICK g \in [0 .. n -> Nat] :
           Sums(g, c, n) /\ CheckSum(c, n) = g[n] % 256
  <2>1. n \in Nat /\ \A i \in 1 .. n : c[i] \in Byte
    OBVIOUS
  <2> QED
    BY <2>1, PartialSums, ZenonT(30)
<1>3. n - 1 \in Nat /\ Sums(f, b, n - 1) /\ Sums(g, b, n - 1)
  BY <1>1, <1>2 DEF Sums
<1>4. f[n - 1] = g[n - 1]
  BY <1>3, PartialSumsAgree
<1>5. f[n] = f[n - 1] + b[n] /\ g[n] = g[n - 1] + c[n] /\ f[n - 1] \in Nat
  BY <1>1, <1>2 DEF Sums
<1>6. f[n] \in Nat /\ g[n] \in {f[n] - 1, f[n] + 1} /\ g[n] \in Nat
  <2>1. b[n] \in 0 .. 255 /\ c[n] \in 0 .. 255 /\ c[n] \in {b[n] - 1, b[n] + 1}
    BY DEF Byte
  <2> DEFINE x == f[n - 1]
             y == b[n]
             z == c[n]
  <2>2. f[n] = x + y /\ g[n] = x + z /\ x \in Nat
    BY <1>4, <1>5
  <2>3. \A v \in Nat, u \in 0 .. 255, w \in 0 .. 255 : w \in {u - 1, u + 1} =>
           v + u \in Nat /\ v + w \in Nat /\ v + w \in {(v + u) - 1, (v + u) + 1}
    OBVIOUS
  <2>4. x + y \in Nat /\ x + z \in Nat /\ x + z \in {(x + y) - 1, (x + y) + 1}
    BY <2>1, <2>2, <2>3, Zenon
  <2> HIDE DEF x, y, z
  <2> QED
    BY <2>2, <2>4, Zenon
<1>7. g[n] % 256 # f[n] % 256
  BY <1>6, OffByOne, Zenon
<1> QED
  BY <1>1, <1>2, <1>7, Zenon
-----------------------------------------------------------------------------
(* what the operations of a packet leave in its fields *)

(* WithCodedPart changes the check sum and the bytes *)
LEMMA WithCodedPartFields ==
    ASSUME NEW room \in Nat, NEW p \in PacketType(room), NEW s
    PROVE  LET q == WithCodedPart(p, s)
           IN  /\ q.header.code = p.header.code /\ q.header.len = p.header.len
               /\ q.header.randKey = p.header.randKey /\ q.header.chkSum = s[1]
               /\ q.bytes = [i \in 1 .. room |->
                               IF i < Len(s) THEN s[i + 1] ELSE p.bytes[i]]
               /\ q.writePos = p.writePos /\ q.readPos = p.readPos
               /\ q.isEncode = p.isEncode
  BY DEF WithCodedPart, PacketType, HeaderType

(* and keeps the shape *)
LEMMA WithCodedPartType ==
    ASSUME NEW room \in Nat, NEW p \in PacketType(room), NEW s, s[1] \in Byte,
           WithCodedPart(p, s).bytes \in [1 .. room -> Byte]
    PROVE  WithCodedPart(p, s) \in PacketType(room)
<1> DEFINE h == [p.header EXCEPT !.chkSum = s[1]]
           b == [i \in 1 .. room |-> IF i < Len(s) THEN s[i + 1] ELSE p.bytes[i]]
<1>1. WithCodedPart(p, s) = [p EXCEPT !.header = h, !.bytes = b]
  BY DEF WithCodedPart, PacketType, HeaderType
<1>2. h \in HeaderType
  BY DEF PacketType, HeaderType
<1>3. b \in [1 .. room -> Byte]
  BY WithCodedPartFields, ZenonT(30)
<1> HIDE DEF h, b
<1> QED
  BY <1>1, <1>2, <1>3 DEF PacketType

(* SetData changes the bytes and writePos *)
LEMMA SetDataFields ==
    ASSUME NEW room \in Nat, NEW p \in PacketType(room), NEW data
    PROVE  LET q == SetData(p, data)
               size == AtMost(Len(data), PayloadRoom - p.writePos)
           IN  /\ q.header = p.header
               /\ q.bytes = [i \in 1 .. room |->
                               IF i \in p.writePos + 1 .. p.writePos + size
                               THEN data[i - p.writePos] ELSE p.bytes[i]]
               /\ q.writePos = p.writePos + size /\ q.readPos = p.readPos
               /\ q.isEncode = p.isEncode
  BY DEF SetData, PacketType, GetTotalSize

(* Encode first writes the header and isEncode *)
LEMMA EncodeHeader ==
    ASSUME NEW room \in Nat, NEW p \in PacketType(room), NEW h
    PROVE  LET q == [p EXCEPT !.isEncode = TRUE, !.header = h]
           IN  /\ q.header = h /\ q.bytes = p.bytes
               /\ q.writePos = p.writePos /\ q.readPos = p.readPos
               /\ q.isEncode
  BY DEF PacketType
LEMMA EncodeHeaderType ==
    ASSUME NEW room \in Nat, NEW p \in PacketType(room), NEW h \in HeaderType
    PROVE  [p EXCEPT !.isEncode = TRUE, !.header = h] \in PacketType(room)
  BY DEF PacketType

(* the bytes that are scrambled when the first len of bytes are sent *)
Plain(bytes, len) == <<CheckSum(bytes, len)>> \o bytes

(* a byte in front of the bytes of a packet *)
LEMMA Prefixed ==
    ASSUME NEW room \in Nat, NEW x \in Byte, NEW s \in [1 .. room -> Byte]
    PROVE  /\ (<<x>> \o s)[1] = x
           /\ \A i \in 1 .. room : (<<x>> \o s)[i + 1] = s[i]
  OBVIOUS

(* Plain position by position *)
LEMMA PlainBytes ==
    ASSUME NEW room \in Nat, NEW s \in [1 .. room -> Byte], NEW len \in 0 .. room
    PROVE  /\ CheckSum(s, len) \in Byte
           /\ Plain(s, len)[1] = CheckSum(s, len)
           /\ \A i \in 1 .. room : Plain(s, len)[i + 1] = s[i]
           /\ \A i \in 1 .. len + 1 : Plain(s, len)[i] \in Byte
<1>1. len \in Nat /\ \A i \in 1 .. len : s[i] \in Byte
  OBVIOUS
<1>2. CheckSum(s, len) \in Byte
  BY <1>1, CheckSumByte
<1>3. /\ Plain(s, len)[1] = CheckSum(s, len)
      /\ \A i \in 1 .. room : Plain(s, len)[i + 1] = s[i]
  BY <1>2, Prefixed DEF Plain
<1>4. ASSUME NEW i \in 1 .. len + 1
      PROVE  Plain(s, len)[i] \in Byte
  <2>1. CASE i = 1
    BY <2>1, <1>2, <1>3
  <2>2. CASE i # 1
    <3>1. i - 1 \in 1 .. room /\ (i - 1) + 1 = i
      BY <1>1, <1>4, <2>2
    <3>2. Plain(s, len)[(i - 1) + 1] = s[i - 1]
      BY <1>3, <3>1
    <3> QED
      BY <3>1, <3>2
  <2> QED
    BY <2>1, <2>2
<1> QED
  BY <1>2, <1>3, <1>4

(* a message as the sender encodes it, whatever is behind it in the packet *)
LEMMA EncodedPacket ==
    ASSUME NEW room \in Nat, NEW p \in PacketType(room), NEW key \in Byte,
           p.readPos = 0, p.writePos <= room, ~p.isEncode
    PROVE  LET w == Encode(p, key)
               len == p.writePos
               e == EncodeBytes(Plain(p.bytes, len), len + 1, key)
           IN  /\ w.header.code = dfPACKET_CODE /\ w.header.len = len
               /\ w.header.randKey = key /\ w.header.chkSum = e[1]
               /\ w.bytes = [i \in 1 .. room |->
                               IF i <= len THEN e[i + 1] ELSE p.bytes[i]]
               /\ w.writePos = len /\ w.readPos = 0
               /\ e \in [1 .. len + 1 -> Byte]
               /\ w \in PacketType(room)
<1> DEFINE len == p.writePos
           pad == p.bytes
           header == NetHeader(dfPACKET_CODE, len, key, CheckSum(pad, len))
           q == [p EXCEPT !.isEncode = TRUE, !.header = header]
           e == EncodeBytes(Plain(pad, len), len + 1, key)
           w == Encode(p, key)
<1>1. pad \in [1 .. room -> Byte] /\ len \in Nat /\ len <= room /\ len \in 0 .. room
  BY DEF PacketType
<1>2. /\ len + 1 \in Nat /\ CheckSum(pad, len) \in Byte
      /\ \A i \in 1 .. len + 1 : Plain(pad, len)[i] \in Byte
  <2> HIDE DEF pad, len
  <2> QED
    BY <1>1, PlainBytes
<1>4. e \in [1 .. len + 1 -> Byte]
  <2> HIDE DEF pad, len
  <2> QED
    BY <1>2, EncodedBytes
<1>6. w = WithCodedPart(q, EncodeBytes(CodedPart(q), len + 1, key))
  <2>1. GetPayloadSize(p) = len
    BY <1>1 DEF GetPayloadSize
  <2>2. header = NetHeader(dfPACKET_CODE, GetPayloadSize(p), key,
                           CheckSum(p.bytes, GetPayloadSize(p)))
    BY <2>1, Zenon
  <2> HIDE DEF pad, len
  <2> QED
    BY <2>1, <2>2 DEF Encode
<1> HIDE DEF pad, len
<1>7. header \in HeaderType
  BY <1>1, <1>2 DEF HeaderType, NetHeader, dfPACKET_CODE, Byte
<1>8. /\ q \in PacketType(room) /\ q.header = header /\ q.bytes = pad
      /\ q.writePos = len /\ q.readPos = 0
  BY <1>7, EncodeHeader, EncodeHeaderType DEF pad, len
<1>9. /\ header.code = dfPACKET_CODE /\ header.len = len /\ header.randKey = key
      /\ header.chkSum = CheckSum(pad, len)
  BY DEF NetHeader
<1> HIDE DEF header, q
<1>10. CodedPart(q) = Plain(pad, len)
  BY <1>8, <1>9 DEF CodedPart, Plain
<1>11. w = WithCodedPart(q, e)
  BY <1>6, <1>10
<1> HIDE DEF e, w
<1>12. /\ w.header.code = q.header.code /\ w.header.len = q.header.len
       /\ w.header.randKey = q.header.randKey /\ w.header.chkSum = e[1]
       /\ w.bytes = [i \in 1 .. room |->
                       IF i < Len(e) THEN e[i + 1] ELSE q.bytes[i]]
       /\ w.writePos = q.writePos /\ w.readPos = q.readPos
  <2>1. room \in Nat /\ q \in PacketType(room)
    BY <1>8
  <2> QED
    <3> DEFINE v == WithCodedPart(q, e)
    <3>1. /\ v.header.code = q.header.code /\ v.header.len = q.header.len
          /\ v.header.randKey = q.header.randKey /\ v.header.chkSum = e[1]
          /\ v.bytes = [i \in 1 .. room |->
                          IF i < Len(e) THEN e[i + 1] ELSE q.bytes[i]]
          /\ v.writePos = q.writePos /\ v.readPos = q.readPos
          /\ v.isEncode = q.isEncode
      BY ONLY <2>1, WithCodedPartFields, Zenon
    <3>2. w = v
      BY <1>11
    <3> QED
      BY ONLY <3>1, <3>2, Zenon
<1>13. w.bytes = [i \in 1 .. room |-> IF i <= len THEN e[i + 1] ELSE pad[i]]
  <2>1. Len(e) = len + 1
    BY <1>1, <1>4
  <2> QED
    BY <1>1, <1>8, <1>12, <2>1
<1>14. w \in PacketType(room)
  <2>1. e[1] \in Byte /\ w.bytes \in [1 .. room -> Byte]
    <3>1. ASSUME NEW i \in 1 .. room
          PROVE  (IF i <= len THEN e[i + 1] ELSE pad[i]) \in Byte
      <4>1. CASE i <= len
        <5>1. i + 1 \in 1 .. len + 1
          BY <1>1, <3>1, <4>1
        <5> QED
          BY <1>4, <4>1, <5>1
      <4>2. pad[i] \in Byte
        BY <1>1, <3>1
      <4> QED
        BY <4>1, <4>2
    <3>2. 1 \in 1 .. len + 1
      BY <1>1
    <3> QED
      BY <1>4, <1>13, <3>1, <3>2
  <2> QED
    BY <1>8, <1>11, <2>1, WithCodedPartType
<1> QED
  BY <1>4, <1>8, <1>9, <1>12, <1>13, <1>14 DEF w, e, len, pad

(* its header *)
LEMMA EncodedHeader ==
    ASSUME NEW room \in Nat, NEW p \in PacketType(room), NEW key \in Byte,
           p.readPos = 0, p.writePos <= room, ~p.isEncode
    PROVE  /\ Encode(p, key).header.code = dfPACKET_CODE
           /\ Encode(p, key).header.len = p.writePos
           /\ Encode(p, key).header.randKey = key
           /\ Encode(p, key).writePos = p.writePos /\ Encode(p, key).readPos = 0
           /\ Encode(p, key) \in PacketType(room)
<1> DEFINE w == Encode(p, key)
           len == p.writePos
           e == EncodeBytes(Plain(p.bytes, len), len + 1, key)
<1>1. /\ w.header.code = dfPACKET_CODE /\ w.header.len = len
      /\ w.header.randKey = key /\ w.header.chkSum = e[1]
      /\ w.bytes = [i \in 1 .. room |-> IF i <= len THEN e[i + 1] ELSE p.bytes[i]]
      /\ w.writePos = len /\ w.readPos = 0
      /\ w \in PacketType(room)
  BY EncodedPacket
<1> HIDE DEF e, w
<1> QED
  BY <1>1 DEF w

(***************************************************************************)
(* Decode inverts Encode (CNetPacket.cpp 333-403): for every content of a  *)
(* packet and every key, a packet of any size that holds the bytes of the  *)
(* encoded message decodes to that content and passes the check.           *)
(***************************************************************************)
THEOREM DecodeInvertsEncode ==
    ASSUME NEW room \in Nat, NEW p \in PacketType(room), NEW key \in Byte,
           p.readPos = 0, p.writePos <= room, ~p.isEncode,
           NEW space \in Nat, NEW q \in PacketType(space), p.writePos <= space,
           q.header.len = p.writePos, q.header.randKey = key,
           q.header.chkSum = Encode(p, key).header.chkSum,
           \A i \in 1 .. p.writePos : q.bytes[i] = Encode(p, key).bytes[i]
    PROVE  /\ ChecksOut(Decode(q))
           /\ \A i \in 1 .. p.writePos : Decode(q).bytes[i] = p.bytes[i]
<1> DEFINE w == Encode(p, key)
           len == p.writePos
           pad == p.bytes
           n == len + 1
           e == EncodeBytes(Plain(pad, len), n, key)
           t == CodedPart(q)
           d == DecodeBytes(t, n, key)
           got == Decode(q)
<1>1. /\ w.header.chkSum = e[1]
      /\ w.bytes = [i \in 1 .. room |-> IF i <= len THEN e[i + 1] ELSE pad[i]]
  BY EncodedPacket
<1>2. /\ len \in Nat /\ n \in Nat /\ len <= room /\ len <= space /\ q.header.len + 1 = n
      /\ n = len + 1 /\ pad \in [1 .. room -> Byte] /\ len \in 0 .. room
      /\ q.header.len = len
  BY DEF PacketType
<1>4. /\ t[1] = q.header.chkSum
      /\ \A i \in 1 .. space : t[i + 1] = q.bytes[i]
  <2>1. q.header.chkSum \in Byte /\ q.bytes \in [1 .. space -> Byte]
    BY DEF PacketType, HeaderType
  <2> QED
    BY <2>1, Prefixed DEF CodedPart
<1>5. got = WithCodedPart(q, d)
  BY <1>2 DEF Decode
<1>6. q.header.chkSum = w.header.chkSum /\ \A i \in 1 .. len : q.bytes[i] = w.bytes[i]
  OBVIOUS
<1> HIDE DEF w, len, t, e, pad
<1>3. /\ Plain(pad, len)[1] = CheckSum(pad, len)
      /\ \A i \in 1 .. room : Plain(pad, len)[i + 1] = pad[i]
      /\ \A i \in 1 .. n : Plain(pad, len)[i] \in Byte
  BY <1>2, PlainBytes
<1>7. ASSUME NEW i \in 1 .. n
      PROVE  t[i] = e[i]
  <2>1. CASE i = 1
    BY <2>1, <1>1, <1>4, <1>6
  <2>2. CASE i # 1
    <3>1. /\ i - 1 \in 1 .. len /\ i - 1 \in 1 .. room /\ i - 1 \in 1 .. space
          /\ (i - 1) + 1 = i
      BY <1>2, <1>7, <2>2
    <3>2. t[(i - 1) + 1] = q.bytes[i - 1] /\ q.bytes[i - 1] = w.bytes[i - 1]
      BY <1>4, <1>6, <3>1
    <3>3. w.bytes[i - 1] = e[(i - 1) + 1]
      BY <1>1, <3>1
    <3> QED
      BY <3>1, <3>2, <3>3
  <2> QED
    BY <2>1, <2>2
<1> HIDE DEF n
<1>8. d = [i \in 1 .. n |-> Plain(pad, len)[i]]
  <2>1. n \in Nat /\ \A i \in 1 .. n : t[i] = e[i]
    BY <1>2, <1>7
  <2> QED
    BY <1>3, <2>1, DecodeInverts, SMTT(30) DEF e
<1> HIDE DEF d, got
<1>9. /\ got.header.len = q.header.len /\ got.header.chkSum = d[1]
      /\ got.bytes = [i \in 1 .. space |-> IF i < Len(d) THEN d[i + 1] ELSE q.bytes[i]]
  BY <1>5, WithCodedPartFields
<1>10. Len(d) = n /\ 1 \in 1 .. n
  BY <1>2, <1>8
<1>11. ASSUME NEW i \in 1 .. len
       PROVE  got.bytes[i] = pad[i]
  <2>1. i \in 1 .. room /\ i \in 1 .. space /\ i < n /\ i + 1 \in 1 .. n
    BY <1>2, <1>11
  <2> QED
    BY <1>3, <1>8, <1>9, <1>10, <2>1
<1>13. CheckSum(got.bytes, len) = CheckSum(pad, len)
  <2>1. \A i \in 1 .. len : pad[i] \in Byte /\ got.bytes[i] = pad[i]
    BY <1>2, <1>11
  <2> QED
    BY <1>2, <2>1, CheckSumSame
<1>14. ChecksOut(got)
  BY <1>2, <1>3, <1>8, <1>9, <1>10, <1>13 DEF ChecksOut
<1> QED
  BY <1>14, <1>11 DEF got, len, pad

(***************************************************************************)
(* ... and one whose last byte differs in its lowest bit does not pass     *)
(* (CNetPacket.cpp 390-403).                                               *)
(***************************************************************************)
THEOREM DecodeDetectsChange ==
    ASSUME NEW room \in Nat, NEW p \in PacketType(room), NEW key \in Byte,
           p.readPos = 0, p.writePos <= room, ~p.isEncode,
           NEW space \in Nat, NEW q \in PacketType(space), p.writePos <= space,
           q.header.len = p.writePos, q.header.randKey = key,
           LET w == Encode(p, key)
           IN  /\ q.header.chkSum = IF p.writePos = 0 THEN Xor[w.header.chkSum][1]
                                    ELSE w.header.chkSum
               /\ \A i \in 1 .. p.writePos :
                     q.bytes[i] = IF i = p.writePos THEN Xor[w.bytes[i]][1]
                                  ELSE w.bytes[i]
    PROVE  ~ChecksOut(Decode(q))
<1> DEFINE w == Encode(p, key)
           len == p.writePos
           pad == p.bytes
           n == len + 1
           e == EncodeBytes(Plain(pad, len), n, key)
           t == CodedPart(q)
           d == DecodeBytes(t, n, key)
           got == Decode(q)
<1>1. /\ w.header.chkSum = e[1]
      /\ w.bytes = [i \in 1 .. room |-> IF i <= len THEN e[i + 1] ELSE pad[i]]
  BY EncodedPacket
<1>2. /\ len \in Nat /\ n \in Nat /\ len <= room /\ len <= space /\ q.header.len + 1 = n
      /\ n = len + 1 /\ pad \in [1 .. room -> Byte] /\ len \in 0 .. room
      /\ q.header.len = len
  BY DEF PacketType
<1>4. /\ t[1] = q.header.chkSum
      /\ \A i \in 1 .. space : t[i + 1] = q.bytes[i]
  <2>1. q.header.chkSum \in Byte /\ q.bytes \in [1 .. space -> Byte]
    BY DEF PacketType, HeaderType
  <2> QED
    BY <2>1, Prefixed DEF CodedPart
<1>5. got = WithCodedPart(q, d)
  BY <1>2 DEF Decode
<1>6. /\ q.header.chkSum = IF len = 0 THEN Xor[w.header.chkSum][1] ELSE w.header.chkSum
      /\ \A i \in 1 .. len : q.bytes[i] = IF i = len THEN Xor[w.bytes[i]][1] ELSE w.bytes[i]
  OBVIOUS
<1> HIDE DEF w, len, t, e, pad
<1>3. /\ Plain(pad, len)[1] = CheckSum(pad, len)
      /\ \A i \in 1 .. room : Plain(pad, len)[i + 1] = pad[i]
      /\ \A i \in 1 .. n : Plain(pad, len)[i] \in Byte
  BY <1>2, PlainBytes
<1>7. ASSUME NEW i \in 1 .. n
      PROVE  t[i] = IF i = n THEN Xor[e[i]][1] ELSE e[i]
  <2>1. CASE i = 1
    <3>1. i = n <=> len = 0
      BY <1>2, <2>1
    <3>2. t[1] = IF len = 0 THEN Xor[e[1]][1] ELSE e[1]
      BY <1>1, <1>4, <1>6
    <3> QED
      BY <2>1, <3>1, <3>2
  <2>2. CASE i # 1
    <3>1. /\ i - 1 \in 1 .. len /\ i - 1 \in 1 .. room /\ i - 1 \in 1 .. space
          /\ (i - 1) + 1 = i /\ (i - 1 = len <=> i = n)
      BY <1>2, <1>7, <2>2
    <3>2. /\ t[(i - 1) + 1] = q.bytes[i - 1]
          /\ q.bytes[i - 1] = IF i - 1 = len THEN Xor[w.bytes[i - 1]][1] ELSE w.bytes[i - 1]
      BY <1>4, <1>6, <3>1
    <3>3. w.bytes[i - 1] = e[(i - 1) + 1]
      BY <1>1, <3>1
    <3>4. t[i] = IF i - 1 = len THEN Xor[e[i]][1] ELSE e[i]
      BY ONLY <3>1, <3>2, <3>3, Zenon
    <3> QED
      BY <3>1, <3>4, Zenon
  <2> QED
    BY <2>1, <2>2
<1> HIDE DEF n
<1>8. d = [i \in 1 .. n |-> IF i = n THEN Xor[Plain(pad, len)[n]][1] ELSE Plain(pad, len)[i]]
  <2>1. n \in Nat \ {0} /\ (\A i \in 1 .. n - 1 : t[i] = e[i]) /\ t[n] = Xor[e[n]][1]
    BY <1>2, <1>7
  <2> QED
    BY <1>3, <2>1, DecodeFlipped DEF e
<1> HIDE DEF d, got
<1>9. /\ got.header.len = len /\ got.header.chkSum = d[1]
      /\ got.bytes = [i \in 1 .. space |-> IF i < Len(d) THEN d[i + 1] ELSE q.bytes[i]]
  BY <1>2, <1>5, WithCodedPartFields
<1>10. Len(d) = n /\ 1 \in 1 .. n
  BY <1>2, <1>8
<1>11. ASSUME NEW i \in 1 .. len
       PROVE  got.bytes[i] = IF i = len THEN Xor[pad[i]][1] ELSE pad[i]
  <2>1. /\ i \in 1 .. room /\ i \in 1 .. space /\ i < n /\ i + 1 \in 1 .. n
        /\ (i + 1 = n <=> i = len)
    BY <1>2, <1>11
  <2>2. got.bytes[i] = d[i + 1]
    BY <1>9, <1>10, <2>1
  <2>3. d[i + 1] = IF i + 1 = n THEN Xor[Plain(pad, len)[n]][1] ELSE Plain(pad, len)[i + 1]
    BY <1>8, <2>1
  <2>4. Plain(pad, len)[i + 1] = pad[i]
    BY <1>3, <2>1
  <2> QED
    BY <2>1, <2>2, <2>3, <2>4
<1>13. \A i \in 1 .. len : pad[i] \in Byte
  BY <1>2
<1>14. ChecksOut(got) <=> got.header.chkSum = CheckSum(got.bytes, len)
  BY <1>9 DEF ChecksOut
<1>15. CASE len = 0
  <2>1. CheckSum(got.bytes, len) = CheckSum(pad, len)
    <3>1. \A i \in 1 .. len : pad[i] \in Byte /\ got.bytes[i] = pad[i]
      BY <1>15
    <3> QED
      BY <1>2, <3>1, CheckSumSame
  <2>2. got.header.chkSum = Xor[CheckSum(pad, len)][1]
    BY <1>2, <1>3, <1>8, <1>9, <1>10, <1>15
  <2>3. CheckSum(pad, len) \in Byte
    BY <1>2, <1>13, CheckSumByte
  <2>4. Xor[CheckSum(pad, len)][1] # CheckSum(pad, len)
    <3>1. \A a \in Byte : Xor[a][1] # a
      <4>1. ASSUME NEW a \in Byte
            PROVE  Xor[a][1] # a
        <5>1. Xor[a][1] \in {a - 1, a + 1}
          BY <4>1, FlipByOne
        <5> QED
          BY <4>1, <5>1 DEF Byte
      <4> QED
        BY <4>1
    <3> QED
      BY <2>3, <3>1
  <2> QED
    BY <1>14, <2>1, <2>2, <2>4 DEF got
<1>16. CASE len # 0
  <2>1. len \in Nat \ {0} /\ len \in 1 .. len
    BY <1>2, <1>16
  <2>2. got.header.chkSum = CheckSum(pad, len)
    BY <1>2, <1>3, <1>8, <1>9, <1>10, <1>16
  <2>3. /\ \A i \in 1 .. len - 1 : got.bytes[i] = pad[i]
        /\ got.bytes[len] = Xor[pad[len]][1]
    BY <2>1, <1>11
  <2>4. pad[len] \in Byte /\ 1 \in Byte
    BY <1>13, <2>1 DEF Byte
  <2>5. /\ got.bytes[len] \in {pad[len] - 1, pad[len] + 1}
        /\ got.bytes[len] \in Byte
    BY <2>3, <2>4, FlipByOne, XorBits
  <2>6. \A i \in 1 .. len : pad[i] \in Byte /\ got.bytes[i] \in Byte
    BY <1>11, <1>13, <2>1, <2>3, <2>5
  <2>7. CheckSum(got.bytes, len) # CheckSum(pad, len)
    BY <2>1, <2>3, <2>5, <2>6, CheckSumFlip, SMTT(30)
  <2> QED
    BY <1>14, <2>2, <2>7 DEF got
<1> QED
  BY <1>15, <1>16

-----------------------------------------------------------------------------
(* what the client encoded *)
Encoded(m) == Encode(Packed(m.sample.payload), m.sample.randKey)

(* a message has a payload and a key *)
LEMMA MessageFits ==
    ASSUME NEW m \in Message
    PROVE  /\ m.sample.payload \in Seq(Byte) /\ Len(m.sample.payload) \in 0 .. MaxLen
           /\ Len(m.sample.payload) \in Nat
           /\ m.sample.randKey \in Byte /\ m.kind \in {"good", "code", "decode"}
<1>1. m.sample \in Samples /\ m.kind \in {"good", "code", "decode"}
  BY DEF Message
<1>2. /\ m.sample.payload \in Seq(Byte) /\ Len(m.sample.payload) <= MaxLen
      /\ m.sample.randKey \in Byte /\ MaxLen \in Nat
  BY <1>1, MessageAssumption
<1>3. Len(m.sample.payload) \in Nat
  BY <1>2
<1> QED
  BY <1>1, <1>2, <1>3

(* the client's packet before it is encoded *)
LEMMA PackedPayload ==
    ASSUME NEW payload \in Seq(Byte)
    PROVE  LET p == Packed(payload)
           IN  /\ p \in PacketType(Len(payload))
               /\ p.bytes = payload /\ p.writePos = Len(payload)
               /\ p.readPos = 0 /\ p.isEncode = FALSE
<1>1. payload \in [1 .. Len(payload) -> Byte] /\ Len(payload) \in Nat
  OBVIOUS
<1>2. NewPacket \in PacketType(PayloadRoom)
  BY DEF NewPacket, PacketType, HeaderType, NetHeader, Byte
<1>3. NewPacket.readPos = 0 /\ NewPacket.isEncode = FALSE
  BY DEF NewPacket
<1>4. /\ Packed(payload) \in PacketType(Len(payload))
      /\ Packed(payload).bytes = payload /\ Packed(payload).writePos = Len(payload)
      /\ Packed(payload).readPos = NewPacket.readPos
      /\ Packed(payload).isEncode = NewPacket.isEncode
  BY <1>1, <1>2 DEF Packed, PacketType
<1> QED
  BY <1>3, <1>4

LEMMA WireOf ==
    ASSUME NEW m \in Message
    PROVE  /\ m.kind = "good" => Wire[m] = Encoded(m)
           /\ m.kind = "code" => Wire[m] = [Encoded(m) EXCEPT !.header.code = 0]
           /\ m.kind = "decode" =>
                 Wire[m] = IF GetTotalSize(Encoded(m)) = 0
                           THEN [Encoded(m) EXCEPT !.header.chkSum = Xor[@][1]]
                           ELSE [Encoded(m) EXCEPT !.bytes[GetTotalSize(Encoded(m))] = Xor[@][1]]
  BY DEF Wire, Encoded

(* the header of a message on the wire *)
LEMMA WireHeader ==
    ASSUME NEW m \in Message
    PROVE  /\ Wire[m] \in PacketType(Len(m.sample.payload))
           /\ Wire[m].header.len = Len(m.sample.payload)
           /\ Wire[m].header.randKey = m.sample.randKey
           /\ Wire[m].header.code = IF m.kind = "code" THEN 0 ELSE dfPACKET_CODE
           /\ m.kind = "decode" =>
                 /\ Wire[m].header.chkSum = IF Len(m.sample.payload) = 0
                                            THEN Xor[Encoded(m).header.chkSum][1]
                                            ELSE Encoded(m).header.chkSum
                 /\ \A i \in 1 .. Len(m.sample.payload) :
                       Wire[m].bytes[i] = IF i = Len(m.sample.payload)
                                          THEN Xor[Encoded(m).bytes[i]][1]
                                          ELSE Encoded(m).bytes[i]
<1> DEFINE p == Encoded(m)
           len == Len(m.sample.payload)
<1>1. len \in Nat
  BY MessageFits
<1>2. /\ p \in PacketType(len) /\ p.header.code = dfPACKET_CODE /\ p.header.len = len
      /\ p.header.randKey = m.sample.randKey /\ p.writePos = len
  <2> DEFINE b == Packed(m.sample.payload)
  <2>1. b \in PacketType(len) /\ b.readPos = 0 /\ b.writePos = len /\ ~b.isEncode
    BY MessageFits, PackedPayload
  <2> HIDE DEF b
  <2> DEFINE key == m.sample.randKey
             w == Encode(b, key)
  <2>2. b.writePos <= len /\ key \in Byte
    BY <1>1, <2>1, MessageFits
  <2> HIDE DEF len, key
  <2>3. /\ w.header.code = dfPACKET_CODE /\ w.header.len = b.writePos
        /\ w.header.randKey = key
        /\ w.writePos = b.writePos /\ w \in PacketType(len)
    BY ONLY <1>1, <2>1, <2>2, EncodedHeader
  <2> QED
    BY <2>1, <2>3 DEF Encoded, b, key
<1> HIDE DEF p, len
<1>3. GetTotalSize(p) = len
  BY <1>2 DEF GetTotalSize
<1>4. 1 \in Byte /\ 0 \in Byte
  BY DEF Byte
<1>5. CASE m.kind = "good"
  <2>1. Wire[m] = p
    BY <1>5, WireOf DEF p
  <2> QED
    BY <1>2, <1>5, <2>1 DEF len
<1>6. CASE m.kind = "code"
  <2>1. Wire[m] = [p EXCEPT !.header.code = 0]
    BY <1>6, WireOf DEF p
  <2>2. Wire[m] \in PacketType(len)
    <3> DEFINE h == [p.header EXCEPT !.code = 0]
    <3>1. h \in HeaderType
      BY <1>2, <1>4 DEF PacketType, HeaderType
    <3>2. Wire[m] = [p EXCEPT !.header = h]
      BY <1>2, <2>1 DEF PacketType
    <3> HIDE DEF h
    <3> QED
      BY <1>2, <3>1, <3>2 DEF PacketType
  <2>3. /\ Wire[m].header.len = len /\ Wire[m].header.randKey = m.sample.randKey
        /\ Wire[m].header.code = 0
    BY <1>2, <2>1 DEF PacketType, HeaderType
  <2> QED
    BY <1>6, <2>2, <2>3 DEF len
<1>7. CASE m.kind = "decode" /\ len = 0
  <2> DEFINE x == Xor[p.header.chkSum][1]
  <2>1. Wire[m] = [p EXCEPT !.header.chkSum = x]
    BY <1>2, <1>3, <1>7, WireOf DEF p, PacketType, HeaderType
  <2>2. x \in Byte
    BY <1>2, <1>4, XorBits DEF PacketType, HeaderType
  <2> HIDE DEF x
  <2>3. Wire[m] \in PacketType(len)
    <3> DEFINE h == [p.header EXCEPT !.chkSum = x]
    <3>1. h \in HeaderType
      BY <1>2, <2>2 DEF PacketType, HeaderType
    <3>2. Wire[m] = [p EXCEPT !.header = h]
      BY <1>2, <2>1 DEF PacketType
    <3> HIDE DEF h
    <3> QED
      BY <1>2, <3>1, <3>2 DEF PacketType
  <2>4. /\ Wire[m].header.len = len /\ Wire[m].header.randKey = m.sample.randKey
        /\ Wire[m].header.code = dfPACKET_CODE /\ Wire[m].header.chkSum = x
    BY <1>2, <2>1 DEF PacketType, HeaderType
  <2> QED
    BY <1>7, <2>3, <2>4 DEF len, x, p
<1>8. CASE m.kind = "decode" /\ len # 0
  <2> DEFINE x == Xor[p.bytes[len]][1]
             b == [p.bytes EXCEPT ![len] = x]
  <2>0. len \in 1 .. len
    BY <1>1, <1>8
  <2>1. Wire[m] = [p EXCEPT !.bytes = b]
    BY <1>2, <1>3, <1>8, <2>0, WireOf DEF p, PacketType, HeaderType
  <2>2. x \in Byte
    BY <1>2, <1>4, <2>0, XorBits DEF PacketType
  <2>3. b \in [1 .. len -> Byte]
    BY <1>2, <2>0, <2>2 DEF PacketType
  <2>4. \A i \in 1 .. len :
           b[i] = IF i = len THEN Xor[p.bytes[i]][1] ELSE p.bytes[i]
    BY <1>2 DEF PacketType
  <2> HIDE DEF x, b
  <2>5. /\ Wire[m] \in PacketType(len) /\ Wire[m].header = p.header /\ Wire[m].bytes = b
    BY <1>2, <2>1, <2>3 DEF PacketType
  <2> QED
    BY <1>2, <1>8, <2>4, <2>5 DEF len, p
<1> QED
  BY <1>5, <1>6, <1>7, <1>8, MessageFits

-----------------------------------------------------------------------------
(* a message of the stream *)
LEMMA SizeOf ==
    \A m \in Message : /\ Wire[m].header.len \in 0 .. MaxLen
                       /\ Wire[m].header.len \in Nat
  BY WireHeader, MessageFits, MessageAssumption

(* a recursive function into the natural numbers is well defined *)
LEMMA NatRecursion ==
    \A n \in Nat : \A step \in [1 .. n -> [Nat -> Nat]] :
       \E f \in [0 .. n -> Nat] :
          f[0] = 0 /\ \A i \in 1 .. n : f[i] = step[i][f[i - 1]]
<1> DEFINE N == Nat
<1>1. 0 \in N
  OBVIOUS
<1> HIDE DEF N
<1>2. ASSUME NEW n \in Nat, NEW step, step \in [1 .. n -> [N -> N]]
      PROVE  \E f \in [0 .. n -> N] :
                f[0] = 0 /\ \A i \in 1 .. n : f[i] = step[i][f[i - 1]]
  BY <1>1, <1>2, RecursionExists, SMTT(30)
<1> SUFFICES ASSUME NEW n \in Nat, NEW step \in [1 .. n -> [N -> N]]
             PROVE  \E f \in [0 .. n -> N] :
                       f[0] = 0 /\ \A i \in 1 .. n : f[i] = step[i][f[i - 1]]
  BY DEF N
<1> QED
  BY <1>2

LEMMA HeaderSize == Header \in Nat /\ Header > 0
  BY MessageAssumption

(* where a message of the stream ends *)
LEMMA EndsStep ==
    ASSUME NEW ms \in Seq(Message)
    PROVE  /\ Ends(ms) \in [0 .. Len(ms) -> Nat]
           /\ Ends(ms)[0] = 0
           /\ \A k \in 1 .. Len(ms) :
                 Ends(ms)[k] = Ends(ms)[k - 1] + Header + Wire[ms[k]].header.len
<1> DEFINE n == Len(ms)
           len(j) == Wire[ms[j]].header.len
           step == [j \in 1 .. n |-> [x \in Nat |-> x + Header + len(j)]]
<1>0. n \in Nat /\ Header \in Nat
  BY MessageAssumption
<1>1. ASSUME NEW j \in 1 .. n
      PROVE  len(j) \in Nat
  <2>1. ms[j] \in Message
    BY <1>1
  <2> QED
    BY <2>1, SizeOf
<1>2. step \in [1 .. n -> [Nat -> Nat]]
  <2> HIDE DEF len
  <2> QED
    BY <1>0, <1>1
<1>3. PICK g \in [0 .. n -> Nat] :
           g[0] = 0 /\ \A i \in 1 .. n : g[i] = step[i][g[i - 1]]
  <2> HIDE DEF step, n
  <2> QED
    BY <1>0, <1>2, NatRecursion, Zenon
<1>4. ASSUME NEW i \in 1 .. n
      PROVE  g[i] = g[i - 1] + Header + len(i)
  <2> HIDE DEF len
  <2>1. g[i - 1] \in Nat
    BY <1>3, <1>4
  <2> QED
    BY <1>3, <1>4, <2>1
<1>5. ASSUME NEW k \in 0 .. n
      PROVE  Ends(ms)[k] = g[k]
  <2> DEFINE f[j \in 0 .. k] == IF j = 0 THEN 0
                                ELSE f[j - 1] + Header + Wire[ms[j]].header.len
             h == [j \in 0 .. k |-> g[j]]
  <2>1. Ends(ms)[k] = f[k]
    BY <1>5 DEF Ends
  <2>2. ASSUME NEW j \in 0 .. k
        PROVE  h[j] = IF j = 0 THEN 0 ELSE h[j - 1] + Header + len(j)
    <3>1. CASE j = 0
      BY <1>3, <3>1
    <3>2. CASE j # 0
      <4>1. j \in 1 .. n /\ j - 1 \in 0 .. k
        BY <2>2, <3>2
      <4>2. h[j] = g[j] /\ h[j - 1] = g[j - 1]
        BY <2>2, <4>1
      <4> QED
        BY <3>2, <4>1, <4>2, <1>4
    <3> QED
      BY <3>1, <3>2
  <2>3. h = [j \in 0 .. k |-> IF j = 0 THEN 0
                              ELSE h[j - 1] + Header + Wire[ms[j]].header.len]
    BY <2>2
  <2>4. f = [j \in 0 .. k |-> IF j = 0 THEN 0
                              ELSE f[j - 1] + Header + Wire[ms[j]].header.len]
    <3> HIDE DEF h
    <3> QED
      BY <2>3 DEF f
  <2> HIDE DEF f, h
  <2>5. f[0] = 0
    BY <2>4
  <2>6. ASSUME NEW j \in 1 .. k
        PROVE  f[j] = f[j - 1] + Header + len(j)
    BY <2>4, <2>6
  <2> DEFINE T == {j \in Nat : j <= k => f[j] = g[j]}
  <2>7. 0 \in T
    BY <1>3, <2>5
  <2>8. ASSUME NEW j \in Nat, j \in T
        PROVE  j + 1 \in T
    <3>1. CASE j + 1 <= k
      <4>1. j + 1 \in 1 .. k /\ j + 1 \in 1 .. n /\ (j + 1) - 1 = j /\ f[j] = g[j]
        BY <2>8, <3>1
      <4>2. /\ f[j + 1] = f[(j + 1) - 1] + Header + len(j + 1)
            /\ g[j + 1] = g[(j + 1) - 1] + Header + len(j + 1)
        BY <4>1, <2>6, <1>4
      <4>3. f[j + 1] = g[j + 1]
        BY <4>1, <4>2, Zenon
      <4> QED
        BY <4>3, <2>8
    <3> QED
      BY <3>1, <2>8
  <2> HIDE DEF T
  <2>9. Nat \subseteq T
    BY <2>7, <2>8, SetInduction
  <2>10. f[k] = g[k]
    BY <2>9, <1>5 DEF T
  <2> QED
    BY <2>1, <2>10
<1>6. Ends(ms) = g
  <2>1. Ends(ms) = [k \in 0 .. n |-> Ends(ms)[k]]
    BY DEF Ends
  <2> QED
    BY <2>1, <1>3, <1>5
<1> QED
  BY <1>3, <1>4, <1>6

(* messages follow each other in the stream *)
LEMMA EndsMonotone ==
    ASSUME NEW ms \in Seq(Message), NEW a \in 0 .. Len(ms), NEW b \in 0 .. Len(ms),
           a <= b
    PROVE  Ends(ms)[a] <= Ends(ms)[b]
<1> DEFINE e == Ends(ms)
           T == {j \in Nat : a + j <= Len(ms) => e[a] <= e[a + j]}
<1>1. /\ e \in [0 .. Len(ms) -> Nat]
      /\ \A k \in 1 .. Len(ms) : e[k - 1] <= e[k]
  <2>1. /\ e \in [0 .. Len(ms) -> Nat]
        /\ \A k \in 1 .. Len(ms) : e[k] = e[k - 1] + Header + Wire[ms[k]].header.len
    BY EndsStep
  <2>2. ASSUME NEW k \in 1 .. Len(ms)
        PROVE  e[k - 1] <= e[k]
    <3> HIDE DEF e
    <3>1. ms[k] \in Message /\ e[k - 1] \in Nat
      BY <2>1, <2>2
    <3>2. Wire[ms[k]].header.len \in Nat
      BY <3>1, SizeOf
    <3> QED
      BY <2>1, <2>2, <3>1, <3>2, MessageAssumption, SMTT(30)
  <2> QED
    BY <2>1, <2>2
<1> HIDE DEF e
<1>2. 0 \in T
  BY <1>1
<1>3. ASSUME NEW j \in Nat, j \in T
      PROVE  j + 1 \in T
  <2>1. CASE a + (j + 1) <= Len(ms)
    <3>1. /\ a + (j + 1) \in 1 .. Len(ms) /\ (a + (j + 1)) - 1 = a + j
          /\ a + j \in 0 .. Len(ms) /\ a + (j + 1) \in 0 .. Len(ms)
      BY <1>3, <2>1
    <3>2. e[a] <= e[a + j] /\ e[a + j] <= e[a + (j + 1)]
      BY <1>1, <1>3, <2>1, <3>1
    <3>3. e[a] \in Nat /\ e[a + j] \in Nat /\ e[a + (j + 1)] \in Nat
      BY <1>1, <3>1
    <3>4. e[a] <= e[a + (j + 1)]
      BY <3>2, <3>3
    <3> QED
      BY <1>3, <3>4
  <2> QED
    BY <2>1, <1>3
<1> HIDE DEF T
<1>4. Nat \subseteq T
  BY <1>2, <1>3, SetInduction
<1>5. b - a \in T /\ a + (b - a) = b
  BY <1>4
<1> QED
  BY <1>5 DEF T, e

-----------------------------------------------------------------------------
(* The pieces of a WSARecv: one up to the end of the free part or of the     *)
(* array, and one from the start of the array up to iFront.                  *)
LEMMA PiecesOf ==
    ASSUME iFront \in Indexes, iRear \in Indexes
    PROVE  LET b    == GetRearBufferPtr(iRear)
               d    == DirectEnqueueSize(iFront, iRear)
               free == GetFreeSize(iFront, iRear)
           IN  /\ b = IF iRear = iTotalSize - 1 THEN 0 ELSE iRear + 1
               /\ d = IF iFront < b THEN iTotalSize - b ELSE iFront - b
               /\ \/ FreePieces = <<Piece(b, d)>> /\ free = d
                  \/ /\ FreePieces = <<Piece(b, d), Piece(0, iFront)>>
                     /\ free = d + iFront /\ iFront < b /\ iFront > 0
<1> DEFINE b == GetRearBufferPtr(iRear)
           d == DirectEnqueueSize(iFront, iRear)
           free == GetFreeSize(iFront, iRear)
           second == GetFrontBufferPtr(iFront) - 1
<1>1. b = IF iRear = iTotalSize - 1 THEN 0 ELSE iRear + 1
  BY NextIndex DEF GetRearBufferPtr
<1>2. d = IF iFront < b THEN iTotalSize - b ELSE iFront - b
  BY DEF DirectEnqueueSize, FreePiece
<1>3. second = IF iFront = iTotalSize - 1 THEN 0 - 1 ELSE iFront
  BY NextIndex, SizeAssumption DEF GetFrontBufferPtr, Indexes
<1>4. free = IF iFront = iRear THEN iTotalSize - 1
             ELSE IF iFront > iRear THEN iFront - iRear - 1
             ELSE iTotalSize - 1 - iRear + iFront
  BY DEF GetFreeSize
<1>5. FreePieces = IF free <= d THEN <<Piece(b, d)>> ELSE <<Piece(b, d), Piece(0, second)>>
  BY DEF FreePieces, Piece
<1> HIDE DEF b, d, free, second
<1>6. CASE free <= d
  <2>1. free = d
    BY <1>1, <1>2, <1>4, <1>6, SizeAssumption DEF Indexes
  <2> QED
    BY <2>1, <1>1, <1>2, <1>5, <1>6 DEF b, d, free
<1>7. CASE ~(free <= d)
  <2>1. free = d + iFront /\ iFront < b /\ iFront > 0 /\ second = iFront
    BY <1>1, <1>2, <1>3, <1>4, <1>7, SizeAssumption DEF Indexes
  <2> QED
    BY <2>1, <1>1, <1>2, <1>5, <1>7 DEF b, d, free
<1> QED
  BY <1>6, <1>7

(* what the pieces hold *)
LEMMA PiecesHold ==
    ASSUME iFront \in Indexes, iRear \in Indexes
    PROVE  PiecesSize(FreePieces) = GetFreeSize(iFront, iRear)
<1>1. CASE Len(FreePieces) = 1
  BY <1>1, PiecesOf, SizeAssumption DEF PiecesSize, Piece, Indexes
<1>2. CASE Len(FreePieces) # 1
  BY <1>2, PiecesOf, SizeAssumption DEF PiecesSize, Piece, Indexes
<1> QED
  BY <1>1, <1>2

(* an element of a piece of a sequence that counts *)
LEMMA CountingSlice ==
    ASSUME NEW n \in Nat, NEW a \in Nat, NEW k \in 0 .. n
    PROVE  LET data == [i \in 1 .. n |-> a + i]
           IN  /\ data \in Seq(Nat) /\ Len(data) = n
               /\ SubSeq(data, 1, k) = [i \in 1 .. k |-> a + i]
               /\ SubSeq(data, k + 1, n) = [i \in 1 .. n - k |-> a + k + i]
<1> DEFINE data == [i \in 1 .. n |-> a + i]
<1>1. data \in Seq(Nat) /\ Len(data) = n
  OBVIOUS
<1>2. SubSeq(data, 1, k) = [i \in 1 .. k |-> a + i]
  OBVIOUS
<1>3. SubSeq(data, k + 1, n) = [i \in 1 .. n - k |-> a + k + i]
  OBVIOUS
<1> QED
  BY <1>1, <1>2, <1>3

(* the array after the kernel copied n bytes *)
LEMMA FillAt ==
    ASSUME iFront \in Indexes, iRear \in Indexes, pieces = FreePieces,
           buffer \in [Indexes -> Nat], sent \in Nat,
           NEW n \in Nat, n <= GetFreeSize(iFront, iRear)
    PROVE  LET b == GetRearBufferPtr(iRear)
               k == Lesser(n, DirectEnqueueSize(iFront, iRear))
           IN  Fill(n) = [x \in Indexes |->
                            IF x \in 0 .. n - k - 1 THEN sent + k + x + 1
                            ELSE IF x \in b .. b + k - 1 THEN sent + (x - b + 1)
                            ELSE buffer[x]]
<1> DEFINE b == GetRearBufferPtr(iRear)
           d == DirectEnqueueSize(iFront, iRear)
           k == Lesser(n, d)
           data == [i \in 1 .. n |-> sent + i]
<1>0. b \in Nat /\ d \in Nat
  BY DirectEnqueueBounds, SizeAssumption DEF Indexes
<1>1. CASE FreePieces = <<Piece(b, d)>> /\ GetFreeSize(iFront, iRear) = d
  <2>1. Len(pieces) = 1 /\ pieces[1].at = b /\ pieces[1].len = d
    BY <1>1 DEF Piece
  <2>2. k = n
    BY <1>0, <1>1 DEF Lesser
  <2>3. Fill(n) = Store(buffer, b, data)
    BY <2>1 DEF Fill
  <2> HIDE DEF b, k
  <2>4. Len(data) = n /\ \A i \in 1 .. n : data[i] = sent + i
    OBVIOUS
  <2> HIDE DEF data
  <2>5. ASSUME NEW x \in Indexes
        PROVE  (IF x \in b .. b + Len(data) - 1 THEN data[x - b + 1] ELSE buffer[x]) =
                  IF x \in 0 .. n - k - 1 THEN sent + k + x + 1
                  ELSE IF x \in b .. b + k - 1 THEN sent + (x - b + 1) ELSE buffer[x]
    <3>1. CASE x \in b .. b + n - 1
      <4>1. x - b + 1 \in 1 .. n
        BY <3>1, <1>0
      <4> QED
        BY <2>2, <2>4, <2>5, <3>1, <4>1, SizeAssumption DEF Indexes
    <3>2. CASE x \notin b .. b + n - 1
      BY <2>2, <2>4, <2>5, <3>2, SizeAssumption DEF Indexes
    <3> QED
      BY <3>1, <3>2
  <2> QED
    BY <2>3, <2>5 DEF Store, b, k
<1>2. CASE /\ FreePieces = <<Piece(b, d), Piece(0, iFront)>>
           /\ GetFreeSize(iFront, iRear) = d + iFront
  <2>1. /\ Len(pieces) # 1 /\ pieces[1].at = b /\ pieces[1].len = d
        /\ pieces[2].at = 0
    BY <1>2 DEF Piece
  <2> DEFINE s == SubSeq(data, 1, k)
             t == SubSeq(data, k + 1, n)
             buf == Store(buffer, b, s)
  <2>2. k \in 0 .. n
    BY <1>0 DEF Lesser
  <2>3. Len(data) = n
    OBVIOUS
  <2>4. Fill(n) = Store(buf, 0, t)
    <3>1. Fill(n) = StorePieces(buffer, b, k, 0, data)
      BY <2>1 DEF Fill
    <3> HIDE DEF data
    <3> QED
      BY <2>3, <3>1 DEF StorePieces
  <2>5. s = [i \in 1 .. k |-> sent + i] /\ t = [i \in 1 .. n - k |-> sent + k + i]
    <3> HIDE DEF k
    <3> QED
      BY <2>2, CountingSlice
  <2> HIDE DEF s, t, k, b
  <2>6. Len(s) = k /\ \A i \in 1 .. k : s[i] = sent + i
    BY <2>2, <2>5
  <2>7. Len(t) = n - k /\ \A i \in 1 .. n - k : t[i] = sent + k + i
    BY <2>2, <2>5
  <2>8. ASSUME NEW x \in Indexes
        PROVE  buf[x] = IF x \in b .. b + k - 1 THEN sent + (x - b + 1) ELSE buffer[x]
    <3>1. buf[x] = IF x \in b .. b + k - 1 THEN s[x - b + 1] ELSE buffer[x]
      BY <2>6, <2>8 DEF Store
    <3>2. CASE x \in b .. b + k - 1
      <4>1. x - b + 1 \in 1 .. k
        BY <3>2, <1>0, <2>2
      <4> QED
        BY <2>6, <3>1, <3>2, <4>1
    <3> QED
      BY <3>1, <3>2
  <2> HIDE DEF buf
  <2>9. ASSUME NEW x \in Indexes
        PROVE  (IF x \in 0 .. 0 + Len(t) - 1 THEN t[x - 0 + 1] ELSE buf[x]) =
                  IF x \in 0 .. n - k - 1 THEN sent + k + x + 1
                  ELSE IF x \in b .. b + k - 1 THEN sent + (x - b + 1) ELSE buffer[x]
    <3>1. CASE x \in 0 .. n - k - 1
      <4>1. x - 0 + 1 \in 1 .. n - k /\ x \in 0 .. 0 + Len(t) - 1
        BY <3>1, <2>2, <2>7
      <4>2. t[x - 0 + 1] = sent + k + x + 1
        BY <4>1, <2>2, <2>7
      <4> QED
        BY <3>1, <4>1, <4>2
    <3>2. CASE x \notin 0 .. n - k - 1
      <4>1. x \notin 0 .. 0 + Len(t) - 1
        BY <3>2, <2>2, <2>7
      <4> QED
        BY <2>8, <2>9, <3>2, <4>1
    <3> QED
      BY <3>1, <3>2
  <2> QED
    BY <2>4, <2>9 DEF Store, b, k
<1> QED
  BY <1>1, <1>2, PiecesOf

(* The kernel writes the next n bytes behind iRear and keeps the ones that   *)
(* are in use.                                                               *)
LEMMA FillCopies ==
    ASSUME iFront \in Indexes, iRear \in Indexes, pieces = FreePieces,
           buffer \in [Indexes -> Nat], sent \in Nat,
           NEW n \in Nat, n <= GetFreeSize(iFront, iRear)
    PROVE  LET use == GetUseSize(iFront, iRear)
           IN  /\ Fill(n) \in [Indexes -> Nat]
               /\ \A i \in 1 .. use : Fill(n)[(iFront + i) % iTotalSize] =
                                         buffer[(iFront + i) % iTotalSize]
               /\ \A i \in use + 1 .. use + n :
                     Fill(n)[(iFront + i) % iTotalSize] = sent + i - use
<1> DEFINE b == GetRearBufferPtr(iRear)
           d == DirectEnqueueSize(iFront, iRear)
           k == Lesser(n, d)
           use == GetUseSize(iFront, iRear)
           free == GetFreeSize(iFront, iRear)
           At(x) == IF x \in 0 .. n - k - 1 THEN sent + k + x + 1
                    ELSE IF x \in b .. b + k - 1 THEN sent + (x - b + 1)
                    ELSE buffer[x]
<1>1. Fill(n) = [x \in Indexes |-> At(x)]
  BY FillAt
<1>2. b = IF iRear = iTotalSize - 1 THEN 0 ELSE iRear + 1
  BY PiecesOf
<1>3. d = IF iFront < b THEN iTotalSize - b ELSE iFront - b
  BY PiecesOf
<1>4. free = d \/ (free = d + iFront /\ iFront < b)
  BY PiecesOf
<1>5. /\ use \in 0 .. iTotalSize - 1 /\ free = iTotalSize - 1 - use
      /\ iRear = Wrapped(iFront + use)
  BY UseAndFree, SizeAssumption DEF GetBufferSize
<1>6. k = IF n > d THEN d ELSE n
  BY DEF Lesser
<1> HIDE DEF b, d, k, use, free
<1>7. ASSUME NEW i \in 1 .. use + n
      PROVE  /\ (iFront + i) % iTotalSize = Wrapped(iFront + i)
             /\ Wrapped(iFront + i) \in Indexes
  <2>1. iFront + i \in 0 .. 2 * iTotalSize - 1
    BY <1>5, <1>7, SizeAssumption DEF Indexes, free
  <2>2. (iFront + i) % iTotalSize = Wrapped(iFront + i)
    BY <2>1, ModIsWrapped
  <2> QED
    BY <2>1, <2>2, SizeAssumption DEF Wrapped, Indexes
<1>8. ASSUME NEW i \in 1 .. use
      PROVE  At(Wrapped(iFront + i)) = buffer[Wrapped(iFront + i)]
  <2>1. Wrapped(iFront + i) \notin 0 .. n - k - 1
    BY <1>2, <1>3, <1>4, <1>5, <1>6, <1>8, SizeAssumption DEF Wrapped, Indexes, free
  <2>2. Wrapped(iFront + i) \notin b .. b + k - 1
    BY <1>2, <1>3, <1>4, <1>5, <1>6, <1>8, SizeAssumption DEF Wrapped, Indexes, free
  <2> QED
    BY <2>1, <2>2
<1>9. ASSUME NEW i \in use + 1 .. use + n
      PROVE  At(Wrapped(iFront + i)) = sent + i - use
  <2> DEFINE x == Wrapped(iFront + i)
  <2>1. CASE i - use <= k
    <3>1. x = b + (i - use) - 1 /\ x \notin 0 .. n - k - 1
      BY <1>2, <1>3, <1>4, <1>5, <1>6, <1>9, <2>1, SizeAssumption DEF Wrapped, Indexes, free
    <3> HIDE DEF x
    <3>2. x \in b .. b + k - 1
      <4>1. b \in Nat /\ d \in Nat
        BY <1>2, <1>3, SizeAssumption DEF Indexes
      <4>2. k \in Nat
        BY <4>1, <1>6
      <4>3. i - use \in 1 .. k
        BY <4>2, <1>5, <1>9, <2>1
      <4> QED
        BY <3>1, <4>1, <4>2, <4>3
    <3>3. At(x) = sent + (x - b + 1)
      BY <3>1, <3>2
    <3>4. At(x) = sent + i - use
      <4>1. b \in Nat /\ use \in Nat /\ i \in Nat
        BY <1>2, <1>5, <1>9, SizeAssumption DEF Indexes
      <4> QED
        BY <3>1, <3>3, <4>1
    <3> QED
      BY <3>4 DEF x
  <2>2. CASE ~(i - use <= k)
    <3>1. x = (i - use) - k - 1 /\ x \in 0 .. n - k - 1
      BY <1>2, <1>3, <1>4, <1>5, <1>6, <1>9, <2>2, SizeAssumption DEF Wrapped, Indexes, free
    <3> HIDE DEF x
    <3>2. At(x) = sent + k + x + 1
      BY <3>1
    <3>3. k \in Int
      BY <1>2, <1>3, <1>6, SizeAssumption DEF Indexes
    <3>4. At(x) = sent + i - use
      BY <3>1, <3>2, <3>3, <1>5, <1>9
    <3> QED
      BY <3>4 DEF x
  <2> QED
    BY <2>1, <2>2
<1>10. ASSUME NEW x \in Indexes
       PROVE  At(x) \in Nat
  BY <1>2, <1>3, <1>6, <1>10, SizeAssumption DEF Indexes
<1> HIDE DEF At
<1>11. Fill(n) \in [Indexes -> Nat]
  BY <1>1, <1>10
<1>12. \A i \in 1 .. use : Fill(n)[(iFront + i) % iTotalSize] =
                              buffer[(iFront + i) % iTotalSize]
  BY <1>1, <1>5, <1>7, <1>8
<1>13. \A i \in use + 1 .. use + n :
          Fill(n)[(iFront + i) % iTotalSize] = sent + i - use
  BY <1>1, <1>5, <1>7, <1>9
<1> QED
  BY <1>11, <1>12, <1>13 DEF use

-----------------------------------------------------------------------------
(* a message takes at least a header *)
LEMMA EndsStrict ==
    ASSUME NEW ms \in Seq(Message), NEW a \in 0 .. Len(ms), NEW b \in 0 .. Len(ms),
           a < b
    PROVE  Ends(ms)[a] + Header <= Ends(ms)[b]
<1> DEFINE e == Ends(ms)
<1>1. a + 1 \in 1 .. Len(ms) /\ a + 1 \in 0 .. Len(ms) /\ a + 1 <= b /\ (a + 1) - 1 = a
  OBVIOUS
<1>2. /\ e \in [0 .. Len(ms) -> Nat]
      /\ \A k \in 1 .. Len(ms) : e[k] = e[k - 1] + Header + Wire[ms[k]].header.len
  BY EndsStep
<1>3. e[a + 1] <= e[b]
  BY <1>1, EndsMonotone
<1>4. ms[a + 1] \in Message
  BY <1>1
<1>5. Wire[ms[a + 1]].header.len \in Nat
  BY <1>4, SizeOf
<1> HIDE DEF e
<1>6. e[a + 1] = e[a] + Header + Wire[ms[a + 1]].header.len
  BY <1>1, <1>2
<1>7. e[a] \in Nat /\ e[a + 1] \in Nat /\ e[b] \in Nat
  BY <1>1, <1>2
<1>8. e[a] + Header <= e[b]
  BY <1>3, <1>5, <1>6, <1>7, MessageAssumption, SMTT(30)
<1> QED
  BY <1>8 DEF e

(* the same about the stream of the client *)
LEMMA EndIs ==
    ASSUME stream \in Seq(Message)
    PROVE  /\ End \in [0 .. Len(stream) -> Nat] /\ End[0] = 0
           /\ \A k \in 1 .. Len(stream) :
                 /\ End[k] = End[k - 1] + Header + Wire[stream[k]].header.len
                 /\ End[k] \in Nat /\ End[k - 1] \in Nat
                 /\ stream[k] \in Message
                 /\ Wire[stream[k]].header.len \in 0 .. MaxLen
           /\ \A a, b \in 0 .. Len(stream) : a < b => End[a] + Header <= End[b]
           /\ StreamSize = End[Len(stream)] /\ StreamSize \in Nat
<1>1. /\ End \in [0 .. Len(stream) -> Nat] /\ End[0] = 0
      /\ \A k \in 1 .. Len(stream) :
            End[k] = End[k - 1] + Header + Wire[stream[k]].header.len
  BY EndsStep DEF End
<1>2. \A k \in 1 .. Len(stream) : stream[k] \in Message
  OBVIOUS
<1>3. \A a, b \in 0 .. Len(stream) : a < b => End[a] + Header <= End[b]
  BY EndsStrict DEF End
<1>4. \A k \in 1 .. Len(stream) : Wire[stream[k]].header.len \in 0 .. MaxLen
  BY <1>2, SizeOf
<1>5. \A k \in 1 .. Len(stream) : End[k] \in Nat /\ End[k - 1] \in Nat
  BY <1>1
<1> QED
  BY <1>1, <1>2, <1>3, <1>4, <1>5 DEF StreamSize

(* bytes behind a message belong to the next one *)
LEMMA NextMessage ==
    ASSUME stream \in Seq(Message), NEW d \in 0 .. Len(stream), NEW u \in Nat,
           u > 0, End[d] + u <= StreamSize
    PROVE  d + 1 \in 1 .. Len(stream)
<1>1. End[d] \in Nat /\ StreamSize = End[Len(stream)]
  BY EndIs
<1>2. d # Len(stream)
  BY <1>1
<1> QED
  BY <1>2

(* a header is found where its message begins, and no other one *)
LEMMA HeaderFound ==
    ASSUME stream \in Seq(Message), NEW k \in 1 .. Len(stream)
    PROVE  HeaderOf([i \in 1 .. Header |-> End[k - 1] + i]) = {k}
<1> DEFINE at(j) == [i \in 1 .. Header |-> End[j - 1] + i]
<1>1. ASSUME NEW j \in 1 .. Len(stream), at(k) = at(j)
      PROVE  j = k
  <2>0. 1 \in 1 .. Header
    BY MessageAssumption
  <2>1. at(k)[1] = End[k - 1] + 1 /\ at(j)[1] = End[j - 1] + 1
    BY <2>0
  <2>2. End[j - 1] \in Nat /\ End[k - 1] \in Nat
    BY <1>1, EndIs
  <2> HIDE DEF at
  <2>3. End[j - 1] = End[k - 1]
    BY <1>1, <2>1, <2>2
  <2>4. ~(j - 1 < k - 1) /\ ~(k - 1 < j - 1)
    <3>1. j - 1 \in 0 .. Len(stream) /\ k - 1 \in 0 .. Len(stream)
      BY <1>1
    <3>2. /\ j - 1 < k - 1 => End[j - 1] + Header <= End[k - 1]
          /\ k - 1 < j - 1 => End[k - 1] + Header <= End[j - 1]
      BY <3>1, EndIs
    <3> QED
      BY <2>2, <2>3, <3>2, MessageAssumption
  <2> QED
    BY <1>1, <2>4
<1> QED
  BY <1>1 DEF HeaderOf

(* a position is in one message only *)
LEMMA PositionOutside ==
    \A x, y, v, w, h, pos \in Nat :
       pos \in x + h + 1 .. y /\ pos \in v + h + 1 .. w => ~(y <= v) /\ ~(w <= x)
  OBVIOUS

(* the payload bytes of a message are looked up in that message *)
LEMMA PayloadFound ==
    ASSUME stream \in Seq(Message), NEW k \in 1 .. Len(stream),
           NEW n \in Nat, n = Wire[stream[k]].header.len
    PROVE  PayloadBytes([i \in 1 .. n |-> End[k - 1] + (Header + i)]) =
              [i \in 1 .. n |-> Wire[stream[k]].bytes[i]]
<1> DEFINE data == [i \in 1 .. n |-> End[k - 1] + (Header + i)]
           At(i) == LET ks == {j \in 1 .. Len(stream) :
                                 data[i] \in End[j - 1] + Header + 1 .. End[j]}
                    IN  IF ks = {} THEN 0
                        ELSE LET j == CHOOSE j \in ks : TRUE
                             IN  Wire[stream[j]].bytes[data[i] - End[j - 1] - Header]
<1>1. ASSUME NEW i \in 1 .. n
      PROVE  At(i) = Wire[stream[k]].bytes[i]
  <2> DEFINE pos == data[i]
             ks == {j \in 1 .. Len(stream) : pos \in End[j - 1] + Header + 1 .. End[j]}
  <2>1. /\ End[k - 1] \in Nat /\ End[k] \in Nat
        /\ End[k] = End[k - 1] + Header + n
    BY EndIs
  <2>2. pos = End[k - 1] + (Header + i) /\ i \in Nat /\ i <= n /\ 1 <= i
    BY <1>1
  <2> HIDE DEF pos
  <2>3. pos \in Nat /\ pos \in End[k - 1] + Header + 1 .. End[k]
        /\ pos - End[k - 1] - Header = i
    <3>1. pos \in Nat
      BY <2>1, <2>2, HeaderSize
    <3> QED
      <4> HIDE DEF At, ks, data
      <4>1. pos >= End[k - 1] + Header + 1
        BY <2>1, <2>2, HeaderSize
      <4>2. pos <= End[k]
        <5>1. n \in Nat
          OBVIOUS
        <5> QED
          BY ONLY <5>1, <2>1, <2>2, HeaderSize
      <4>3. pos - End[k - 1] - Header = i
        BY <2>1, <2>2, HeaderSize
      <4> QED
        BY <2>1, <3>1, <4>1, <4>2, <4>3, HeaderSize
  <2>4. ASSUME NEW j \in 1 .. Len(stream), pos \in End[j - 1] + Header + 1 .. End[j]
        PROVE  j = k
    <3>1. End[j - 1] \in Nat /\ End[j] \in Nat
      BY <2>4, EndIs
    <3>2. j - 1 \in 0 .. Len(stream) /\ k - 1 \in 0 .. Len(stream) /\ j \in 0 .. Len(stream)
          /\ k \in 0 .. Len(stream)
      BY <2>4
    <3>3. j < k => End[j] <= End[k - 1]
      <4>1. CASE j < k - 1
        <5>1. End[j] + Header <= End[k - 1]
          BY <3>2, <4>1, EndIs
        <5>2. \A a, h, b \in Nat : a + h <= b => a <= b
          BY ONLY TRUE
        <5> QED
          BY ONLY <5>1, <5>2, <3>1, <2>1, HeaderSize, Zenon
      <4>2. CASE j = k - 1
        BY <4>2, <2>1
      <4> QED
        BY <4>1, <4>2, <2>4
    <3>4. k < j => End[k] <= End[j - 1]
      <4>1. CASE k < j - 1
        <5>1. End[k] + Header <= End[j - 1]
          BY <3>2, <4>1, EndIs
        <5>2. \A a, h, b \in Nat : a + h <= b => a <= b
          BY ONLY TRUE
        <5> QED
          BY ONLY <5>1, <5>2, <3>1, <2>1, HeaderSize, Zenon
      <4>2. CASE k = j - 1
        BY <4>2, <2>1
      <4> QED
        BY <4>1, <4>2, <2>4
    <3>5. ~(End[j] <= End[k - 1]) /\ ~(End[k] <= End[j - 1])
      BY <2>1, <2>3, <2>4, <3>1, HeaderSize, PositionOutside, Zenon
    <3> QED
      BY <2>4, <3>3, <3>4, <3>5
  <2>5. ks = {k}
    BY <2>3, <2>4
  <2>6. At(i) = IF ks = {} THEN 0
                ELSE LET j == CHOOSE j \in ks : TRUE
                     IN  Wire[stream[j]].bytes[pos - End[j - 1] - Header]
    BY DEF pos
  <2> HIDE DEF At, ks
  <2>7. ks # {} /\ (CHOOSE j \in ks : TRUE) = k
    BY <2>5
  <2>8. At(i) = Wire[stream[k]].bytes[pos - End[k - 1] - Header]
    BY <2>6, <2>7
  <2> QED
    BY <2>3, <2>8
<1>2. PayloadBytes(data) = [i \in DOMAIN data |-> At(i)]
  BY DEF PayloadBytes
<1>3. DOMAIN data = 1 .. n
  OBVIOUS
<1> HIDE DEF At, data
<1>4. PayloadBytes(data) = [i \in 1 .. n |-> Wire[stream[k]].bytes[i]]
  BY <1>1, <1>2, <1>3
<1> QED
  BY <1>4 DEF data

-----------------------------------------------------------------------------
(* a packet has room: some number of bytes, as many as the code counts on *)
LEMMA RoomIs ==
    ASSUME NEW p, NEW room \in Nat, PayloadRoom <= room, p \in PacketType(room)
    PROVE  HasRoom(p)
<1>1. p.bytes \in [1 .. room -> Byte]
  BY DEF PacketType
<1>2. Len(p.bytes) = room
  BY <1>1
<1> QED
  BY <1>2, RoomAssumption DEF HasRoom

LEMMA RoomOf ==
    ASSUME NEW p, HasRoom(p)
    PROVE  \E room \in Nat : PayloadRoom <= room /\ p \in PacketType(room)
<1> DEFINE room == Len(p.bytes)
<1>1. room \in Nat /\ room >= PayloadRoom /\ p \in PacketType(room)
  BY DEF HasRoom
<1> HIDE DEF room
<1> QED
  BY <1>1, RoomAssumption

(* what comes after Clear is empty *)
LEMMA Cleared ==
    ASSUME NEW p, HasRoom(p)
    PROVE  Empty(Clear(p))
<1>1. PICK room \in Nat : PayloadRoom <= room /\ p \in PacketType(room)
  BY RoomOf
<1>2. /\ Clear(p) \in PacketType(room) /\ Clear(p).writePos = 0 /\ Clear(p).readPos = 0
      /\ Clear(p).isEncode = FALSE
  BY <1>1 DEF Clear, PacketType
<1>3. HasRoom(Clear(p))
  BY <1>1, <1>2, RoomIs
<1> QED
  BY <1>2, <1>3 DEF Empty

(* the packet the worker took a message into, and the memory behind it *)
LEMMA ReceivedPacket ==
    ASSUME Empty(packet), NEW n \in Nat, NEW w \in PacketType(n), w.header.len = n,
           NEW data, data = [i \in 1 .. n |-> w.bytes[i]]
    PROVE  LET q == Received(w.header, data)
           IN  \E space \in Nat :
                  /\ n <= space /\ PayloadRoom <= space
                  /\ q \in PacketType(space) /\ q.header = w.header
                  /\ \A i \in 1 .. n : q.bytes[i] = w.bytes[i]
                  /\ q.writePos = AtMost(n, PayloadRoom) /\ q.readPos = 0
<1> DEFINE h == w.header
           behind == n - PayloadRoom
           space == PayloadRoom + (IF behind > 0 THEN behind ELSE 0)
           b == [i \in 1 .. space |-> IF i \in DOMAIN data THEN data[i] ELSE packet.bytes[i]]
           p == [packet EXCEPT !.header = h, !.bytes = b]
           q == Received(h, data)
<1>1. PICK room \in Nat : PayloadRoom <= room /\ packet \in PacketType(room)
  BY RoomOf DEF Empty
<1>2. packet.writePos = 0 /\ packet.readPos = 0 /\ packet.bytes \in [1 .. room -> Byte]
  BY <1>1 DEF Empty, PacketType
<1>3. /\ space \in Nat /\ n <= space /\ PayloadRoom <= space
      /\ (space = n \/ space = PayloadRoom)
  BY RoomAssumption
<1>4. DOMAIN data = 1 .. n /\ (\A i \in 1 .. n : data[i] = w.bytes[i])
      /\ w.bytes \in [1 .. n -> Byte] /\ h \in HeaderType
  BY DEF PacketType
<1>5. q = MoveWritePos(p, n)
  <2>1. DOMAIN packet = {"header", "bytes", "writePos", "readPos", "isEncode"}
    BY <1>1 DEF PacketType
  <2> QED
    BY <2>1 DEF Received
<1> HIDE DEF space, h, q
<1>6. b \in [1 .. space -> Byte]
  <2>1. ASSUME NEW i \in 1 .. space
        PROVE  (IF i \in DOMAIN data THEN data[i] ELSE packet.bytes[i]) \in Byte
    <3>1. CASE i \in 1 .. n
      <4>1. w.bytes[i] \in Byte
        BY <1>4, <3>1
      <4> QED
        BY <1>4, <3>1, <4>1, Zenon
    <3>2. CASE i \notin 1 .. n
      <4>1. i \in 1 .. room
        BY <1>1, <1>3, <2>1, <3>2, RoomAssumption
      <4>2. packet.bytes[i] \in Byte
        BY <1>2, <4>1
      <4> QED
        BY <1>4, <3>2, <4>2
    <3> QED
      BY <3>1, <3>2
  <2> QED
    BY <2>1
<1>7. \A i \in 1 .. n : b[i] = w.bytes[i]
  BY <1>3, <1>4
<1> HIDE DEF b
<1>8. /\ p \in PacketType(space) /\ p.header = h /\ p.bytes = b
      /\ p.writePos = 0 /\ p.readPos = 0
  BY <1>1, <1>2, <1>4, <1>6 DEF PacketType
<1> HIDE DEF p
<1>9. q = [p EXCEPT !.writePos = p.writePos + AtMost(n, PayloadRoom - p.writePos)]
  BY <1>5, <1>8 DEF MoveWritePos, GetTotalSize, PacketType
<1>10. /\ p.writePos + AtMost(n, PayloadRoom - p.writePos) = AtMost(n, PayloadRoom)
       /\ AtMost(n, PayloadRoom) \in Nat
  BY <1>8, RoomAssumption DEF AtMost
<1>11. q = [p EXCEPT !.writePos = AtMost(n, PayloadRoom)]
  BY <1>9, <1>10
<1>12. /\ q \in PacketType(space) /\ q.header = h /\ q.bytes = b
       /\ q.writePos = AtMost(n, PayloadRoom) /\ q.readPos = 0
  BY <1>8, <1>10, <1>11 DEF PacketType
<1>13. /\ n <= space /\ PayloadRoom <= space
       /\ q \in PacketType(space) /\ q.header = w.header
       /\ \A i \in 1 .. n : q.bytes[i] = w.bytes[i]
       /\ q.writePos = AtMost(n, PayloadRoom) /\ q.readPos = 0
  BY <1>3, <1>7, <1>12 DEF h
<1> QED
  BY <1>3, <1>13 DEF q, h

(* what Decode returns are bytes *)
LEMMA DecodedBytes ==
    ASSUME NEW n \in Nat, NEW s, \A i \in 1 .. n : s[i] \in Byte, NEW key \in Byte
    PROVE  DecodeBytes(s, n, key) \in [1 .. n -> Byte]
<1> DEFINE tmp == [i \in 0 .. n |->
                     IF i = 0 THEN 0
                     ELSE Scrambled(s[i], IF i = 1 THEN 0 ELSE s[i - 1],
                                    dfPACKET_KEY, i)]
<1>1. DecodeBytes(s, n, key) = [i \in 1 .. n |-> Scrambled(tmp[i], tmp[i - 1], key, i)]
  BY DEF DecodeBytes
<1>2. 0 \in Byte /\ dfPACKET_KEY \in Byte
  BY DEF Byte, dfPACKET_KEY
<1>3. ASSUME NEW i \in 0 .. n
      PROVE  tmp[i] \in Byte
  <2>1. CASE i = 0
    BY <1>2, <1>3, <2>1
  <2>2. CASE i # 0
    <3>1. i \in 1 .. n /\ i \in Nat /\ (i # 1 => i - 1 \in 1 .. n)
      BY <1>3, <2>2
    <3>2. (IF i = 1 THEN 0 ELSE s[i - 1]) \in Byte /\ s[i] \in Byte
      BY <1>2, <3>1
    <3>3. tmp[i] = Scrambled(s[i], IF i = 1 THEN 0 ELSE s[i - 1], dfPACKET_KEY, i)
      BY <1>3, <2>2
    <3> QED
      BY <1>2, <3>1, <3>2, <3>3, ScrambledByte, Zenon
  <2> QED
    BY <2>1, <2>2
<1> HIDE DEF tmp
<1>4. ASSUME NEW i \in 1 .. n
      PROVE  Scrambled(tmp[i], tmp[i - 1], key, i) \in Byte
  <2>1. i \in 0 .. n /\ i - 1 \in 0 .. n /\ i \in Nat
    BY <1>4
  <2> QED
    BY <1>3, <2>1, ScrambledByte, Zenon
<1> QED
  BY <1>1, <1>4

(* what Decode leaves alone *)
LEMMA DecodeFields ==
    ASSUME NEW space \in Nat, NEW q \in PacketType(space), q.header.len <= space
    PROVE  /\ Decode(q).writePos = q.writePos /\ Decode(q).readPos = q.readPos
           /\ Decode(q).header.len = q.header.len
           /\ Decode(q).header.code = q.header.code
           /\ Decode(q) \in PacketType(space)
<1> DEFINE len == q.header.len
           c == CodedPart(q)
           s == DecodeBytes(c, len + 1, q.header.randKey)
<1>1. /\ len \in Nat /\ len <= space /\ q.header.chkSum \in Byte
      /\ q.header.randKey \in Byte /\ q.bytes \in [1 .. space -> Byte]
  BY DEF PacketType, HeaderType
<1>2. c[1] = q.header.chkSum /\ \A i \in 1 .. space : c[i + 1] = q.bytes[i]
  BY <1>1, Prefixed DEF CodedPart
<1>3. Decode(q) = WithCodedPart(q, s)
  BY DEF Decode
<1> HIDE DEF len, c
<1>4. ASSUME NEW i \in 1 .. len + 1
      PROVE  c[i] \in Byte
  <2>1. CASE i = 1
    BY <1>1, <1>2, <2>1
  <2>2. CASE i # 1
    <3>1. i - 1 \in 1 .. space /\ (i - 1) + 1 = i
      BY <1>1, <1>4, <2>2
    <3>2. c[(i - 1) + 1] = q.bytes[i - 1] /\ q.bytes[i - 1] \in Byte
      BY <1>1, <1>2, <3>1
    <3> QED
      BY <3>1, <3>2
  <2> QED
    BY <2>1, <2>2
<1>5. s \in [1 .. len + 1 -> Byte]
  <2>1. len + 1 \in Nat
    BY <1>1
  <2> QED
    BY <1>1, <1>4, <2>1, DecodedBytes
<1> HIDE DEF s
<1>6. /\ Decode(q).writePos = q.writePos /\ Decode(q).readPos = q.readPos
      /\ Decode(q).header.len = q.header.len /\ Decode(q).header.code = q.header.code
      /\ Decode(q).header.randKey = q.header.randKey /\ Decode(q).header.chkSum = s[1]
      /\ Decode(q).bytes = [i \in 1 .. space |->
                              IF i < Len(s) THEN s[i + 1] ELSE q.bytes[i]]
  <2>1. space \in Nat /\ q \in PacketType(space)
    OBVIOUS
  <2> QED
    BY ONLY <2>1, <1>3, WithCodedPartFields
<1>7. Len(s) = len + 1 /\ s[1] \in Byte
  BY <1>1, <1>5
<1>8. Decode(q).bytes \in [1 .. space -> Byte]
  <2>1. ASSUME NEW i \in 1 .. space
        PROVE  (IF i < Len(s) THEN s[i + 1] ELSE q.bytes[i]) \in Byte
    <3>1. CASE i < Len(s)
      <4>1. i + 1 \in 1 .. len + 1
        BY <1>1, <1>7, <2>1, <3>1
      <4> QED
        BY <1>5, <3>1, <4>1
    <3>2. CASE ~(i < Len(s))
      BY <1>1, <2>1, <3>2
    <3> QED
      BY <3>1, <3>2
  <2> QED
    BY <1>6, <2>1
<1>9. Decode(q) \in PacketType(space)
  BY <1>3, <1>7, <1>8, WithCodedPartType
<1> QED
  BY <1>6, <1>9

(* the part of a payload that a packet holds *)
Cut(payload) == SubSeq(payload, 1, AtMost(Len(payload), PayloadRoom))
LEMMA CutIs ==
    ASSUME NEW payload \in Seq(Byte)
    PROVE  /\ Cut(payload) \in Seq(Byte)
           /\ Len(Cut(payload)) = AtMost(Len(payload), PayloadRoom)
           /\ Len(Cut(payload)) \in Nat /\ Len(Cut(payload)) <= PayloadRoom
           /\ Len(Cut(payload)) <= Len(payload)
           /\ \A i \in 1 .. Len(Cut(payload)) : Cut(payload)[i] = payload[i]
<1> DEFINE n == AtMost(Len(payload), PayloadRoom)
<1>1. n \in Nat /\ n <= PayloadRoom /\ n <= Len(payload) /\ Len(payload) \in Nat
  BY RoomAssumption DEF AtMost
<1> HIDE DEF n
<1>2. /\ SubSeq(payload, 1, n) \in Seq(Byte) /\ Len(SubSeq(payload, 1, n)) = n
      /\ \A i \in 1 .. n : SubSeq(payload, 1, n)[i] = payload[i]
  BY <1>1
<1> QED
  BY <1>1, <1>2 DEF Cut, n

(* A good message is decoded to what the client packed. *)
LEMMA GoodIsDecoded ==
    ASSUME NEW m \in Message, m.kind = "good",
           NEW space \in Nat, NEW q \in PacketType(space), PayloadRoom <= space,
           Wire[m].header.len <= space, q.header = Wire[m].header,
           \A i \in 1 .. Wire[m].header.len : q.bytes[i] = Wire[m].bytes[i],
           q.writePos = AtMost(Wire[m].header.len, PayloadRoom), q.readPos = 0
    PROVE  ChecksOut(Decode(q)) /\ Holds(Decode(q), Cut(m.sample.payload))
<1> DEFINE payload == m.sample.payload
           key == m.sample.randKey
           p == Packed(payload)
           w == Encode(p, key)
           r == Decode(q)
           len == Len(payload)
<1>1. payload \in Seq(Byte) /\ len \in Nat /\ key \in Byte
  BY MessageFits
<1>2. Wire[m] = w
  BY WireOf DEF Encoded
<1>3. Wire[m].header.len = len /\ Wire[m].header.randKey = key
  BY WireHeader
<1>4. /\ p \in PacketType(len) /\ p.bytes = payload /\ p.writePos = len
      /\ p.readPos = 0 /\ ~p.isEncode
  BY <1>1, PackedPayload
<1> HIDE DEF payload, key, w, p, len
<1>5. /\ q.header.len = p.writePos /\ q.header.randKey = key
      /\ q.header.chkSum = w.header.chkSum
      /\ \A i \in 1 .. p.writePos : q.bytes[i] = w.bytes[i]
      /\ p.writePos <= len /\ p.writePos <= space
  BY <1>1, <1>2, <1>3, <1>4
<1>6. ChecksOut(r) /\ \A i \in 1 .. p.writePos : r.bytes[i] = p.bytes[i]
  BY <1>1, <1>4, <1>5, DecodeInvertsEncode DEF w
<1>7. r.writePos = q.writePos /\ r.readPos = q.readPos /\ r \in PacketType(space)
  BY <1>4, <1>5, DecodeFields
<1> HIDE DEF r
<1>8. HasRoom(r)
  BY <1>7, RoomIs
<1> DEFINE c == Cut(payload)
<1>9. /\ Len(c) = AtMost(len, PayloadRoom) /\ Len(c) \in Nat /\ Len(c) <= len
      /\ \A i \in 1 .. Len(c) : c[i] = payload[i]
  BY <1>1, CutIs DEF len
<1> HIDE DEF c
<1>10. \A i \in 1 .. Len(c) : r.bytes[i] = c[i]
  BY <1>1, <1>4, <1>6, <1>9
<1>11. r.readPos = 0 /\ r.writePos = Len(c)
  BY <1>3, <1>7, <1>9
<1>12. Holds(r, c)
  BY <1>8, <1>10, <1>11 DEF Holds
<1> QED
  BY <1>6, <1>12 DEF c, payload, r

(* A message with a changed byte fails the check. *)
LEMMA ChangedIsRejected ==
    ASSUME NEW m \in Message, m.kind = "decode",
           NEW space \in Nat, NEW q \in PacketType(space),
           Wire[m].header.len <= space, q.header = Wire[m].header,
           \A i \in 1 .. Wire[m].header.len : q.bytes[i] = Wire[m].bytes[i]
    PROVE  ~ChecksOut(Decode(q))
<1> DEFINE payload == m.sample.payload
           key == m.sample.randKey
           p == Packed(payload)
           w == Encode(p, key)
           len == Len(payload)
<1>1. payload \in Seq(Byte) /\ len \in Nat /\ key \in Byte
  BY MessageFits
<1>2. Encoded(m) = w
  BY DEF Encoded
<1>3. /\ Wire[m].header.len = len /\ Wire[m].header.randKey = key
      /\ Wire[m].header.chkSum = IF len = 0 THEN Xor[w.header.chkSum][1]
                                 ELSE w.header.chkSum
      /\ \A i \in 1 .. len :
            Wire[m].bytes[i] = IF i = len THEN Xor[w.bytes[i]][1] ELSE w.bytes[i]
  BY <1>2, WireHeader
<1>4. /\ p \in PacketType(len) /\ p.bytes = payload /\ p.writePos = len
      /\ p.readPos = 0 /\ ~p.isEncode
  BY <1>1, PackedPayload
<1> HIDE DEF payload, key, w, p, len
<1>5. /\ q.header.len = p.writePos /\ q.header.randKey = key
      /\ q.header.chkSum = (IF p.writePos = 0 THEN Xor[w.header.chkSum][1]
                            ELSE w.header.chkSum)
      /\ \A i \in 1 .. p.writePos :
            q.bytes[i] = IF i = p.writePos THEN Xor[w.bytes[i]][1] ELSE w.bytes[i]
      /\ p.writePos <= len /\ p.writePos <= space
  BY <1>1, <1>3, <1>4
<1> QED
  BY <1>1, <1>4, <1>5, DecodeDetectsChange DEF w

-----------------------------------------------------------------------------
(* a packet that is being packed: s is in it, and nothing was read *)
Packing(p, room, s) ==
    /\ p \in PacketType(room) /\ p.readPos = 0 /\ p.writePos = Len(s) /\ ~p.isEncode
    /\ \A i \in 1 .. Len(s) : p.bytes[i] = s[i]

LEMMA EmptyIsPacking ==
    ASSUME NEW p, Empty(p)
    PROVE  \E room \in Nat : PayloadRoom <= room /\ Packing(p, room, << >>)
<1>1. PICK room \in Nat : PayloadRoom <= room /\ p \in PacketType(room)
  BY RoomOf DEF Empty
<1>2. Packing(p, room, << >>)
  BY <1>1 DEF Packing, Empty
<1> QED
  BY <1>1, <1>2

(* operator<< appends what there is room for *)
LEMMA StreamInAppends ==
    ASSUME NEW room \in Nat, PayloadRoom <= room, NEW s \in Seq(Byte),
           NEW data \in Seq(Byte), Len(s) + Len(data) <= PayloadRoom,
           NEW p, Packing(p, room, s)
    PROVE  Packing(StreamIn(p, data), room, s \o data)
<1> DEFINE q == SetData(p, data)
           n == Len(s)
           k == Len(data)
           size == AtMost(k, PayloadRoom - p.writePos)
<1>1. /\ p \in PacketType(room) /\ p.readPos = 0 /\ p.writePos = n /\ ~p.isEncode
      /\ \A i \in 1 .. n : p.bytes[i] = s[i]
      /\ p.bytes \in [1 .. room -> Byte] /\ p.header \in HeaderType
  BY DEF Packing, PacketType
<1>2. n \in Nat /\ k \in Nat /\ n + k <= PayloadRoom /\ size = k
  BY <1>1, RoomAssumption DEF AtMost
<1>3. /\ q.header = p.header
      /\ q.bytes = [i \in 1 .. room |->
                      IF i \in p.writePos + 1 .. p.writePos + size
                      THEN data[i - p.writePos] ELSE p.bytes[i]]
      /\ q.writePos = p.writePos + size /\ q.readPos = p.readPos
      /\ q.isEncode = p.isEncode
  <2>1. room \in Nat /\ p \in PacketType(room)
    BY <1>1
  <2> QED
    BY ONLY <2>1, SetDataFields
<1> DEFINE b == [i \in 1 .. room |-> IF i \in n + 1 .. n + k THEN data[i - n] ELSE p.bytes[i]]
           t == s \o data
<1>4. /\ \A i \in 1 .. n : s[i] \in Byte
      /\ \A i \in 1 .. k : data[i] \in Byte
      /\ t \in Seq(Byte) /\ Len(t) = n + k
      /\ \A i \in 1 .. n + k : t[i] = IF i <= n THEN s[i] ELSE data[i - n]
  OBVIOUS
<1> HIDE DEF size
<1>5. /\ q.bytes = b /\ q.writePos = n + k /\ q.readPos = 0 /\ q.isEncode = p.isEncode
      /\ q.header = p.header
  BY <1>1, <1>2, <1>3
<1>6. q = [p EXCEPT !.bytes = q.bytes, !.writePos = q.writePos]
  BY <1>1 DEF SetData, PacketType
<1> HIDE DEF q, n, k, t
<1>7. b \in [1 .. room -> Byte]
  <2>1. ASSUME NEW i \in 1 .. room
        PROVE  (IF i \in n + 1 .. n + k THEN data[i - n] ELSE p.bytes[i]) \in Byte
    <3>1. CASE i \in n + 1 .. n + k
      <4>1. i - n \in 1 .. k
        BY ONLY <1>2, <2>1, <3>1
      <4> QED
        BY <1>4, <3>1, <4>1
    <3>2. CASE i \notin n + 1 .. n + k
      BY <1>1, <2>1, <3>2
    <3> QED
      BY <3>1, <3>2
  <2> QED
    BY <2>1
<1>8. ASSUME NEW i \in 1 .. n + k
      PROVE  b[i] = t[i]
  <2>0. i \in 1 .. room
    BY <1>2, <1>8, RoomAssumption
  <2>1. CASE i <= n
    <3>1. i \in 1 .. n /\ i \notin n + 1 .. n + k
      BY <1>2, <1>8, <2>1
    <3> QED
      BY <1>1, <1>4, <1>8, <2>0, <2>1, <3>1
  <2>2. CASE ~(i <= n)
    <3>1. i \in n + 1 .. n + k
      BY <1>2, <1>8, <2>2
    <3> QED
      BY <1>4, <1>8, <2>0, <2>2, <3>1
  <2> QED
    BY <2>1, <2>2
<1> HIDE DEF b
<1>9. q \in PacketType(room)
  <2>1. q.bytes \in [1 .. room -> Byte] /\ q.writePos \in Nat
    BY <1>2, <1>5, <1>7
  <2> QED
    BY <1>1, <1>6, <2>1 DEF PacketType
<1>10. Packing(q, room, t)
  BY <1>1, <1>4, <1>5, <1>8, <1>9 DEF Packing
<1> QED
  BY <1>10 DEF StreamIn, q, t

(* A packet that was packed and encoded decodes to what was packed. *)
LEMMA ReplyDecodes ==
    ASSUME NEW room \in Nat, PayloadRoom <= room, NEW s \in Seq(Byte),
           Len(s) <= PayloadRoom, NEW p, Packing(p, room, s), NEW key \in Byte
    PROVE  LET r == Encode(p, key)
           IN  /\ HasRoom(r)
               /\ Decode(r).header.code = dfPACKET_CODE
               /\ ChecksOut(Decode(r))
               /\ SubSeq(Decode(r).bytes, 1, Decode(r).header.len) = s
<1> DEFINE r == Encode(p, key)
           got == Decode(r)
           n == Len(s)
<1>1. /\ p \in PacketType(room) /\ p.readPos = 0 /\ p.writePos = n /\ ~p.isEncode
      /\ \A i \in 1 .. n : p.bytes[i] = s[i]
      /\ n \in Nat /\ n <= room /\ n <= PayloadRoom
  BY RoomAssumption DEF Packing
<1>2. p.writePos <= room
  BY <1>1
<1> HIDE DEF n
<1>3. /\ r.header.code = dfPACKET_CODE /\ r.header.len = p.writePos
      /\ r.header.randKey = key /\ r \in PacketType(room)
  BY <1>1, <1>2, EncodedHeader
<1>4. HasRoom(r)
  BY <1>3, RoomIs
<1>5. ChecksOut(got) /\ \A i \in 1 .. p.writePos : got.bytes[i] = p.bytes[i]
  <2> DEFINE e == Encode(p, key)
  <2>1. r.header.chkSum = e.header.chkSum /\ \A i \in 1 .. p.writePos : r.bytes[i] = e.bytes[i]
    OBVIOUS
  <2> HIDE DEF r
  <2> QED
    BY <1>1, <1>2, <1>3, <2>1, DecodeInvertsEncode
<1> HIDE DEF r
<1>6. /\ got.header.code = dfPACKET_CODE /\ got.header.len = n
      /\ got \in PacketType(room)
  BY <1>1, <1>2, <1>3, DecodeFields
<1> HIDE DEF got
<1>7. got.bytes \in [1 .. room -> Byte]
  BY <1>6 DEF PacketType
<1>8. SubSeq(got.bytes, 1, n) = [i \in 1 .. n |-> got.bytes[i]]
  BY <1>1, <1>7
<1>9. s = [i \in 1 .. n |-> s[i]]
  BY DEF n
<1>10. SubSeq(got.bytes, 1, got.header.len) = s
  BY <1>1, <1>5, <1>6, <1>8, <1>9
<1> QED
  BY <1>4, <1>5, <1>6, <1>10 DEF got, r

(* the response of Login *)
LEMMA ResponsePacked ==
    ASSUME Empty(reply), NEW account \in [1 .. AccountSize -> Byte], NEW ok \in {0, 1}
    PROVE  \E room \in Nat :
              /\ PayloadRoom <= room
              /\ Packing(Response(account, ok), room,
                         en_PACKET_CS_LOGIN_RES_LOGIN \o account \o <<ok>>)
<1> DEFINE type == en_PACKET_CS_LOGIN_RES_LOGIN
           p1 == StreamIn(reply, type)
           p2 == StreamIn(p1, account)
           p3 == StreamIn(p2, <<ok>>)
<1>1. PICK room \in Nat : PayloadRoom <= room /\ Packing(reply, room, << >>)
  BY EmptyIsPacking
<1>2. type \in Seq(Byte) /\ Len(type) = 2
  BY DEF en_PACKET_CS_LOGIN_RES_LOGIN, Byte
<1>3. account \in Seq(Byte) /\ Len(account) = AccountSize
  BY MessageAssumption
<1>4. <<ok>> \in Seq(Byte) /\ Len(<<ok>>) = 1
  BY DEF Byte
<1>5. /\ AccountSize \in Nat /\ AccountSize + 3 <= PayloadRoom /\ PayloadRoom \in Nat
  BY MessageAssumption, RoomAssumption
<1>6. Response(account, ok) = p3
  BY DEF Response
<1> DEFINE okBytes == <<ok>>
<1> HIDE DEF type, okBytes
<1>7. Packing(p1, room, << >> \o type)
  <2>1. << >> \in Seq(Byte) /\ Len(<< >>) + Len(type) <= PayloadRoom
    BY <1>2, <1>5
  <2> QED
    BY <1>1, <1>2, <2>1, StreamInAppends
<1>8. << >> \o type = type
  BY <1>2
<1> HIDE DEF p1
<1>9. Packing(StreamIn(p1, account), room, type \o account)
  <2> DEFINE acc == account
  <2>1. /\ Packing(p1, room, type) /\ Len(type) + Len(acc) <= PayloadRoom
        /\ type \in Seq(Byte) /\ acc \in Seq(Byte)
    BY <1>2, <1>3, <1>5, <1>7, <1>8
  <2> HIDE DEF acc
  <2>2. Packing(StreamIn(p1, acc), room, type \o acc)
    BY <1>1, <2>1, StreamInAppends
  <2> QED
    BY <2>2, Zenon DEF acc
<1>10. type \o account \in Seq(Byte) /\ Len(type \o account) = AccountSize + 2
  <2>1. \A s, t \in Seq(Byte) : s \o t \in Seq(Byte) /\ Len(s \o t) = Len(s) + Len(t)
    OBVIOUS
  <2>2. /\ type \o account \in Seq(Byte)
        /\ Len(type \o account) = Len(type) + Len(account)
    BY <1>2, <1>3, <2>1, Zenon
  <2> DEFINE x == Len(type \o account)
             y == Len(account)
  <2>3. x = 2 + y /\ y = AccountSize
    BY <1>2, <1>3, <2>2, Zenon
  <2> HIDE DEF x, y
  <2>4. x = AccountSize + 2
    BY ONLY <1>5, <2>3
  <2> QED
    BY <2>2, <2>4, Zenon DEF x
<1> DEFINE front == type \o account
<1>12. Packing(p2, room, front)
  BY <1>9
<1> HIDE DEF p2, front
<1>11. Packing(StreamIn(p2, okBytes), room, front \o okBytes)
  <2>1. /\ Packing(p2, room, front) /\ Len(front) + Len(okBytes) <= PayloadRoom
        /\ front \in Seq(Byte) /\ okBytes \in Seq(Byte)
    BY <1>4, <1>5, <1>10, <1>12 DEF front, okBytes
  <2> QED
    BY <1>1, <2>1, StreamInAppends
<1> QED
  BY <1>1, <1>6, <1>11 DEF front, type, okBytes

-----------------------------------------------------------------------------
(* GetData and operator>> move readPos, never past writePos *)
LEMMA ReadOn ==
    ASSUME NEW room \in Nat, NEW p \in PacketType(room), p.readPos <= p.writePos,
           NEW size \in Nat
    PROVE  LET q == GetData(p, size)
           IN  /\ q \in PacketType(room) /\ q.readPos <= q.writePos
               /\ q.readPos = p.readPos + AtMost(size, p.writePos - p.readPos)
               /\ q.writePos = p.writePos /\ q.bytes = p.bytes
<1> DEFINE k == p.readPos + AtMost(size, p.writePos - p.readPos)
<1>1. p.readPos \in Nat /\ p.writePos \in Nat
  BY DEF PacketType
<1>2. k \in Nat /\ k <= p.writePos
  BY <1>1 DEF AtMost
<1>3. GetData(p, size) = [p EXCEPT !.readPos = k]
  BY DEF GetData, GetPayloadSize, PacketType
<1> HIDE DEF k
<1>4. /\ GetData(p, size) \in PacketType(room) /\ GetData(p, size).readPos = k
      /\ GetData(p, size).writePos = p.writePos /\ GetData(p, size).bytes = p.bytes
  BY <1>2, <1>3 DEF PacketType
<1> QED
  BY <1>2, <1>4 DEF k

LEMMA TwoReads ==
    \A n, size \in Nat :
       LET a == AtMost(2, n)
           k == AtMost(size, n - a)
       IN  /\ a \in Nat /\ a <= n /\ k \in Nat /\ a + k <= n
           /\ n >= 2 => a = 2 /\ \A i \in 1 .. size : i <= k <=> 2 + i <= n
           /\ n < 2 => k = 0
  BY DEF AtMost

(* what one operator>> after the other reads from a packet *)
LEMMA ReadPacket ==
    ASSUME NEW data \in Seq(Byte), Len(data) <= PayloadRoom, NEW p, Holds(p, data)
    PROVE  LET rest == StreamOut(p, 2)
               account == Data(rest, AccountSize)
           IN  /\ Data(p, PayloadRoom) = data
               /\ Data(p, 2) = SubSeq(data, 1, AtMost(2, Len(data)))
               /\ \A i \in 1 .. AccountSize :
                     /\ i <= Len(account) <=> 2 + i <= Len(data)
                     /\ i <= Len(account) => account[i] = data[2 + i]
               /\ HasRoom(rest)
               /\ HasRoom(GetData(StreamOut(rest, AccountSize), SessionKeySize))
<1> DEFINE n == Len(data)
           rest == StreamOut(p, 2)
           after == StreamOut(rest, AccountSize)
           last == GetData(after, SessionKeySize)
           account == Data(rest, AccountSize)
           a == AtMost(2, n)
           z == a + AtMost(AccountSize, n - a)
<1>1. n \in Nat /\ n <= PayloadRoom /\ PayloadRoom \in Nat /\ AccountSize \in Nat
  BY RoomAssumption, MessageAssumption
<1>2. HasRoom(p) /\ p.readPos = 0 /\ p.writePos = n /\ \A i \in 1 .. n : p.bytes[i] = data[i]
  BY DEF Holds
<1>3. PICK room \in Nat : PayloadRoom <= room /\ p \in PacketType(room)
  BY <1>2, RoomOf
<1>4. p.bytes \in [1 .. room -> Byte] /\ p.readPos <= p.writePos
  BY <1>1, <1>2, <1>3 DEF PacketType
<1> HIDE DEF n
<1>5. /\ a \in Nat /\ a <= n /\ z \in Nat /\ a <= z /\ z <= n
      /\ z - a = AtMost(AccountSize, n - a)
      /\ n >= 2 => a = 2 /\ \A i \in 1 .. AccountSize : i <= z - a <=> 2 + i <= n
      /\ n < 2 => z = a
  <2> DEFINE k == AtMost(AccountSize, n - a)
  <2>1. /\ a \in Nat /\ a <= n /\ k \in Nat /\ a + k <= n
        /\ n >= 2 => a = 2 /\ \A i \in 1 .. AccountSize : i <= k <=> 2 + i <= n
        /\ n < 2 => k = 0
    BY ONLY <1>1, TwoReads
  <2> HIDE DEF a, k
  <2>2. z = a + k /\ z - a = k
    BY <2>1 DEF k
  <2> QED
    BY <1>1, <2>1, <2>2 DEF k
<1>6. /\ rest \in PacketType(room) /\ rest.readPos = a /\ rest.writePos = n
      /\ rest.bytes = p.bytes /\ rest.readPos <= rest.writePos
  <2>1. /\ rest \in PacketType(room) /\ rest.readPos <= rest.writePos
        /\ rest.readPos = p.readPos + AtMost(2, p.writePos - p.readPos)
        /\ rest.writePos = p.writePos /\ rest.bytes = p.bytes
    BY <1>3, <1>4, ReadOn DEF StreamOut
  <2>2. p.readPos + AtMost(2, p.writePos - p.readPos) = a
    BY <1>1, <1>2, <1>5 DEF AtMost
  <2> QED
    BY <1>2, <2>1, <2>2
<1> HIDE DEF rest
<1>7. after \in PacketType(room) /\ after.readPos <= after.writePos
  BY <1>1, <1>6, ReadOn DEF StreamOut
<1> HIDE DEF after
<1>8. last \in PacketType(room)
  <2>1. SessionKeySize \in Nat
    BY DEF SessionKeySize
  <2> QED
    BY <1>7, <2>1, ReadOn
<1> HIDE DEF last
<1>9. HasRoom(rest) /\ HasRoom(last)
  BY <1>3, <1>6, <1>8, RoomIs
<1>10. ASSUME NEW x \in Nat, NEW y \in Nat, x <= y, y <= n
       PROVE  /\ SubSeq(p.bytes, x + 1, y) = [i \in 1 .. y - x |-> data[x + i]]
              /\ SubSeq(data, x + 1, y) = [i \in 1 .. y - x |-> data[x + i]]
              /\ Len(SubSeq(p.bytes, x + 1, y)) = y - x
  <2>1. SubSeq(p.bytes, x + 1, y) = [i \in 1 .. y - x |-> p.bytes[x + i]]
    BY <1>1, <1>3, <1>4, <1>10
  <2>2. \A i \in 1 .. y - x : x + i \in 1 .. n
    BY ONLY <1>1, <1>10
  <2>3. \A i \in 1 .. y - x : p.bytes[x + i] = data[x + i]
    BY <1>2, <2>2
  <2>4. SubSeq(data, x + 1, y) = [i \in 1 .. y - x |-> data[x + i]]
    BY <1>1, <1>10 DEF n
  <2> QED
    <3>1. y - x \in Nat
      BY ONLY <1>10
    <3> DEFINE f == [i \in 1 .. y - x |-> data[x + i]]
    <3>2. SubSeq(p.bytes, x + 1, y) = f
      BY ONLY <2>1, <2>3, Zenon
    <3>3. Len(f) = y - x
      BY ONLY <3>1
    <3> QED
      BY ONLY <2>4, <3>2, <3>3, Zenon
<1>16. ASSUME NEW y \in Nat, y <= n
       PROVE  /\ SubSeq(p.bytes, 1, y) = [i \in 1 .. y |-> data[i]]
              /\ SubSeq(data, 1, y) = [i \in 1 .. y |-> data[i]]
  <2>1. SubSeq(p.bytes, 1, y) = [i \in 1 .. y |-> p.bytes[i]]
    BY <1>1, <1>3, <1>4, <1>16
  <2>2. \A i \in 1 .. y : i \in 1 .. n
    BY ONLY <1>1, <1>16
  <2>3. \A i \in 1 .. y : p.bytes[i] = data[i]
    BY <1>2, <2>2
  <2>4. SubSeq(data, 1, y) = [i \in 1 .. y |-> data[i]]
    BY <1>1, <1>16 DEF n
  <2> QED
    BY ONLY <2>1, <2>3, <2>4
<1>11. Data(p, PayloadRoom) = data
  <2>1. Data(p, PayloadRoom) = SubSeq(p.bytes, 1, n)
    BY <1>1, <1>2 DEF Data, GetPayloadSize, AtMost
  <2>2. SubSeq(p.bytes, 1, n) = [i \in 1 .. n |-> data[i]]
    BY <1>1, <1>16
  <2>3. data = [i \in 1 .. n |-> data[i]]
    BY DEF n
  <2> QED
    BY <2>1, <2>2, <2>3
<1>12. Data(p, 2) = SubSeq(data, 1, a)
  <2>1. Data(p, 2) = SubSeq(p.bytes, 1, a)
    BY <1>1, <1>2 DEF Data, GetPayloadSize, AtMost
  <2> HIDE DEF a
  <2>2. SubSeq(p.bytes, 1, a) = SubSeq(data, 1, a)
    BY <1>5, <1>16
  <2> QED
    BY <2>1, <2>2
<1>13. account = SubSeq(p.bytes, a + 1, z)
  BY <1>6 DEF Data, GetPayloadSize
<1> HIDE DEF a, z, account
<1>14. account = [i \in 1 .. z - a |-> data[a + i]] /\ Len(account) = z - a
  BY <1>5, <1>10, <1>13
<1>15. ASSUME NEW i \in 1 .. AccountSize
       PROVE  /\ i <= Len(account) <=> 2 + i <= n
              /\ i <= Len(account) => account[i] = data[2 + i]
  <2>1. CASE n >= 2
    <3>1. a = 2 /\ (i <= z - a <=> 2 + i <= n)
      BY <1>5, <1>15, <2>1
    <3>2. i <= z - a => i \in 1 .. z - a
      BY <1>5, <1>15
    <3> QED
      BY <1>14, <3>1, <3>2
  <2>2. CASE n < 2
    <3>1. ~(i <= z - a) /\ ~(2 + i <= n)
      BY <1>1, <1>5, <1>15, <2>2
    <3> QED
      BY <1>14, <3>1
  <2> QED
    BY <1>1, <2>1, <2>2
<1> QED
  BY <1>9, <1>11, <1>12, <1>15 DEF n, rest, after, last, account, a

-----------------------------------------------------------------------------
(* a byte of the account: the last request that is long enough has it *)
LEMMA AccountStep ==
    ASSUME NEW d \in Nat \ {0}, NEW i
    PROVE  AccountByte(d, i) = IF IsLogin(d) /\ 2 + i <= Len(Visible(d))
                               THEN Visible(d)[2 + i] ELSE AccountByte(d - 1, i)
<1> DEFINE here == IsLogin(d) /\ 2 + i <= Len(Visible(d))
<1>1. CASE here
  <2>1. d \in Naming(d, i) /\ \A j \in Naming(d, i) : j \in Nat /\ j <= d
    BY <1>1 DEF Naming
  <2>2. \A k \in Naming(d, i) : (\A j \in Naming(d, i) : j <= k) => k = d
    BY <2>1
  <2>3. LastOf(Naming(d, i)) = d
    <3> HIDE DEF here
    <3> QED
      BY <2>1, <2>2 DEF LastOf
  <2> QED
    BY <1>1, <2>1, <2>3 DEF AccountByte
<1>2. CASE ~here
  <2>1. Naming(d, i) = Naming(d - 1, i)
    <3>1. \A k : k \in 1 .. d <=> (k \in 1 .. d - 1 \/ k = d)
      OBVIOUS
    <3> QED
      BY <1>2, <3>1 DEF Naming
  <2> QED
    BY <1>2, <2>1 DEF AccountByte
<1> QED
  BY <1>1, <1>2

LEMMA NoLogins == Account(0) = NoAccount
<1>1. ASSUME NEW i
      PROVE  AccountByte(0, i) = 255
  BY DEF AccountByte, Naming
<1> QED
  BY <1>1 DEF Account, NoAccount

(* what is said of the stream stays true while the client adds nothing *)
LEMMA SameStream ==
    ASSUME stream' = stream
    PROVE  /\ End' = End /\ StreamSize' = StreamSize
           /\ \A n : Account(n)' = Account(n)
           /\ \A k : BytesOf(k)' = BytesOf(k)
           /\ \A k : Visible(k)' = Visible(k)
           /\ \A k : MayBeLogin(k)' = MayBeLogin(k)
<1>1. End' = End
  BY DEF End, Ends
<1>2. \A k : Visible(k)' = Visible(k) /\ TypeOf(k)' = TypeOf(k)
  BY DEF Visible, TypeOf
<1>3. \A k : IsLogin(k)' = IsLogin(k) /\ MayBeLogin(k)' = MayBeLogin(k)
  BY <1>2 DEF IsLogin, MayBeLogin
<1>4. ASSUME NEW n, NEW i
      PROVE  AccountByte(n, i)' = AccountByte(n, i)
  <2>1. Naming(n, i)' = Naming(n, i)
    BY <1>2, <1>3 DEF Naming
  <2> DEFINE l == LastOf(Naming(n, i))
  <2>2. /\ AccountByte(n, i) = IF Naming(n, i) = {} THEN 255 ELSE Visible(l)[2 + i]
        /\ AccountByte(n, i)' = IF Naming(n, i)' = {} THEN 255 ELSE (Visible(l)[2 + i])'
    BY DEF AccountByte
  <2>3. l' = l
    BY <2>1 DEF LastOf
  <2> HIDE DEF l
  <2> QED
    BY <1>2, <2>1, <2>2, <2>3
<1>5. \A n : Account(n)' = Account(n)
  BY <1>4 DEF Account
<1> QED
  BY <1>1, <1>2, <1>3, <1>5 DEF StreamSize, BytesOf

-----------------------------------------------------------------------------
(* RecvInv is inductive: the initial state ... *)
LEMMA NoAccountBytes == NoAccount \in [1 .. AccountSize -> Byte]
  BY DEF NoAccount, Byte

LEMMA FreeIsEmpty == \A p \in FreePackets : Empty(p) /\ HasRoom(p)
  BY MessageAssumption DEF Empty

LEMMA InitRecvInv == Init => RecvInv
<1> SUFFICES ASSUME Init PROVE RecvInv
  OBVIOUS
<1>1. 0 \in Indexes /\ 0 \in Nat
  BY SizeAssumption DEF Indexes
<1>2. PcOK
  BY DEF Init, PcOK
<1>3. BufferOK
  BY <1>1 DEF Init, BufferOK
<1>4. StreamOK
  BY DEF Init, StreamOK, Receiving
<1>5. PacketsOK
  BY NoAccountBytes, FreeIsEmpty DEF Init, PacketsOK
<1>6. DeliveredInOrder
  <2>1. Len(delivered) = 0 /\ Len(stream) = 0
    BY DEF Init
  <2> QED
    BY <2>1 DEF DeliveredInOrder
<1>7. DisconnectedForCause /\ PayloadIntact
  BY DEF Init, DisconnectedForCause, PayloadIntact
<1> QED
  BY <1>2, <1>3, <1>4, <1>5, <1>6, <1>7 DEF RecvInv

(* ... what a step leaves alone ... *)
LEMMA DeliveredFrame ==
    ASSUME DeliveredInOrder, stream' = stream, delivered' = delivered
    PROVE  DeliveredInOrder'
<1>1. \A k : BytesOf(k)' = BytesOf(k)
  BY SameStream
<1> QED
  BY <1>1 DEF DeliveredInOrder

LEMMA CauseFrame ==
    ASSUME DisconnectedForCause, stream' = stream, delivered' = delivered,
           disconnects' = disconnects,
           pc' \in {"Pending", "MoveRear"} => disconnects = {}
    PROVE  DisconnectedForCause'
<1>1. \A k : MayBeLogin(k)' = MayBeLogin(k)
  BY SameStream
<1> QED
  BY <1>1 DEF DisconnectedForCause

LEMMA PiecesFrame ==
    ASSUME iFront' = iFront, iRear' = iRear
    PROVE  FreePieces' = FreePieces
  BY DEF FreePieces

(* ... and every action. *)
LEMMA StutterRecvInv ==
    ASSUME RecvInv, UNCHANGED vars
    PROVE  RecvInv'
<1> USE DEF RecvInv, vars
<1>1. /\ End' = End /\ StreamSize' = StreamSize
      /\ \A n : Account(n)' = Account(n)
      /\ \A n : Visible(n)' = Visible(n)
  BY SameStream
<1>2. PcOK'
  BY DEF PcOK
<1>3. BufferOK'
  BY PiecesFrame DEF BufferOK
<1>4. StreamOK'
  BY <1>1 DEF StreamOK, Stored, Receiving
<1>5. PacketsOK'
  BY <1>1 DEF PacketsOK
<1>6. DeliveredInOrder'
  BY DeliveredFrame
<1>7. DisconnectedForCause'
  BY CauseFrame DEF DisconnectedForCause
<1>8. PayloadIntact'
  BY <1>1 DEF PayloadIntact
<1> QED
  BY <1>2, <1>3, <1>4, <1>5, <1>6, <1>7, <1>8

LEMMA ClientSendRecvInv ==
    ASSUME RecvInv, ClientSend
    PROVE  RecvInv'
<1> USE DEF RecvInv, ClientSend, packetVars
<1>1. PcOK'
  BY DEF PcOK
<1>2. BufferOK'
  BY PiecesFrame DEF BufferOK
<1>3. PICK m \in Message : stream' = Append(stream, m)
  OBVIOUS
<1>4. stream' \in Seq(Message)
  BY <1>3 DEF StreamOK
<1>5. sent = 0 /\ delivered = << >> /\ disconnects = {}
  BY DEF StreamOK
<1>6. StreamOK'
  BY <1>4, <1>5 DEF StreamOK, Receiving
<1>7. PacketsOK'
  BY DEF PacketsOK
<1>8. DeliveredInOrder'
  <2>1. Len(delivered') = 0 /\ Len(stream') \in Nat
    BY <1>4, <1>5
  <2> QED
    BY <2>1 DEF DeliveredInOrder
<1>9. DisconnectedForCause' /\ PayloadIntact'
  BY <1>5 DEF DisconnectedForCause, PayloadIntact
<1> QED
  BY <1>1, <1>2, <1>6, <1>7, <1>8, <1>9

(* after ClearBuffer the buffer is empty and has one free piece *)
LEMMA EmptyBuffer ==
    /\ 0 \in Indexes /\ GetUseSize(0, 0) = 0 /\ GetFreeSize(0, 0) = iTotalSize - 1
    /\ DirectEnqueueSize(0, 0) = iTotalSize - 1
<1>1. 0 \in Indexes
  BY SizeAssumption DEF Indexes
<1>2. GetRearBufferPtr(0) = 1
  BY <1>1, NextIndex, SizeAssumption DEF GetRearBufferPtr
<1> QED
  BY <1>1, <1>2, SizeAssumption DEF GetUseSize, GetFreeSize, DirectEnqueueSize, FreePiece

LEMMA AcceptRecvRecvInv ==
    ASSUME RecvInv, AcceptRecv
    PROVE  RecvInv'
<1> USE DEF RecvInv, AcceptRecv
<1>1. PcOK'
  BY DEF PcOK
<1>2. sent = 0 /\ delivered = << >> /\ stream \in Seq(Message) /\ disconnects = {}
  BY DEF StreamOK
<1>3. /\ End' = End /\ StreamSize' = StreamSize
      /\ \A n : Account(n)' = Account(n)
  BY SameStream
<1>4. End[0] = 0 /\ StreamSize \in Nat
  BY <1>2, EndIs
<1>5. BufferOK'
  <2>1. FreePieces' = pieces'
    BY EmptyBuffer, SizeAssumption DEF FreePieces, Piece
  <2>2. GetUseSize(iFront', iRear') < Header + MaxLen
    BY EmptyBuffer, MessageAssumption
  <2> QED
    BY <2>1, <2>2, EmptyBuffer DEF BufferOK
<1>6. StreamOK'
  <2>1. Stored' = 0 /\ Len(delivered') = 0
    BY <1>2, EmptyBuffer DEF Stored
  <2> QED
    BY <1>2, <1>3, <1>4, <2>1 DEF StreamOK
<1>7. PacketsOK'
  <2>1. Len(delivered') = 0
    BY <1>2
  <2> QED
    BY <1>3, <2>1, NoAccountBytes, NoLogins DEF PacketsOK
<1>8. DeliveredInOrder'
  BY DeliveredFrame
<1>9. DisconnectedForCause' /\ PayloadIntact'
  BY <1>2 DEF DisconnectedForCause, PayloadIntact
<1> QED
  BY <1>1, <1>5, <1>6, <1>7, <1>8, <1>9

LEMMA ReceiveRecvInv ==
    ASSUME RecvInv, Receive
    PROVE  RecvInv'
<1> USE DEF RecvInv, Receive, packetVars
<1> DEFINE use == GetUseSize(iFront, iRear)
           free == GetFreeSize(iFront, iRear)
           e == End[Len(delivered)]
<1>1. PICK n \in 1 .. Lesser(PiecesSize(pieces), StreamSize - sent) :
           buffer' = Fill(n) /\ sent' = sent + n /\ transferred' = n
  OBVIOUS
<1>2. /\ iFront \in Indexes /\ iRear \in Indexes /\ buffer \in [Indexes -> Nat]
      /\ pieces = FreePieces
  BY DEF BufferOK
<1>0. use \in Nat
  BY <1>2, UseAndFree, SizeAssumption DEF GetBufferSize
<1>3. /\ stream \in Seq(Message) /\ sent \in Nat /\ delivered \in Seq(Seq(Nat))
      /\ sent = e + use /\ sent <= StreamSize
      /\ \A i \in 1 .. use : buffer[(iFront + i) % iTotalSize] = e + i
  <2>1. Stored = use
    BY <1>0 DEF Stored
  <2> QED
    BY <2>1 DEF StreamOK, Receiving
<1>4. PiecesSize(pieces) = free /\ use \in Nat /\ free \in Nat /\ use <= GetBufferSize
  BY <1>2, PiecesHold, UseAndFree, SizeAssumption DEF GetBufferSize
<1>5. StreamSize \in Nat /\ e \in Nat
  <2>1. Len(delivered) \in 0 .. Len(stream)
    BY <1>3 DEF DeliveredInOrder
  <2> QED
    BY <1>3, <2>1, EndIs
<1> HIDE DEF use, free, e
<1>6. n \in Nat /\ n >= 1 /\ n <= free /\ n <= StreamSize - sent
  BY <1>1, <1>3, <1>4, <1>5 DEF Lesser
<1>7. /\ Fill(n) \in [Indexes -> Nat]
      /\ \A i \in 1 .. use : Fill(n)[(iFront + i) % iTotalSize] =
                                buffer[(iFront + i) % iTotalSize]
      /\ \A i \in use + 1 .. use + n : Fill(n)[(iFront + i) % iTotalSize] = sent + i - use
  BY <1>2, <1>3, <1>6, FillCopies DEF use, free
<1>8. PcOK'
  BY DEF PcOK
<1>9. BufferOK'
  BY <1>1, <1>2, <1>6, <1>7 DEF BufferOK, free
<1>10. /\ End' = End /\ StreamSize' = StreamSize
       /\ \A k : Account(k)' = Account(k)
  BY SameStream
<1>11. StreamOK'
  <2>1. Stored' = use + n
    BY <1>1 DEF Stored, use
  <2>2. sent' = e + (use + n) /\ sent' <= StreamSize /\ sent' \in Nat
    <3>1. sent' = sent + n
      BY <1>1
    <3> QED
      BY <3>1, <1>3, <1>4, <1>5, <1>6, SMTT(30)
  <2>3. ASSUME NEW i \in 1 .. use + n
        PROVE  buffer'[(iFront + i) % iTotalSize] = e + i
    <3>1. CASE i <= use
      <4>1. i \in 1 .. use
        BY <1>4, <2>3, <3>1
      <4> QED
        BY <4>1, <1>1, <1>3, <1>7
    <3>2. CASE ~(i <= use)
      <4>1. i \in use + 1 .. use + n
        BY <1>4, <1>6, <2>3, <3>2
      <4>2. buffer'[(iFront + i) % iTotalSize] = sent + i - use
        BY <4>1, <1>1, <1>7
      <4>3. sent + i - use = e + i
        BY <1>3, <1>4, <1>5, <4>1
      <4> QED
        BY <4>2, <4>3
    <3> QED
      BY <3>1, <3>2
  <2> QED
    BY <1>3, <1>10, <2>1, <2>2, <2>3 DEF StreamOK, Receiving, e
<1>12. PacketsOK'
  BY <1>10 DEF PacketsOK
<1>13. DeliveredInOrder'
  BY DeliveredFrame
<1>14. DisconnectedForCause' /\ PayloadIntact'
  BY CauseFrame DEF DisconnectedForCause, PayloadIntact
<1> QED
  BY <1>8, <1>9, <1>11, <1>12, <1>13, <1>14

LEMMA ReceiveNothingRecvInv ==
    ASSUME RecvInv, ReceiveNothing
    PROVE  RecvInv'
<1> USE DEF RecvInv, ReceiveNothing, packetVars
<1>1. PcOK' /\ BufferOK' /\ StreamOK' /\ PacketsOK'
  BY DEF PcOK, BufferOK, StreamOK, Receiving, PacketsOK
<1>2. DeliveredInOrder'
  BY DeliveredFrame
<1>3. DisconnectedForCause' /\ PayloadIntact'
  BY CauseFrame DEF PayloadIntact
<1> QED
  BY <1>1, <1>2, <1>3

LEMMA MoveRearRecvInv ==
    ASSUME RecvInv, WorkerMoveRear
    PROVE  RecvInv'
<1> USE DEF RecvInv, WorkerMoveRear, packetVars
<1> DEFINE use == GetUseSize(iFront, iRear)
<1>1. /\ iFront \in Indexes /\ iRear \in Indexes /\ buffer \in [Indexes -> Nat]
      /\ transferred \in 1 .. GetFreeSize(iFront, iRear)
  BY DEF BufferOK
<1>2. /\ use \in Nat /\ GetFreeSize(iFront, iRear) \in Nat
      /\ transferred \in Nat \ {0}
  BY <1>1, UseAndFree, SizeAssumption DEF GetBufferSize
<1>3. EnqSize(iFront, iRear, transferred) = transferred
  BY <1>1, <1>2, EnqResult DEF Lesser
<1>4. /\ GetUseSize(iFront, iRear') = use + transferred
      /\ iRear' \in Indexes
  BY <1>1, <1>2, <1>3, EnqUse, EnqRearIndex
<1>5. pc' = "Parse"
  BY <1>3
<1>6. PcOK'
  BY <1>5 DEF PcOK
<1>7. BufferOK'
  BY <1>1, <1>4, <1>5 DEF BufferOK
<1>8. /\ End' = End /\ StreamSize' = StreamSize
      /\ \A k : Account(k)' = Account(k)
  BY SameStream
<1>9. StreamOK'
  <2>1. Stored = use + transferred
    BY DEF Stored
  <2>2. Stored' = Stored
    BY <1>2, <1>4, <1>5, <2>1 DEF Stored
  <2> QED
    BY <1>5, <1>8, <2>2 DEF StreamOK, Receiving
<1>10. PacketsOK'
  BY <1>5, <1>8 DEF PacketsOK
<1>11. DeliveredInOrder'
  BY DeliveredFrame
<1>12. DisconnectedForCause' /\ PayloadIntact'
  BY <1>5, CauseFrame DEF PayloadIntact
<1> QED
  BY <1>6, <1>7, <1>9, <1>10, <1>11, <1>12

LEMMA WorkerFreeRecvInv ==
    ASSUME RecvInv, WorkerFree
    PROVE  RecvInv'
<1> USE DEF RecvInv, WorkerFree
<1>1. PcOK' /\ BufferOK'
  BY DEF PcOK, BufferOK
<1>2. /\ End' = End /\ StreamSize' = StreamSize
      /\ \A k : Account(k)' = Account(k)
  BY SameStream
<1>3. StreamOK'
  <2>1. Stored' = Stored
    BY DEF Stored
  <2> QED
    BY <1>2, <2>1 DEF StreamOK, Receiving
<1>4. PacketsOK'
  <2>1. Empty(packet') /\ Empty(reply')
    BY Cleared DEF PacketsOK
  <2> QED
    BY <1>2, <2>1 DEF PacketsOK, Empty
<1>5. DeliveredInOrder'
  BY DeliveredFrame
<1>6. DisconnectedForCause' /\ PayloadIntact'
  BY CauseFrame DEF PayloadIntact
<1> QED
  BY <1>1, <1>3, <1>4, <1>5, <1>6

LEMMA RecvPostRecvInv ==
    ASSUME RecvInv, RecvPost
    PROVE  RecvInv'
<1> USE DEF RecvInv, packetVars
<1>1. PcOK'
  BY DEF PcOK, RecvPost
<1>2. pc' = "Pending" => pieces' = FreePieces /\ disconnects = {}
  BY DEF FreePieces, RecvPost
<1>3. BufferOK'
  BY <1>2, PiecesFrame DEF BufferOK, RecvPost
<1>4. /\ End' = End /\ StreamSize' = StreamSize
      /\ \A k : Account(k)' = Account(k)
  BY SameStream DEF RecvPost
<1>5. StreamOK'
  <2>1. Stored' = Stored
    BY DEF Stored, RecvPost
  <2> QED
    BY <1>2, <1>4, <2>1 DEF StreamOK, Receiving, RecvPost
<1>6. PacketsOK'
  BY <1>4 DEF PacketsOK, RecvPost
<1>7. DeliveredInOrder'
  BY DeliveredFrame DEF RecvPost
<1>8. DisconnectedForCause' /\ PayloadIntact'
  BY <1>2, CauseFrame DEF PayloadIntact, RecvPost
<1> QED
  BY <1>1, <1>3, <1>5, <1>6, <1>7, <1>8

LEMMA ReuseRecvInv ==
    ASSUME RecvInv, Reuse
    PROVE  RecvInv'
<1> USE DEF RecvInv, Reuse, packetVars
<1>1. PcOK' /\ BufferOK' /\ StreamOK'
  BY DEF PcOK, BufferOK, StreamOK, Receiving
<1>2. PacketsOK'
  BY FreeIsEmpty DEF PacketsOK
<1>3. DeliveredInOrder'
  <2>1. Len(delivered') = 0 /\ Len(stream') = 0
    OBVIOUS
  <2> QED
    BY <2>1 DEF DeliveredInOrder
<1>4. DisconnectedForCause' /\ PayloadIntact'
  BY DEF DisconnectedForCause, PayloadIntact
<1> QED
  BY <1>1, <1>2, <1>3, <1>4


(* what the buffer holds when the worker parses *)
LEMMA ParsedBuffer ==
    ASSUME RecvInv, pc = "Parse"
    PROVE  LET d == Len(delivered)
               use == GetUseSize(iFront, iRear)
           IN  /\ iFront \in Indexes /\ iRear \in Indexes
               /\ stream \in Seq(Message) /\ delivered \in Seq(Seq(Nat)) /\ sent \in Nat
               /\ use \in Nat /\ use < iTotalSize
               /\ d \in 0 .. Len(stream) /\ End[d] \in Nat
               /\ sent = End[d] + use /\ sent <= StreamSize
               /\ \A i \in 1 .. use : buffer[(iFront + i) % iTotalSize] = End[d] + i
<1> DEFINE d == Len(delivered)
           use == GetUseSize(iFront, iRear)
<1>1. iFront \in Indexes /\ iRear \in Indexes
  BY DEF RecvInv, BufferOK
<1>2. use \in Nat /\ use < iTotalSize
  BY <1>1, UseAndFree, SizeAssumption DEF GetBufferSize
<1>3. stream \in Seq(Message) /\ delivered \in Seq(Seq(Nat)) /\ sent \in Nat
  BY DEF RecvInv, StreamOK
<1>4. d \in 0 .. Len(stream)
  BY <1>3 DEF RecvInv, DeliveredInOrder
<1>5. Stored = use
  BY <1>2 DEF Stored
<1>6. End[d] \in Nat
  BY <1>3, <1>4, EndIs
<1> QED
  BY <1>1, <1>2, <1>3, <1>4, <1>5, <1>6 DEF RecvInv, StreamOK, Receiving

(* Peek and Dequeue return bytes of the stream *)
LEMMA ParsedBytes ==
    ASSUME RecvInv, pc = "Parse", NEW n \in Nat \ {0}, n <= GetUseSize(iFront, iRear)
    PROVE  DeqData(buffer, iFront, iRear, n) = [i \in 1 .. n |-> End[Len(delivered)] + i]
<1> DEFINE d == Len(delivered)
           use == GetUseSize(iFront, iRear)
<1>1. /\ iFront \in Indexes /\ iRear \in Indexes /\ use \in Nat
      /\ \A i \in 1 .. use : buffer[(iFront + i) % iTotalSize] = End[d] + i
  BY ParsedBuffer
<1>2. DeqData(buffer, iFront, iRear, n) =
         [i \in 1 .. Lesser(n, use) |-> buffer[(iFront + i) % iTotalSize]]
  BY <1>1, DeqCopies
<1>3. Lesser(n, use) = n
  BY <1>1 DEF Lesser
<1>4. ASSUME NEW i \in 1 .. n
      PROVE  buffer[(iFront + i) % iTotalSize] = End[d] + i
  <2>1. i \in 1 .. use
    BY <1>1, <1>4
  <2> QED
    BY <1>1, <2>1
<1> QED
  BY <1>2, <1>3, <1>4

(* The header the worker peeks is the one of the next message. *)
LEMMA ParsedHeader ==
    ASSUME RecvInv, pc = "Parse", ~(GetUseSize(iFront, iRear) < Header)
    PROVE  LET d == Len(delivered)
           IN  /\ d + 1 \in 1 .. Len(stream) /\ (d + 1) - 1 = d
               /\ stream[d + 1] \in Message
               /\ HeaderOf(DeqData(buffer, iFront, iRear, Header)) = {d + 1}
<1> DEFINE d == Len(delivered)
           use == GetUseSize(iFront, iRear)
<1>1. /\ stream \in Seq(Message) /\ use \in Nat /\ d \in 0 .. Len(stream)
      /\ sent = End[d] + use /\ sent <= StreamSize
  BY ParsedBuffer
<1> HIDE DEF d, use
<1>2. Header \in Nat \ {0} /\ Header <= use
  BY <1>1, HeaderSize DEF use
<1>3. use > 0
  BY <1>1, <1>2
<1>4. d + 1 \in 1 .. Len(stream)
  BY <1>1, <1>3, NextMessage
<1>5. (d + 1) - 1 = d
  BY <1>1
<1>6. stream[d + 1] \in Message
  BY <1>1, <1>4
<1>7. DeqData(buffer, iFront, iRear, Header) = [i \in 1 .. Header |-> End[d] + i]
  BY <1>2, ParsedBytes DEF use, d
<1>8. HeaderOf([i \in 1 .. Header |-> End[(d + 1) - 1] + i]) = {d + 1}
  BY <1>1, <1>4, HeaderFound
<1> QED
  BY <1>4, <1>5, <1>6, <1>7, <1>8 DEF d

(* The bytes it takes are all of that message. *)
LEMMA ParsedMessage ==
    ASSUME RecvInv, pc = "Parse", ~(GetUseSize(iFront, iRear) < Header),
           NEW m, m = stream[Len(delivered) + 1], NEW size,
           size = Header + Wire[m].header.len, ~(GetUseSize(iFront, iRear) < size)
    PROVE  LET data == DeqData(buffer, iFront, iRear, size)
           IN  /\ data = BytesOf(Len(delivered) + 1)
               /\ PayloadBytes(SubSeq(data, Header + 1, Len(data))) =
                     [i \in 1 .. Wire[m].header.len |-> Wire[m].bytes[i]]
<1> DEFINE d == Len(delivered)
           use == GetUseSize(iFront, iRear)
           len == Wire[m].header.len
           data == DeqData(buffer, iFront, iRear, size)
           e == End[d]
<1>1. /\ stream \in Seq(Message) /\ use \in Nat /\ e \in Nat
  BY ParsedBuffer
<1>2. d + 1 \in 1 .. Len(stream) /\ (d + 1) - 1 = d /\ m \in Message
  BY ParsedHeader
<1>3. len \in Nat
  BY <1>2, SizeOf
<1> HIDE DEF len, use, e
<1>4. Header \in Nat /\ size \in Nat \ {0} /\ size <= use /\ size = Header + len
  <2>1. size = Header + len
    BY DEF len
  <2>2. ~(use < size)
    BY DEF use
  <2> QED
    BY ONLY <1>1, <1>3, <2>1, <2>2, HeaderSize
<1>5. data = [i \in 1 .. size |-> e + i]
  BY <1>4, ParsedBytes DEF use, e
<1>6. data = BytesOf(d + 1)
  BY <1>2, <1>5 DEF BytesOf, e
<1> HIDE DEF data
<1>7. /\ Len(data) = size
      /\ SubSeq(data, Header + 1, size) = [i \in 1 .. size - Header |-> e + Header + i]
  <2>1. Header \in 0 .. size /\ size \in Nat
    BY <1>3, <1>4
  <2> QED
    <3> DEFINE n == Header
    <3>1. n \in 0 .. size /\ size \in Nat /\ e \in Nat
      BY <1>1, <2>1
    <3> HIDE DEF n
    <3>2. /\ Len([i \in 1 .. size |-> e + i]) = size
          /\ SubSeq([i \in 1 .. size |-> e + i], n + 1, size) =
                [i \in 1 .. size - n |-> e + n + i]
      BY <3>1, CountingSlice, ZenonT(30)
    <3>3. Len(data) = size /\ SubSeq(data, n + 1, size) = [i \in 1 .. size - n |-> e + n + i]
      BY <1>5, <3>2, ZenonT(30)
    <3> QED
      BY <3>3 DEF n
<1>8. SubSeq(data, Header + 1, Len(data)) = [i \in 1 .. len |-> End[(d + 1) - 1] + (Header + i)]
  <2>1. size - Header = len
    BY <1>3, <1>4
  <2>2. \A i \in 1 .. len : e + Header + i = e + (Header + i)
    BY <1>1, <1>3, <1>4
  <2>3. e = End[(d + 1) - 1]
    BY <1>2 DEF e
  <2> QED
    BY <1>7, <2>1, <2>2, <2>3
<1>9. PayloadBytes([i \in 1 .. len |-> End[(d + 1) - 1] + (Header + i)]) =
         [i \in 1 .. len |-> Wire[stream[d + 1]].bytes[i]]
  BY <1>1, <1>2, <1>3, PayloadFound DEF len
<1> QED
  BY <1>6, <1>8, <1>9 DEF data, len, d

(* After Dequeue of a message the buffer begins with the next one. *)
LEMMA ParsedFront ==
    ASSUME RecvInv, pc = "Parse", ~(GetUseSize(iFront, iRear) < Header),
           NEW size, size = Header + Wire[stream[Len(delivered) + 1]].header.len,
           ~(GetUseSize(iFront, iRear) < size)
    PROVE  LET f == DeqFront(iFront, iRear, size)
               k == Len(delivered) + 1
           IN  /\ f \in Indexes
               /\ sent = End[k] + GetUseSize(f, iRear)
               /\ GetUseSize(f, iRear) \in Nat
               /\ \A i \in 1 .. GetUseSize(f, iRear) :
                     buffer[(f + i) % iTotalSize] = End[k] + i
<1> DEFINE d == Len(delivered)
           use == GetUseSize(iFront, iRear)
           f == DeqFront(iFront, iRear, size)
           len == Wire[stream[d + 1]].header.len
           e == End[d]
<1>1. /\ iFront \in Indexes /\ iRear \in Indexes
      /\ stream \in Seq(Message) /\ use \in Nat /\ use < iTotalSize /\ e \in Nat
      /\ sent = e + use
      /\ \A i \in 1 .. use : buffer[(iFront + i) % iTotalSize] = e + i
  BY ParsedBuffer
<1>2. d + 1 \in 1 .. Len(stream) /\ (d + 1) - 1 = d /\ stream[d + 1] \in Message
  BY ParsedHeader
<1>3. len \in Nat
  BY <1>2, SizeOf
<1>4. End[d + 1] = End[(d + 1) - 1] + Header + len
  BY <1>1, <1>2, EndIs
<1> HIDE DEF len, use, e, f
<1>5. Header \in Nat /\ size \in Nat \ {0} /\ size <= use /\ size = Header + len
  <2>1. size = Header + len
    BY DEF len
  <2>2. ~(use < size)
    BY DEF use
  <2>3. size \in Nat /\ size > 0 /\ Header \in Nat
    BY ONLY <2>1, <1>3, HeaderSize
  <2> QED
    BY ONLY <2>1, <2>2, <2>3, <1>1
<1>6. End[d + 1] = e + size
  <2>1. End[d + 1] = e + Header + len
    BY <1>2, <1>4 DEF e
  <2> QED
    BY <2>1, <1>1, <1>3, <1>5
<1>7. DeqSize(iFront, iRear, size) = size /\ f = Wrapped(iFront + size)
  <2>1. Lesser(size, use) = size
    BY <1>1, <1>5 DEF Lesser
  <2> QED
    BY <1>1, <1>5, <2>1, DeqResult DEF use, f
<1>8. GetUseSize(f, iRear) = use - size
  BY <1>1, <1>5, <1>7, DeqUse DEF use, f
<1>9. f \in Indexes
  BY <1>1, <1>5, DeqFrontIndex DEF f
<1>10. ASSUME NEW i \in 1 .. use - size
       PROVE  buffer[(f + i) % iTotalSize] = (e + size) + i
  <2>1. size + i \in 1 .. use /\ size + i < iTotalSize /\ i \in Nat /\ size \in Nat
    <3>1. i \in Nat /\ i >= 1 /\ i <= use - size /\ size \in Nat
      BY <1>1, <1>5, <1>10
    <3> QED
      BY ONLY <3>1, <1>1, SizeAssumption
  <2>2. (f + i) % iTotalSize = (iFront + (size + i)) % iTotalSize
    BY <1>1, <1>7, <2>1, ShiftedIndex
  <2>3. buffer[(iFront + (size + i)) % iTotalSize] = e + (size + i)
    BY <1>1, <2>1
  <2>4. e + (size + i) = (e + size) + i
    BY ONLY <1>1, <2>1
  <2> QED
    BY <2>2, <2>3, <2>4
<1>11. sent = End[d + 1] + (use - size) /\ use - size \in Nat
  <2>1. use - size \in Nat
    BY ONLY <1>1, <1>5
  <2>2. size \in Nat
    BY <1>5
  <2>3. e + use = e + size + (use - size)
    BY ONLY <1>1, <2>1, <2>2
  <2> QED
    BY <1>1, <1>6, <2>1, <2>3
<1>12. \A i \in 1 .. use - size : buffer[(f + i) % iTotalSize] = End[d + 1] + i
  BY <1>6, <1>10
<1> QED
  BY <1>8, <1>9, <1>11, <1>12 DEF f, d

(* the worker found no whole message, and goes on to RecvPost *)
LEMMA ParseWaits ==
    ASSUME RecvInv, pc = "Parse", pc' = "RecvPost",
           UNCHANGED <<buffer, iFront, iRear, stream, sent, pieces, transferred,
                       delivered, packet, reply, accountNo, disconnects>>,
           GetUseSize(iFront, iRear) < Header + MaxLen
    PROVE  RecvInv'
<1> USE DEF RecvInv
<1>1. PcOK'
  BY DEF PcOK
<1>2. BufferOK'
  BY DEF BufferOK
<1>3. /\ End' = End /\ StreamSize' = StreamSize
      /\ \A k : Account(k)' = Account(k)
  BY SameStream
<1>4. StreamOK'
  <2>1. Stored' = Stored
    BY DEF Stored
  <2> QED
    BY <1>3, <2>1 DEF StreamOK, Receiving
<1>5. PacketsOK'
  BY <1>3 DEF PacketsOK
<1>6. DeliveredInOrder'
  BY DeliveredFrame
<1>7. DisconnectedForCause' /\ PayloadIntact'
  BY CauseFrame DEF PayloadIntact
<1> QED
  BY <1>1, <1>2, <1>4, <1>5, <1>6, <1>7

(* a message longer than a packet, and what it overran is lost *)
LEMMA ParseOverruns ==
    ASSUME RecvInv, pc = "Parse", pc' = "Overrun",
           UNCHANGED <<buffer, iFront, iRear, stream, sent, pieces, transferred,
                       delivered, packet, reply, accountNo, disconnects>>
    PROVE  RecvInv'
<1> USE DEF RecvInv
<1>1. PcOK' /\ BufferOK' /\ StreamOK' /\ PacketsOK'
  BY DEF PcOK, BufferOK, StreamOK, Receiving, PacketsOK
<1>2. DeliveredInOrder'
  BY DeliveredFrame
<1>3. DisconnectedForCause' /\ PayloadIntact'
  BY CauseFrame DEF PayloadIntact
<1> QED
  BY <1>1, <1>2, <1>3

(* the worker found a bad message *)
LEMMA ParseRejects ==
    ASSUME RecvInv, pc = "Parse", pc' = "RecvPost",
           UNCHANGED <<buffer, iRear, stream, sent, pieces, transferred,
                       delivered, reply, accountNo>>,
           iFront' \in Indexes, Empty(packet'),
           disconnects' = disconnects \cup {Len(delivered) + 1},
           Len(delivered) + 1 \in 1 .. Len(stream),
           stream[Len(delivered) + 1].kind # "good"
    PROVE  RecvInv'
<1> USE DEF RecvInv
<1>1. PcOK'
  BY DEF PcOK
<1>2. disconnects' # {}
  OBVIOUS
<1>3. BufferOK'
  BY <1>2 DEF BufferOK
<1>4. StreamOK'
  BY <1>2 DEF StreamOK, Receiving
<1>5. PacketsOK'
  <2>1. \A k : Account(k)' = Account(k)
    BY SameStream
  <2> QED
    BY <2>1 DEF PacketsOK, Empty
<1>6. DeliveredInOrder'
  BY DeliveredFrame
<1>7. DisconnectedForCause'
  <2>1. \A k : MayBeLogin(k)' = MayBeLogin(k)
    BY SameStream
  <2>2. ASSUME NEW k \in disconnects'
        PROVE  /\ k \in 1 .. Len(stream)
               /\ \/ k = Len(delivered) + 1 /\ stream[k].kind # "good"
                  \/ k <= Len(delivered) /\ MayBeLogin(k)
    <3>1. CASE k = Len(delivered) + 1
      BY <3>1
    <3>2. CASE k \in disconnects
      BY <3>2 DEF DisconnectedForCause
    <3> QED
      BY <2>2, <3>1, <3>2
  <2> QED
    BY <2>1, <2>2 DEF DisconnectedForCause
<1>8. PayloadIntact'
  BY DEF PayloadIntact
<1> QED
  BY <1>1, <1>3, <1>4, <1>5, <1>6, <1>7, <1>8

(* the worker took a good message *)
LEMMA ParseDelivers ==
    ASSUME RecvInv, pc = "Parse", pc' = "OnRecv",
           UNCHANGED <<buffer, iRear, stream, sent, pieces, transferred, reply,
                       accountNo, disconnects>>,
           ~(GetUseSize(iFront, iRear) < Header),
           NEW m, m = stream[Len(delivered) + 1], m.kind = "good",
           NEW size, size = Header + Wire[m].header.len,
           ~(GetUseSize(iFront, iRear) < size),
           iFront' = DeqFront(iFront, iRear, size),
           delivered' = Append(delivered, BytesOf(Len(delivered) + 1)),
           Holds(packet', Cut(m.sample.payload))
    PROVE  RecvInv'
<1> DEFINE d == Len(delivered)
<1>1. /\ iFront \in Indexes /\ iRear \in Indexes
      /\ stream \in Seq(Message) /\ delivered \in Seq(Seq(Nat)) /\ sent \in Nat
      /\ d \in 0 .. Len(stream) /\ sent <= StreamSize
  BY ParsedBuffer
<1>2. d + 1 \in 1 .. Len(stream) /\ (d + 1) - 1 = d /\ m \in Message
  BY ParsedHeader
<1>3. /\ iFront' \in Indexes
      /\ sent = End[d + 1] + GetUseSize(iFront', iRear)
      /\ GetUseSize(iFront', iRear) \in Nat
      /\ \A i \in 1 .. GetUseSize(iFront', iRear) :
            buffer[(iFront' + i) % iTotalSize] = End[d + 1] + i
  BY ParsedFront
<1>4. /\ End' = End /\ StreamSize' = StreamSize
      /\ \A k : Account(k)' = Account(k)
      /\ \A k : BytesOf(k)' = BytesOf(k)
      /\ \A k : Visible(k)' = Visible(k)
      /\ \A k : MayBeLogin(k)' = MayBeLogin(k)
  BY SameStream
<1>5. Len(delivered') = d + 1 /\ delivered'[d + 1] = BytesOf(d + 1)
      /\ \A k \in 1 .. d : delivered'[k] = delivered[k]
  BY <1>1
<1>6. PcOK'
  BY DEF PcOK
<1>7. BufferOK'
  BY <1>3 DEF RecvInv, BufferOK
<1>8. BytesOf(d + 1) \in Seq(Nat)
  <2>1. End[(d + 1) - 1] \in Nat /\ Header + Wire[stream[d + 1]].header.len \in Nat
    <3>1. End[(d + 1) - 1] \in Nat
      BY <1>1, <1>2, EndIs
    <3>2. Wire[stream[d + 1]].header.len \in Nat
      BY <1>2, SizeOf
    <3> QED
      BY <3>1, <3>2, HeaderSize
  <2> QED
    BY <2>1, SMTT(30) DEF BytesOf
<1> HIDE DEF d
<1>9. StreamOK'
  <2>1. Stored' = GetUseSize(iFront', iRear)
    <3> DEFINE g == GetUseSize(iFront', iRear)
    <3>1. Stored' = GetUseSize(iFront, iRear)' + 0
      BY ONLY pc' = "OnRecv" DEF Stored
    <3>2. GetUseSize(iFront, iRear)' = g
      BY DEF GetUseSize
    <3>3. g \in Nat
      BY <1>3
    <3> HIDE DEF g
    <3>4. Stored' = g
      BY ONLY <3>1, <3>2, <3>3
    <3> QED
      BY <3>4 DEF g
  <2>2. delivered' \in Seq(Seq(Nat))
    BY <1>1, <1>8 DEF d
  <2> QED
    BY <1>1, <1>3, <1>4, <1>5, <2>1, <2>2 DEF StreamOK
<1>10. Visible(Len(delivered))' = Cut(m.sample.payload)
  <2>1. Visible(d + 1) = Cut(stream[d + 1].sample.payload)
    BY DEF Visible, Cut
  <2> QED
    BY <1>4, <1>5, <2>1 DEF d
<1>11. d + 1 \notin disconnects
  <2>1. stream[d + 1].kind = "good" /\ ~(d + 1 <= d)
    BY <1>1 DEF d
  <2> QED
    BY <2>1 DEF RecvInv, DisconnectedForCause, d
<1>12. PacketsOK'
  <2>1. (accountNo = Account(Len(delivered) - 1))'
    <3>1. Len(delivered') - 1 = d
      BY <1>2, <1>5
    <3>2. accountNo = Account(d) /\ accountNo' = accountNo
      BY DEF RecvInv, PacketsOK, d
    <3> QED
      BY <1>4, <3>1, <3>2
  <2>2. accountNo' \in [1 .. AccountSize -> Byte] /\ Empty(reply') /\ HasRoom(reply')
    BY DEF RecvInv, PacketsOK
  <2>3. HasRoom(packet')
    BY DEF Holds
  <2>4. Len(delivered') > 0 /\ Len(delivered') \notin disconnects'
    BY <1>1, <1>5, <1>11
  <2> QED
    BY <1>10, <2>1, <2>2, <2>3, <2>4 DEF PacketsOK
<1>13. DeliveredInOrder'
  <2>1. ASSUME NEW k \in 1 .. d + 1
        PROVE  stream[k].kind = "good" /\ delivered'[k] = BytesOf(k)
    <3>1. CASE k = d + 1
      BY <3>1, <1>5 DEF d
    <3>2. CASE k # d + 1
      <4>1. k \in 1 .. d
        BY <1>1, <2>1, <3>2
      <4> QED
        BY <4>1, <1>5 DEF RecvInv, DeliveredInOrder, d
    <3> QED
      BY <3>1, <3>2
  <2>2. d + 1 <= Len(stream)
    BY <1>1, <1>2
  <2> QED
    BY <1>4, <1>5, <2>1, <2>2 DEF DeliveredInOrder
<1>14. DisconnectedForCause'
  <2>1. ASSUME NEW k \in disconnects
        PROVE  k \in 1 .. Len(stream) /\ k <= d + 1 /\ MayBeLogin(k)
    <3>1. k \in 1 .. Len(stream) /\ k # d + 1 /\ k <= d /\ MayBeLogin(k)
      BY <1>11, <2>1 DEF RecvInv, DisconnectedForCause, d
    <3> QED
      BY <1>1, <3>1
  <2> QED
    BY <1>4, <1>5, <2>1 DEF DisconnectedForCause
<1>15. PayloadIntact'
  <2>1. Data(packet', PayloadRoom) = Cut(m.sample.payload)
    <3> DEFINE c == Cut(m.sample.payload)
    <3>1. c \in Seq(Byte) /\ Len(c) <= PayloadRoom
      BY <1>2, MessageFits, CutIs
    <3>2. Holds(packet', c)
      OBVIOUS
    <3> HIDE DEF c
    <3>3. Data(packet', PayloadRoom) = c
      BY <3>1, <3>2, ReadPacket
    <3> QED
      BY <3>3 DEF c
  <2> QED
    BY <1>10, <2>1 DEF PayloadIntact
<1> QED
  BY <1>6, <1>7, <1>9, <1>12, <1>13, <1>14, <1>15 DEF RecvInv

LEMMA WorkerParseRecvInv ==
    ASSUME RecvInv, WorkerParse
    PROVE  RecvInv'
<1> DEFINE d == Len(delivered)
           use == GetUseSize(iFront, iRear)
           peek == DeqData(buffer, iFront, iRear, Header)
           k == CHOOSE j \in HeaderOf(peek) : TRUE
           header == Wire[stream[k]].header
           size == Header + header.len
           data == DeqData(buffer, iFront, iRear, size)
           taken == Received(header, PayloadBytes(SubSeq(data, Header + 1, Len(data))))
           got == Decode(taken)
<1>1. /\ pc = "Parse"
      /\ IF use < Header
         THEN pc' = "RecvPost" /\ UNCHANGED <<iFront, delivered, packet, disconnects>>
         ELSE IF HeaderOf(peek) = {} \/ header.code # dfPACKET_CODE
         THEN /\ pc' = "RecvPost" /\ disconnects' = disconnects \cup {d + 1}
              /\ UNCHANGED <<iFront, delivered, packet>>
         ELSE IF use < size
         THEN pc' = "RecvPost" /\ UNCHANGED <<iFront, delivered, packet, disconnects>>
         ELSE \/ /\ pc' = "Overrun"
                 /\ UNCHANGED <<iFront, delivered, packet, disconnects>>
              \/ /\ iFront' = DeqFront(iFront, iRear, size)
                 /\ IF ChecksOut(got)
                    THEN /\ delivered' = Append(delivered, data)
                         /\ packet' = got
                         /\ pc' = "OnRecv"
                         /\ UNCHANGED disconnects
                    ELSE /\ packet' = Clear(got)
                         /\ pc' = "RecvPost"
                         /\ disconnects' = disconnects \cup {d + 1}
                         /\ UNCHANGED delivered
      /\ UNCHANGED <<buffer, iRear, stream, sent, pieces, transferred, reply, accountNo>>
  BY DEF WorkerParse
<1>2. /\ iFront \in Indexes /\ iRear \in Indexes /\ Empty(packet)
  BY <1>1 DEF RecvInv, BufferOK, PacketsOK
<1>3. use \in Nat
  BY <1>2, UseAndFree, SizeAssumption DEF GetBufferSize
<1>4. MaxLen \in Nat /\ Header \in Nat
  BY MessageAssumption
<1> HIDE DEF peek, k, header, size, data, taken, got, use
<1>5. CASE use < Header
  <2>1. use < Header + MaxLen
    BY <1>3, <1>4, <1>5
  <2> QED
    BY <1>1, <1>5, <2>1, ParseWaits DEF use
<1>6. CASE ~(use < Header)
  <2> DEFINE m == stream[d + 1]
             n == Len(m.sample.payload)
  <2>1. d + 1 \in 1 .. Len(stream) /\ m \in Message /\ HeaderOf(peek) = {d + 1}
    BY <1>1, <1>6, ParsedHeader DEF use, peek
  <2>2. HeaderOf(peek) # {} /\ k = d + 1
    BY <2>1 DEF k
  <2>3. header = Wire[m].header
    BY <2>2 DEF header
  <2>4. /\ header.len \in 0 .. MaxLen /\ n \in Nat
        /\ Wire[m] \in PacketType(n) /\ Wire[m].header.len = n
    BY <2>1, <2>3, SizeOf, WireHeader, MessageFits
  <2>5. size = Header + Wire[m].header.len
    BY <2>3 DEF size
  <2>6. header.code = IF m.kind = "code" THEN 0 ELSE dfPACKET_CODE
    BY <2>1, <2>3, WireHeader
  <2>7. m.kind \in {"good", "code", "decode"}
    BY <2>1, MessageFits
  <2>8. dfPACKET_CODE # 0
    BY DEF dfPACKET_CODE
  <2>9. CASE header.code # dfPACKET_CODE
    <3>1. m.kind # "good"
      BY <2>6, <2>9
    <3>2. /\ pc' = "RecvPost" /\ disconnects' = disconnects \cup {d + 1}
          /\ UNCHANGED <<iFront, delivered, packet>>
      BY <1>1, <1>6, <2>9
    <3>3. iFront' \in Indexes /\ Empty(packet')
      BY <1>2, <3>2
    <3> QED
      BY <1>1, <2>1, <3>1, <3>2, <3>3, ParseRejects
  <2>10. CASE header.code = dfPACKET_CODE /\ use < size
    <3>1. pc' = "RecvPost" /\ UNCHANGED <<iFront, delivered, packet, disconnects>>
      BY <1>1, <1>6, <2>2, <2>10
    <3>2. use < Header + MaxLen
      BY <1>3, <1>4, <2>4, <2>10 DEF size
    <3> QED
      BY <1>1, <3>1, <3>2, ParseWaits DEF use
  <2>11. CASE header.code = dfPACKET_CODE /\ ~(use < size)
    <3> DEFINE bytes == PayloadBytes(SubSeq(data, Header + 1, Len(data)))
    <3>1. \/ /\ pc' = "Overrun"
             /\ UNCHANGED <<iFront, delivered, packet, disconnects>>
          \/ /\ iFront' = DeqFront(iFront, iRear, size)
             /\ IF ChecksOut(got)
                THEN /\ delivered' = Append(delivered, data)
                     /\ packet' = got
                     /\ pc' = "OnRecv"
                     /\ UNCHANGED disconnects
                ELSE /\ packet' = Clear(got)
                     /\ pc' = "RecvPost"
                     /\ disconnects' = disconnects \cup {d + 1}
                     /\ UNCHANGED delivered
      BY <1>1, <1>6, <2>2, <2>11
    <3>2. m.kind \in {"good", "decode"}
      BY <2>6, <2>7, <2>8, <2>11
    <3> HIDE DEF m, n
    <3>3. /\ data = BytesOf(d + 1)
          /\ bytes = [i \in 1 .. Wire[m].header.len |-> Wire[m].bytes[i]]
      BY <1>1, <1>6, <2>5, <2>11, ParsedMessage DEF use, data, m
    <3> HIDE DEF bytes
    <3>4. PICK space \in Nat :
             /\ n <= space /\ PayloadRoom <= space
             /\ taken \in PacketType(space) /\ taken.header = Wire[m].header
             /\ \A i \in 1 .. n : taken.bytes[i] = Wire[m].bytes[i]
             /\ taken.writePos = AtMost(n, PayloadRoom) /\ taken.readPos = 0
      <4>1. taken = Received(Wire[m].header, bytes)
        BY <2>3 DEF taken, bytes
      <4>2. bytes = [i \in 1 .. n |-> Wire[m].bytes[i]]
        BY <2>4, <3>3
      <4> QED
        BY <1>2, <2>4, <4>1, <4>2, ReceivedPacket, ZenonT(30)
    <3>5. iFront' = DeqFront(iFront, iRear, size) => iFront' \in Indexes
      BY <1>1, <1>6, <2>5, <2>11, ParsedFront DEF use, m
    <3>6. CASE pc' = "Overrun" /\ UNCHANGED <<iFront, delivered, packet, disconnects>>
      BY <1>1, <3>6, ParseOverruns
    <3>7. CASE m.kind = "good" /\ pc' # "Overrun"
      <4>1. ChecksOut(got) /\ Holds(got, Cut(m.sample.payload))
        <5>1. /\ Wire[m].header.len <= space
              /\ \A i \in 1 .. Wire[m].header.len : taken.bytes[i] = Wire[m].bytes[i]
              /\ taken.writePos = AtMost(Wire[m].header.len, PayloadRoom)
          BY <2>4, <3>4
        <5> QED
          BY <2>1, <3>4, <3>7, <5>1, GoodIsDecoded DEF got
      <4>2. /\ delivered' = Append(delivered, BytesOf(d + 1))
            /\ Holds(packet', Cut(m.sample.payload)) /\ pc' = "OnRecv"
            /\ disconnects' = disconnects /\ iFront' = DeqFront(iFront, iRear, size)
        BY <3>1, <3>3, <3>7, <4>1
      <4> QED
        BY <1>1, <1>6, <2>5, <2>11, <3>7, <4>2, ParseDelivers DEF use, m
    <3>8. CASE m.kind = "decode" /\ pc' # "Overrun"
      <4>1. ~ChecksOut(got)
        BY <2>1, <2>4, <3>4, <3>8, ChangedIsRejected DEF got
      <4>2. /\ packet' = Clear(got) /\ pc' = "RecvPost" /\ delivered' = delivered
            /\ disconnects' = disconnects \cup {d + 1} /\ iFront' \in Indexes
        BY <3>1, <3>5, <3>8, <4>1
      <4>3. got \in PacketType(space)
        <5>1. taken.header.len <= space
          BY <2>4, <3>4
        <5> QED
          BY <3>4, <5>1, DecodeFields DEF got
      <4>4. Empty(packet')
        BY <3>4, <4>2, <4>3, RoomIs, Cleared
      <4>5. m.kind # "good"
        BY <3>8
      <4> QED
        BY <1>1, <2>1, <4>2, <4>4, <4>5, ParseRejects DEF m
    <3>9. pc' # "Overrun" \/ UNCHANGED <<iFront, delivered, packet, disconnects>>
      BY <3>1
    <3> QED
      BY <3>2, <3>6, <3>7, <3>8, <3>9
  <2> QED
    BY <2>9, <2>10, <2>11
<1> QED
  BY <1>5, <1>6

(* the number Login has after it read what there is of one *)
LEMMA AccountRead ==
    ASSUME NEW d \in Nat \ {0}, NEW account,
           IsLogin(d) \/ Len(Visible(d)) < 3,
           \A i \in 1 .. AccountSize :
              /\ i <= Len(account) <=> 2 + i <= Len(Visible(d))
              /\ i <= Len(account) => account[i] = Visible(d)[2 + i],
           Len(Visible(d)) \in Nat
    PROVE  Overwritten(Account(d - 1), account) = Account(d)
<1>1. ASSUME NEW i \in 1 .. AccountSize
      PROVE  (IF i <= Len(account) THEN account[i] ELSE AccountByte(d - 1, i)) =
             AccountByte(d, i)
  <2>1. AccountByte(d, i) = IF IsLogin(d) /\ 2 + i <= Len(Visible(d))
                            THEN Visible(d)[2 + i] ELSE AccountByte(d - 1, i)
    BY AccountStep
  <2>2. CASE IsLogin(d)
    BY <1>1, <2>1, <2>2
  <2>3. CASE Len(Visible(d)) < 3
    <3>1. ~(2 + i <= Len(Visible(d)))
      BY <1>1, <2>3, MessageAssumption
    <3> QED
      BY <1>1, <2>1, <3>1
  <2> QED
    BY <2>2, <2>3
<1>2. Overwritten(Account(d - 1), account) =
         [i \in 1 .. AccountSize |->
            IF i <= Len(account) THEN account[i] ELSE AccountByte(d - 1, i)]
  BY DEF Overwritten, Account
<1>3. Account(d) = [i \in 1 .. AccountSize |-> AccountByte(d, i)]
  BY DEF Account
<1> QED
  BY <1>1, <1>2, <1>3

LEMMA AccountKept ==
    ASSUME NEW d \in Nat \ {0}, ~IsLogin(d)
    PROVE  Account(d) = Account(d - 1)
<1>1. \A i \in 1 .. AccountSize : AccountByte(d, i) = AccountByte(d - 1, i)
  BY AccountStep
<1> QED
  BY <1>1 DEF Account

(* the bytes of an account *)
LEMMA OverwrittenBytes ==
    ASSUME NEW field \in [1 .. AccountSize -> Byte], NEW read,
           \A i \in 1 .. AccountSize : i <= Len(read) => read[i] \in Byte
    PROVE  Overwritten(field, read) \in [1 .. AccountSize -> Byte]
  BY DEF Overwritten

(* a request whose type is there in part only has no account *)
LEMMA ShortType ==
    ASSUME NEW data \in Seq(Byte),
           NEW type, type = SubSeq(data, 1, AtMost(2, Len(data))),
           IsPrefixOf(type, en_PACKET_CS_LOGIN_REQ_LOGIN)
    PROVE  type = en_PACKET_CS_LOGIN_REQ_LOGIN \/ Len(data) < 3
<1>1. CASE Len(data) < 2
  BY <1>1
<1>2. CASE Len(data) >= 2
  <2>1. AtMost(2, Len(data)) = 2
    BY <1>2 DEF AtMost
  <2>2. type \in Seq(Byte) /\ Len(type) = 2
    BY <1>2, <2>1
  <2> DEFINE req == en_PACKET_CS_LOGIN_REQ_LOGIN
  <2>3. req \in Seq(Byte) /\ Len(req) = 2
    BY DEF en_PACKET_CS_LOGIN_REQ_LOGIN, Byte
  <2> HIDE DEF req
  <2>4. \A i \in 1 .. Len(type) : type[i] = req[i]
    BY DEF IsPrefixOf, req
  <2>5. \A s, t \in Seq(Byte) :
           Len(s) = Len(t) /\ (\A i \in 1 .. Len(s) : s[i] = t[i]) => s = t
    OBVIOUS
  <2>6. type = req
    BY <2>2, <2>3, <2>4, <2>5, Zenon
  <2> QED
    BY <2>6 DEF req
<1> QED
  BY <1>1, <1>2

LEMMA OnRecvRecvInv ==
    ASSUME RecvInv, OnRecv
    PROVE  RecvInv'
<1> DEFINE d == Len(delivered)
           data == Visible(d)
           type == Data(packet, 2)
           rest == StreamOut(packet, 2)
           account == Data(rest, AccountSize)
           req == en_PACKET_CS_LOGIN_REQ_LOGIN
           res == en_PACKET_CS_LOGIN_RES_LOGIN
<1>1. /\ stream \in Seq(Message) /\ delivered \in Seq(Seq(Nat))
      /\ pc = "OnRecv" /\ pc' = "Free"
      /\ UNCHANGED <<buffer, iFront, iRear, stream, sent, pieces, transferred, delivered>>
  BY DEF RecvInv, StreamOK, OnRecv
<1>2. d \in 1 .. Len(stream) /\ d \in Nat \ {0} /\ d \notin disconnects
  BY <1>1 DEF RecvInv, PacketsOK, DeliveredInOrder
<1>3. stream[d] \in Message
  BY <1>1, <1>2
<1>4. data \in Seq(Byte) /\ Len(data) <= PayloadRoom /\ Len(data) \in Nat
  <2>1. data = Cut(stream[d].sample.payload)
    BY DEF Visible, Cut
  <2> QED
    BY <1>3, <2>1, MessageFits, CutIs
<1>5. Holds(packet, data)
  BY <1>1 DEF RecvInv, PacketsOK
<1>6. /\ accountNo \in [1 .. AccountSize -> Byte] /\ accountNo = Account(d - 1)
      /\ Empty(reply) /\ HasRoom(reply)
  BY <1>1 DEF RecvInv, PacketsOK
<1>7. /\ type = SubSeq(data, 1, AtMost(2, Len(data)))
      /\ \A i \in 1 .. AccountSize :
            /\ i <= Len(account) <=> 2 + i <= Len(data)
            /\ i <= Len(account) => account[i] = data[2 + i]
      /\ HasRoom(rest)
      /\ HasRoom(GetData(StreamOut(rest, AccountSize), SessionKeySize))
  <2> HIDE DEF data
  <2> QED
    BY <1>4, <1>5, ReadPacket
<1>8. TypeOf(d) = type
  BY <1>7 DEF TypeOf
<1>9. /\ End' = End /\ StreamSize' = StreamSize
      /\ \A k : Account(k)' = Account(k)
      /\ \A k : MayBeLogin(k)' = MayBeLogin(k)
  BY <1>1, SameStream
<1>10. \/ /\ type # req /\ packet' = rest
          /\ UNCHANGED <<reply, accountNo, disconnects>>
       \/ /\ IsPrefixOf(type, req)
          /\ packet' = GetData(StreamOut(rest, AccountSize), SessionKeySize)
          /\ accountNo' = Overwritten(accountNo, account)
          /\ \E isSuccess \in {0, 1}, randKey \in RandKeys :
                /\ reply' = Encode(Response(accountNo', isSuccess), randKey)
                /\ disconnects' = IF isSuccess = 1 THEN disconnects
                                  ELSE disconnects \cup {d}
  BY DEF OnRecv
<1> DEFINE ok == IF d \in disconnects' THEN 0 ELSE 1
<1> HIDE DEF d, data, type, rest, account, req
<1>11. /\ HasRoom(packet') /\ HasRoom(reply')
       /\ accountNo' = Account(d) /\ accountNo' \in [1 .. AccountSize -> Byte]
       /\ \A k \in disconnects' : k \in disconnects \/ (k = d /\ MayBeLogin(d))
       /\ GetTotalSize(reply') > 0 =>
             /\ Decode(reply').header.code = dfPACKET_CODE
             /\ ChecksOut(Decode(reply'))
             /\ SubSeq(Decode(reply').bytes, 1, Decode(reply').header.len) =
                   res \o accountNo' \o <<ok>>
  <2>1. CASE /\ type # req /\ packet' = rest
             /\ UNCHANGED <<reply, accountNo, disconnects>>
    <3>1. ~IsLogin(d)
      BY <1>8, <2>1 DEF IsLogin, req
    <3>2. Account(d) = Account(d - 1)
      BY <1>2, <3>1, AccountKept
    <3>3. GetTotalSize(reply') = 0
      BY <1>6, <2>1 DEF GetTotalSize, Empty
    <3> QED
      BY <1>6, <1>7, <2>1, <3>2, <3>3
  <2>2. CASE /\ IsPrefixOf(type, req)
             /\ packet' = GetData(StreamOut(rest, AccountSize), SessionKeySize)
             /\ accountNo' = Overwritten(accountNo, account)
             /\ \E isSuccess \in {0, 1}, randKey \in RandKeys :
                   /\ reply' = Encode(Response(accountNo', isSuccess), randKey)
                   /\ disconnects' = IF isSuccess = 1 THEN disconnects
                                     ELSE disconnects \cup {d}
    <3>1. PICK isSuccess \in {0, 1}, randKey \in RandKeys :
             /\ reply' = Encode(Response(accountNo', isSuccess), randKey)
             /\ disconnects' = IF isSuccess = 1 THEN disconnects
                               ELSE disconnects \cup {d}
      BY <2>2
    <3>2. randKey \in Byte
      BY MessageAssumption
    <3>3. MayBeLogin(d)
      BY <1>8, <2>2 DEF MayBeLogin, req
    <3>4. IsLogin(d) \/ Len(data) < 3
      BY <1>4, <1>7, <1>8, <2>2, ShortType DEF IsLogin, req
    <3>5. accountNo' = Account(d)
      BY <1>2, <1>4, <1>6, <1>7, <2>2, <3>4, AccountRead DEF data
    <3>6. \A i \in 1 .. AccountSize : i <= Len(account) => account[i] \in Byte
      <4>1. ASSUME NEW i \in 1 .. AccountSize, i <= Len(account)
            PROVE  account[i] \in Byte
        <5>1. 2 + i \in 1 .. Len(data)
          BY <1>4, <1>7, <4>1, MessageAssumption
        <5> QED
          BY <1>4, <1>7, <4>1, <5>1
      <4> QED
        BY <4>1
    <3>7. accountNo' \in [1 .. AccountSize -> Byte]
      BY <1>6, <2>2, <3>6, OverwrittenBytes
    <3>8. isSuccess = ok
      BY <1>2, <3>1
    <3> DEFINE a == accountNo'
               s == res \o a \o <<isSuccess>>
               p == Response(a, isSuccess)
    <3>9. PICK room \in Nat : PayloadRoom <= room /\ Packing(p, room, s)
      BY <1>6, <3>7, ResponsePacked
    <3>10. s \in Seq(Byte) /\ Len(s) <= PayloadRoom
      <4>1. /\ res \in Seq(Byte) /\ Len(res) = 2 /\ <<isSuccess>> \in Seq(Byte)
            /\ Len(<<isSuccess>>) = 1
        BY DEF en_PACKET_CS_LOGIN_RES_LOGIN, Byte
      <4>2. a \in Seq(Byte) /\ Len(a) = AccountSize
        BY <3>7, MessageAssumption
      <4>3. \A u, v \in Seq(Byte) : u \o v \in Seq(Byte) /\ Len(u \o v) = Len(u) + Len(v)
        OBVIOUS
      <4> DEFINE x == Len(res \o a)
      <4> HIDE DEF a, res
      <4>4. /\ res \o a \in Seq(Byte) /\ x = 2 + AccountSize
        BY <4>1, <4>2, <4>3, Zenon
      <4>5. s \in Seq(Byte) /\ Len(s) = x + 1
        BY <4>1, <4>3, <4>4, Zenon
      <4> HIDE DEF x, s
      <4> QED
        BY <4>4, <4>5, MessageAssumption, RoomAssumption
    <3> HIDE DEF s, p
    <3>11. /\ HasRoom(Encode(p, randKey))
           /\ Decode(Encode(p, randKey)).header.code = dfPACKET_CODE
           /\ ChecksOut(Decode(Encode(p, randKey)))
           /\ SubSeq(Decode(Encode(p, randKey)).bytes, 1,
                     Decode(Encode(p, randKey)).header.len) = s
      BY <3>2, <3>9, <3>10, ReplyDecodes
    <3>12. reply' = Encode(p, randKey)
      BY <3>1 DEF p
    <3>13. s = res \o accountNo' \o <<ok>>
      BY <3>8 DEF s
    <3>14. \A k \in disconnects' : k \in disconnects \/ (k = d /\ MayBeLogin(d))
      BY <3>1, <3>3
    <3>15. HasRoom(packet')
      BY <1>7, <2>2
    <3> QED
      BY <3>5, <3>7, <3>11, <3>12, <3>13, <3>14, <3>15
  <2> QED
    BY <1>10, <2>1, <2>2
<1>13. PcOK'
  BY <1>1 DEF PcOK
<1>14. BufferOK'
  BY <1>1 DEF RecvInv, BufferOK
<1>15. StreamOK'
  <2>1. Stored' = Stored
    BY <1>1 DEF Stored
  <2>2. Receiving
    BY <1>1 DEF Receiving
  <2> QED
    BY <1>1, <1>9, <2>1, <2>2 DEF RecvInv, StreamOK
<1>16. PacketsOK'
  BY <1>1, <1>9, <1>11 DEF PacketsOK, d
<1>17. DeliveredInOrder'
  BY <1>1, DeliveredFrame DEF RecvInv
<1>18. DisconnectedForCause'
  <2>1. ASSUME NEW k \in disconnects'
        PROVE  /\ k \in 1 .. Len(stream)
               /\ \/ k = d + 1 /\ stream[k].kind # "good"
                  \/ k <= d /\ MayBeLogin(k)
    <3>1. CASE k \in disconnects
      BY <3>1 DEF RecvInv, DisconnectedForCause, d
    <3>2. CASE k = d /\ MayBeLogin(d)
      BY <1>2, <3>2
    <3> QED
      BY <1>11, <2>1, <3>1, <3>2
  <2> QED
    BY <1>1, <1>9, <2>1 DEF DisconnectedForCause, d
<1>19. PayloadIntact'
  <2>1. (Account(Len(delivered)))' = accountNo'
    BY <1>1, <1>9, <1>11 DEF d
  <2>2. Len(delivered') = d
    BY <1>1 DEF d
  <2> QED
    BY <1>1, <1>11, <2>1, <2>2 DEF PayloadIntact
<1> QED
  BY <1>13, <1>14, <1>15, <1>16, <1>17, <1>18, <1>19 DEF RecvInv

-----------------------------------------------------------------------------
(* The receive path keeps its invariant, for every buffer size, every set of *)
(* messages, those longer than a packet included, every outcome of a login   *)
(* and every way the kernel cuts the stream.                                 *)
THEOREM RecvInvariant == Spec => []RecvInv
<1>1. ASSUME RecvInv, [Next]_vars
      PROVE  RecvInv'
  <2>1. CASE ClientSend
    BY <1>1, <2>1, ClientSendRecvInv
  <2>2. CASE AcceptRecv
    BY <1>1, <2>2, AcceptRecvRecvInv
  <2>3. CASE Receive
    BY <1>1, <2>3, ReceiveRecvInv
  <2>4. CASE ReceiveNothing
    BY <1>1, <2>4, ReceiveNothingRecvInv
  <2>5. CASE WorkerMoveRear
    BY <1>1, <2>5, MoveRearRecvInv
  <2>6. CASE WorkerParse
    BY <1>1, <2>6, WorkerParseRecvInv
  <2>7. CASE OnRecv
    BY <1>1, <2>7, OnRecvRecvInv
  <2>8. CASE WorkerFree
    BY <1>1, <2>8, WorkerFreeRecvInv
  <2>9. CASE RecvPost
    BY <1>1, <2>9, RecvPostRecvInv
  <2>10. CASE Reuse
    BY <1>1, <2>10, ReuseRecvInv
  <2>11. CASE UNCHANGED vars
    BY <1>1, <2>11, StutterRecvInv
  <2> QED
    BY <1>1, <2>1, <2>2, <2>3, <2>4, <2>5, <2>6, <2>7, <2>8, <2>9, <2>10, <2>11
       DEF Next
<1> QED
  BY <1>1, InitRecvInv, PTL DEF Spec

(* The parse loop takes exactly the client's good messages out of the        *)
(* buffer, whole and in order, and calls OnRecv for them.                    *)
THEOREM MessagesInOrder == Spec => []DeliveredInOrder
<1>1. RecvInv => DeliveredInOrder
  BY DEF RecvInv
<1> QED
  BY <1>1, RecvInvariant, PTL

(* A client is disconnected only for a bad message, or for a delivered one   *)
(* that Login took for a request whose login failed; no receive is posted    *)
(* after either.                                                             *)
THEOREM DisconnectsForCause == Spec => []DisconnectedForCause
<1>1. RecvInv => DisconnectedForCause
  BY DEF RecvInv
<1> QED
  BY <1>1, RecvInvariant, PTL

(* OnRecv reads the payload the client packed, as much of it as a packet     *)
(* holds, and the response decodes to what Login wrote: the outcome of the   *)
(* login, and an account number that has every byte from the last request    *)
(* long enough to have it.                                                   *)
THEOREM PayloadsIntact == Spec => []PayloadIntact
<1>1. RecvInv => PayloadIntact
  BY DEF RecvInv
<1> QED
  BY <1>1, RecvInvariant, PTL

(* MoveRear always moves as far as the kernel transferred. *)
THEOREM NoCrash == Spec => []NeverCrashes
<1>1. RecvInv => NeverCrashes
  BY DEF RecvInv, PcOK, NeverCrashes
<1> QED
  BY <1>1, RecvInvariant, PTL

(* The pieces of a pending WSARecv are the free part of the buffer. *)
THEOREM PiecesFree == Spec => []PiecesAreFree
<1>1. ASSUME RecvInv, pc = "Pending"
      PROVE  /\ \A j \in 1 .. Len(pieces) :
                   /\ pieces[j].len >= 0
                   /\ PieceIndexes(pieces[j]) \subseteq Indexes \ (UsedIndexes \cup {iFront})
             /\ PiecesSize(pieces) = GetFreeSize(iFront, iRear)
  <2> DEFINE b == GetRearBufferPtr(iRear)
             d == DirectEnqueueSize(iFront, iRear)
             use == GetUseSize(iFront, iRear)
             free == GetFreeSize(iFront, iRear)
  <2>1. iFront \in Indexes /\ iRear \in Indexes /\ pieces = FreePieces
    BY <1>1 DEF RecvInv, BufferOK
  <2>2. PiecesSize(pieces) = free
    BY <2>1, PiecesHold
  <2>3. /\ b = IF iRear = iTotalSize - 1 THEN 0 ELSE iRear + 1
        /\ d = IF iFront < b THEN iTotalSize - b ELSE iFront - b
        /\ \/ FreePieces = <<Piece(b, d)>> /\ free = d
           \/ /\ FreePieces = <<Piece(b, d), Piece(0, iFront)>>
              /\ free = d + iFront /\ iFront < b /\ iFront > 0
    BY <2>1, PiecesOf
  <2>4. use \in 0 .. iTotalSize - 1 /\ iRear = Wrapped(iFront + use)
    BY <2>1, UseAndFree DEF GetBufferSize
  <2>5. \A x \in UsedIndexes : \E i \in 1 .. use : x = Wrapped(iFront + i)
    <3>1. ASSUME NEW i \in 1 .. use
          PROVE  (iFront + i) % iTotalSize = Wrapped(iFront + i)
      <4>1. iFront + i \in 0 .. 2 * iTotalSize - 1
        BY <2>1, <2>4, <3>1, SizeAssumption DEF Indexes
      <4> QED
        BY <4>1, ModIsWrapped
    <3> QED
      BY <3>1 DEF UsedIndexes
  <2> HIDE DEF b, d, use, free
  <2>6. ASSUME NEW x \in b .. b + d - 1
        PROVE  x \in Indexes /\ x # iFront /\ x \notin UsedIndexes
    <3>1. x \in Indexes /\ x # iFront
      BY <2>1, <2>3, <2>6, SizeAssumption DEF Indexes
    <3>2. ASSUME NEW i \in 1 .. use
          PROVE  x # Wrapped(iFront + i)
      BY <2>1, <2>3, <2>4, <2>6, <3>2, SizeAssumption DEF Indexes, Wrapped
    <3> QED
      BY <2>5, <3>1, <3>2
  <2>7. ASSUME NEW x \in 0 .. 0 + iFront - 1, iFront < b
        PROVE  x \in Indexes /\ x # iFront /\ x \notin UsedIndexes
    <3>1. x \in Indexes /\ x # iFront
      BY <2>1, <2>7, SizeAssumption DEF Indexes
    <3>2. ASSUME NEW i \in 1 .. use
          PROVE  x # Wrapped(iFront + i)
      BY <2>1, <2>3, <2>4, <2>7, <3>2, SizeAssumption DEF Indexes, Wrapped
    <3> QED
      BY <2>5, <3>1, <3>2
  <2>8. d \in Nat /\ iFront \in Nat
    BY <2>1, <2>3, SizeAssumption DEF Indexes
  <2>9. CASE FreePieces = <<Piece(b, d)>>
    <3>1. Len(pieces) = 1 /\ pieces[1].at = b /\ pieces[1].len = d
      BY <2>1, <2>9 DEF Piece
    <3>2. PieceIndexes(pieces[1]) = b .. b + d - 1
      BY <3>1 DEF PieceIndexes
    <3>3. PieceIndexes(pieces[1]) \subseteq Indexes \ (UsedIndexes \cup {iFront})
      BY <2>6, <3>2
    <3>4. \A j \in 1 .. Len(pieces) : j = 1
      BY <3>1
    <3>5. pieces[1].len >= 0
      BY <2>8, <3>1
    <3> QED
      BY <2>2, <3>3, <3>4, <3>5 DEF free
  <2>10. CASE FreePieces = <<Piece(b, d), Piece(0, iFront)>> /\ iFront < b
    <3>1. /\ Len(pieces) = 2 /\ pieces[1].at = b /\ pieces[1].len = d
          /\ pieces[2].at = 0 /\ pieces[2].len = iFront
      BY <2>1, <2>10 DEF Piece
    <3>2. /\ PieceIndexes(pieces[1]) = b .. b + d - 1
          /\ PieceIndexes(pieces[2]) = 0 .. 0 + iFront - 1
      BY <3>1 DEF PieceIndexes
    <3>3. PieceIndexes(pieces[1]) \subseteq Indexes \ (UsedIndexes \cup {iFront})
      BY <2>6, <3>2
    <3>4. PieceIndexes(pieces[2]) \subseteq Indexes \ (UsedIndexes \cup {iFront})
      BY <2>7, <2>10, <3>2
    <3>5. \A j \in 1 .. Len(pieces) : j = 1 \/ j = 2
      BY <3>1
    <3>6. pieces[1].len >= 0 /\ pieces[2].len >= 0
      BY <2>8, <3>1
    <3> QED
      BY <2>2, <3>3, <3>4, <3>5, <3>6 DEF free
  <2> QED
    BY <2>3, <2>9, <2>10
<1>2. RecvInv => PiecesAreFree
  BY <1>1 DEF PiecesAreFree
<1> QED
  BY <1>2, RecvInvariant, PTL

(* There is room for a byte whenever a WSARecv is pending, if a message fits *)
(* into the buffer.                                                          *)
THEOREM RoomToReceive == Spec => []RecvHasRoom
<1>1. ASSUME RecvInv, pc = "Pending", Header + MaxLen <= GetBufferSize
      PROVE  PiecesSize(pieces) > 0
  <2>1. /\ iFront \in Indexes /\ iRear \in Indexes /\ pieces = FreePieces
        /\ GetUseSize(iFront, iRear) < Header + MaxLen
    BY <1>1 DEF RecvInv, BufferOK, DisconnectedForCause
  <2>2. PiecesSize(pieces) = GetFreeSize(iFront, iRear)
    BY <2>1, PiecesHold
  <2>3. /\ GetUseSize(iFront, iRear) \in 0 .. GetBufferSize
        /\ GetFreeSize(iFront, iRear) = GetBufferSize - GetUseSize(iFront, iRear)
    BY <2>1, UseAndFree
  <2>4. Header + MaxLen \in Nat /\ GetBufferSize \in Nat
    BY MessageAssumption, SizeAssumption DEF GetBufferSize
  <2> QED
    BY <1>1, <2>1, <2>2, <2>3, <2>4
<1>2. RecvInv => RecvHasRoom
  BY <1>1 DEF RecvHasRoom
<1> QED
  BY <1>2, RecvInvariant, PTL
=============================================================================
