----------------------------- MODULE CNetPacket -----------------------------
(***************************************************************************)
(* CNetPacket (CNetPacket.cpp): the buffer a message is packed into, sent  *)
(* from, received into and unpacked from, and the code that scrambles the  *)
(* check sum and the payload on the wire.                                  *)
(*                                                                         *)
(* A packet is its header, the bytes behind the header, the two positions  *)
(* counted from the first of those bytes, and _isEncode.  There are        *)
(* PayloadRoom bytes; a packet that was overrun has the memory behind it   *)
(* as well.  The bytes and the constants of the code have their 8 bits.    *)
(* The reference count is in module CNetServer.  MoveReadPos, which has no *)
(* caller, is left out.                                                    *)
(***************************************************************************)
EXTENDS Integers, Sequences

CONSTANT PayloadRoom    \* _cBufferSize - sizeof(NetHeader)

ASSUME RoomAssumption == PayloadRoom \in Nat

Byte == 0 .. 255
dfPACKET_CODE == 119
dfPACKET_KEY == 50

NetHeader(code, len, randKey, chkSum) ==
    [code |-> code, len |-> len, randKey |-> randKey, chkSum |-> chkSum]

HeaderType == [code : Byte, len : Nat, randKey : Byte, chkSum : Byte]
PacketType(room) == [header : HeaderType, bytes : [1 .. room -> Byte],
                     writePos : Nat, readPos : Nat, isEncode : BOOLEAN]

(* the constructor: the bytes of a new buffer are not written yet *)
NewPacket == [header   |-> NetHeader(0, 0, 0, 0),
              bytes    |-> [i \in 1 .. PayloadRoom |-> 0],
              writePos |-> 0,
              readPos  |-> 0,
              isEncode |-> FALSE]

(* a packet that may be in the pool: whatever its bytes, nothing is in it *)
HasRoom(p) ==
    LET room == Len(p.bytes)
    IN  room \in Nat /\ room >= PayloadRoom /\ p \in PacketType(room)
Empty(p) == HasRoom(p) /\ p.writePos = 0 /\ p.readPos = 0 /\ ~p.isEncode

(* Clear, when the last reference is freed: header and bytes stay *)
ClearKeepsReadPos(p) == [p EXCEPT !.writePos = 0, !.isEncode = FALSE]   \* faulty variant
Clear(p) == [p EXCEPT !.writePos = 0, !.readPos = 0, !.isEncode = FALSE]

GetPayloadSize(p) == p.writePos - p.readPos

GetTotalSize(p) == p.writePos

AtMost(n, limit) == IF n > limit THEN limit ELSE n

MoveWritePos(p, size) ==
    [p EXCEPT !.writePos = @ + AtMost(size, PayloadRoom - GetTotalSize(p))]

(* as much of data as there is room for *)
SetData(p, data) ==
    LET size == AtMost(Len(data), PayloadRoom - GetTotalSize(p))
    IN  [p EXCEPT !.bytes = [i \in DOMAIN @ |->
                               IF i \in p.writePos + 1 .. p.writePos + size
                               THEN data[i - p.writePos] ELSE @[i]],
                  !.writePos = @ + size]

(* what GetData and operator>> copy out, and the packet afterwards *)
Data(p, size) == SubSeq(p.bytes, p.readPos + 1,
                        p.readPos + AtMost(size, GetPayloadSize(p)))

GetData(p, size) == [p EXCEPT !.readPos = @ + AtMost(size, GetPayloadSize(p))]

(* operator<< of a value with the given bytes, operator>> of one with so many; *)
(* the twelve overloads of each differ in the number of bytes                  *)
StreamIn(p, val) == SetData(p, val)

StreamOut(p, size) == GetData(p, size)

-----------------------------------------------------------------------------
(* The code.  Positions of the scrambled bytes start at the check sum, and   *)
(* cnt of the source is that position.                                       *)

Xor == [a \in Byte |-> [b \in Byte |->
          LET f[i \in 0 .. 8] ==   \* the bits of a and b from bit i on
                IF i = 8 THEN 0
                ELSE ((a \div 2^i + b \div 2^i) % 2) + 2 * f[i + 1]
          IN  f[0]]]

CheckSum(bytes, len) ==
    LET sumVal[i \in 0 .. len] == IF i = 0 THEN 0 ELSE sumVal[i - 1] + bytes[i]
    IN  sumVal[len] % 256

(* x[i] from s[i], the step before (befRk, befPk) and a key *)
Scrambled(s, before, key, cnt) == Xor[s][(before + key + cnt) % 256]

(* the scrambled form of the bytes s[1 .. n] *)
EncodeBytes(s, n, randKey) ==
    LET rk[i \in 0 .. n] == IF i = 0 THEN 0
                            ELSE Scrambled(s[i], rk[i - 1], randKey, i)
        pk[i \in 0 .. n] == IF i = 0 THEN 0
                            ELSE Scrambled(rk[i], pk[i - 1], dfPACKET_KEY, i)
    IN  [i \in 1 .. n |-> pk[i]]

(* and back: tmp is rk, and befRk of Decode is the byte before it was decoded *)
DecodeBytesNoKeyChain(s, n, randKey) ==   \* faulty variant
    LET tmp == [i \in 0 .. n |-> IF i = 0 THEN 0
                                 ELSE Scrambled(s[i], 0, dfPACKET_KEY, i)]
    IN  [i \in 1 .. n |-> Scrambled(tmp[i], tmp[i - 1], randKey, i)]

DecodeBytes(s, n, randKey) ==
    LET tmp == [i \in 0 .. n |->
                  IF i = 0 THEN 0
                  ELSE Scrambled(s[i], IF i = 1 THEN 0 ELSE s[i - 1],
                                 dfPACKET_KEY, i)]
    IN  [i \in 1 .. n |-> Scrambled(tmp[i], tmp[i - 1], randKey, i)]

(* the check sum and the bytes behind it, and the packet with others there *)
CodedPart(p) == <<p.header.chkSum>> \o p.bytes

WithCodedPart(p, s) ==
    [p EXCEPT !.header.chkSum = s[1],
              !.bytes = [i \in DOMAIN @ |->
                           IF i < Len(s) THEN s[i + 1] ELSE @[i]]]

(* Encode with the given random key: nothing happens the second time *)
Encode(p, randKey) ==
    LET len    == GetPayloadSize(p)
        header == NetHeader(dfPACKET_CODE, len, randKey, CheckSum(p.bytes, len))
        q      == [p EXCEPT !.isEncode = TRUE, !.header = header]
    IN  IF p.isEncode THEN p
        ELSE WithCodedPart(q, EncodeBytes(CodedPart(q), len + 1, randKey))

(* Decode in place, and whether it then finds the check sum right *)
Decode(p) == WithCodedPart(p, DecodeBytes(CodedPart(p), p.header.len + 1,
                                          p.header.randKey))

ChecksOut(p) == p.header.chkSum = CheckSum(p.bytes, p.header.len)
=============================================================================
