----------------------------- MODULE MCRecvPath -----------------------------
(***************************************************************************)
(* The messages and keys with which TLC checks RecvPath: no payload, one   *)
(* too short for a type, logins without all bytes of an account, with      *)
(* them, and longer than a packet; bytes on both sides of the sign bit,    *)
(* keys that make the sums of the code carry.                              *)
(***************************************************************************)
EXTENDS RecvPath

Sample(payload, randKey) == [payload |-> payload, randKey |-> randKey]

MCSamples == {Sample(<< >>, 255),
              Sample(<<128>>, 77),
              Sample(<<101, 0, 200>>, 206),
              Sample(<<101, 0, 127, 1, 255>>, 131),
              Sample(<<101, 0, 3, 254, 9, 128>>, 18)}

(* a packet that held another response *)
MCFreePackets == {Clear(Encode(SetData(NewPacket, <<102, 0, 7>>), 5))}

MCRandKeys == {173}
=============================================================================
