---------------------------- MODULE MCCNetServer ----------------------------
(***************************************************************************)
(* The instances of CNetServer that TLC checks.  Workers, packets and slots *)
(* are interchangeable; the safety runs use that.                           *)
(***************************************************************************)
EXTENDS CNetServer, TLC

Symmetry == Permutations(Workers) \cup Permutations(Packets) \cup Permutations(Slots)
=============================================================================
