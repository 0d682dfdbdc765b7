---------------------------- MODULE MCRemoteLink ----------------------------
(* RemoteLink for TLC.  Ids and commands are interchangeable, so the         *)
(* invariants are checked up to their permutation.                           *)
EXTENDS RemoteLink, TLC

Symmetry == Permutations(Instances) \cup Permutations(Msgs)
=============================================================================
