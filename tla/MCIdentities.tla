---------------------------- MODULE MCIdentities ----------------------------
(* Instances of Identities for TLC.                                          *)
EXTENDS Identities, TLC

(* Nothing tells an email, an identity provider or a request from another.   *)
Symmetry == Permutations(Emails) \cup Permutations(Idps) \cup Permutations(Reqs)
=============================================================================
