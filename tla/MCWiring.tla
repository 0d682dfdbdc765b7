------------------------------ MODULE MCWiring ------------------------------
(* Instances of Wiring for TLC.                                              *)
EXTENDS Wiring, TLC

(* Nothing tells one install from another, nor providers that have neither a *)
(* router nor a configuration.                                               *)
Symmetry == Permutations(Providers \ (Public \cup Configurable)) \cup Permutations(Installs)
=============================================================================
