-------------------------- MODULE MCWebhookRegistry --------------------------
(* WebhookRegistry for TLC: tokens are random, so the states are checked up   *)
(* to their permutation.                                                      *)
EXTENDS WebhookRegistry, TLC

Symmetry == Permutations(Tokens)
=============================================================================
