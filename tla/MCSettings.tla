----------------------------- MODULE MCSettings -----------------------------
(* Instances of Settings for TLC. *)
EXTENDS Settings, TLC

CONSTANTS w1, w2, u1, u2, t0, t1

Handlers == Permutations(Workers)
=============================================================================
