------------------------------- MODULE MCAcp --------------------------------
(* Instances of Acp for TLC.                                               *)
EXTENDS Acp, TLC

CONSTANTS n1, n2, sandbox, full

(* Asks and keys are interchangeable: sound where only safety is checked.  *)
Symmetric == Permutations(Asks) \cup Permutations(Keys)
=============================================================================
