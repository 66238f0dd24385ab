------------------------------ MODULE MCBridge ------------------------------
(* An instance of Bridge for TLC: two generations, that is one restart, and *)
(* two messages of one chat, which contend for its session.                *)
EXTENDS Bridge, TLC

CONSTANTS m1, m2, k1

MCKeyOf1 == m1 :> k1
MCKeyOf == m1 :> k1 @@ m2 :> k1
=============================================================================
