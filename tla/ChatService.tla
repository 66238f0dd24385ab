---------------------------- MODULE ChatService ----------------------------
(***************************************************************************)
(* What the bridge promises about a chat message, without its queues,      *)
(* workers, connectors and restarts: a message waits, then has its chat's  *)
(* session for itself, and is over, answered at most once.                 *)
(***************************************************************************)
CONSTANTS Msgs, KeyOf

VARIABLES phase, answered

vars == <<phase, answered>>

Init == phase = [m \in Msgs |-> "new"] /\ answered = {}

(* The message reaches the bridge. *)
Accept(m) ==
    /\ phase[m] = "new"
    /\ phase' = [phase EXCEPT ![m] = "waiting"]
    /\ UNCHANGED answered

(* It is turned away without having had its session. *)
Drop(m) ==
    /\ phase[m] = "waiting"
    /\ phase' = [phase EXCEPT ![m] = "over"]
    /\ UNCHANGED answered

(* It gets its chat's session. *)
Begin(m) ==
    /\ phase[m] = "waiting"
    /\ \A n \in Msgs : KeyOf[n] = KeyOf[m] => phase[n] # "active"
    /\ phase' = [phase EXCEPT ![m] = "active"]
    /\ UNCHANGED answered

(* It leaves the session, with an answer or without. *)
End(m) ==
    /\ phase[m] = "active"
    /\ phase' = [phase EXCEPT ![m] = "over"]
    /\ answered' \in {answered, answered \cup {m}}

Next == \E m \in Msgs : Accept(m) \/ Drop(m) \/ Begin(m) \/ End(m)

Spec == Init /\ [][Next]_vars
=============================================================================
