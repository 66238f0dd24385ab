--------------------------- MODULE SessionLedger ---------------------------
(***************************************************************************)
(* What the session store promises, without its handlers, its mutexes and  *)
(* the steps of writing a file: for each chat, the Hermes session that its *)
(* next message continues.  A turn is one step, which continues the very   *)
(* session that the ledger has; every change is on disk, or lost there,    *)
(* before the next one; a crash goes back to the disk.  All of that holds  *)
(* until an update of the configuration replaces the store under           *)
(* somebody's hands, and nothing is promised after that.                   *)
(***************************************************************************)
EXTENDS Naturals

CONSTANTS Keys, MaxTurns, MaxIds

VARIABLES ledger, disk, trusted

vars == <<ledger, disk, trusted>>

NoSession == [id |-> 0, turns |-> 0]
Empty == [k \in Keys |-> NoSession]
Torn == <<>>

(* What a start of the program reads from the disk. *)
OnDisk == IF disk = Torn THEN Empty ELSE disk

Init == ledger = Empty /\ disk = Empty /\ trusted = TRUE

(* The ids that a turn may leave in s: its own, or, without one, any that  *)
(* Hermes gives it, 0 being none.                                          *)
Continued(s) == IF s.id = 0 THEN 0 .. MaxIds ELSE {s.id}

(* The session s after one more turn.  The last one makes it start afresh. *)
After(s, id) ==
    IF s.turns + 1 >= MaxTurns THEN NoSession
    ELSE [id |-> id, turns |-> s.turns + 1]

Turn(k) ==
    /\ trusted /\ ledger = OnDisk
    /\ \E id \in Continued(ledger[k]) :
          ledger' = [ledger EXCEPT ![k] = After(ledger[k], id)]
    /\ UNCHANGED <<disk, trusted>>

(* An admin changed what Hermes is told about itself. *)
Reset ==
    /\ trusted /\ ledger = OnDisk
    /\ ledger' = Empty
    /\ UNCHANGED <<disk, trusted>>

(* The file is truncated, and then written. *)
Tear ==
    /\ trusted
    /\ disk' = Torn
    /\ UNCHANGED <<ledger, trusted>>

Save ==
    /\ trusted /\ disk = Torn
    /\ disk' = ledger
    /\ UNCHANGED <<ledger, trusted>>

Crash ==
    /\ trusted
    /\ ledger' = OnDisk
    /\ UNCHANGED <<disk, trusted>>

(* An update of the configuration overlaps other work. *)
Overlap ==
    /\ trusted' = FALSE
    /\ ledger' = Empty /\ disk' = Empty

Next == \/ \E k \in Keys : Turn(k)
        \/ Reset \/ Tear \/ Save \/ Crash \/ Overlap

Spec == Init /\ [][Next]_vars
=============================================================================
