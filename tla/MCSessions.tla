----------------------------- MODULE MCSessions -----------------------------
(* Instances of Sessions for TLC.                                          *)
EXTENDS Sessions, TLC

CONSTANTS w1, w2, k1, k2

(* Handlers are interchangeable; chats are not: AnyKey is one of them. *)
WorkerSymmetry == Permutations(Workers)

(* Two states are the same if they differ only in what nobody reads again: *)
(* the locals that a handler or the "set" has finished with, and stores    *)
(* that nobody refers to.                                                  *)
UsesStore(w) == pc[w] \in {"lock", "get", "run", "put", "putSave", "swap", "clearSave"}
Live == {sessions} \cup {store[w] : w \in {v \in Workers : UsesStore(v)}}
                   \cup (IF set = "swap" THEN {setStore} ELSE {})
View ==
    <<[s \in Live |-> stores[s]],
      [w \in Workers |->
         [pc |-> pc[w], key |-> sessionKey[w],
          store |-> IF UsesStore(w) THEN store[w] ELSE 0,
          session |-> IF pc[w] \in {"run", "put"} THEN session[w] ELSE NoSession,
          since |-> IF pc[w] \in {"lock", "get", "run"} THEN since[w] ELSE 0]],
      IF set = "swap" THEN setStore ELSE 0,
      made, sessions, locked, file, set, sets, ghostVars, overlapped,
      started, crashes>>

(* Bound: of resets, "set" commands and crashes, any two. *)
TwoDisturbances == started + sets + crashes <= 2
=============================================================================
