--------------------------- MODULE HermesService ----------------------------
(***************************************************************************)
(* What the persistent Hermes backend promises its callers, without its    *)
(* pool, its pending calls, its locks and its timers.                      *)
(*                                                                         *)
(* An ask is given a process of its own key that has not ended and that no *)
(* failed ask used.  It waits, talks in that process with nobody beside    *)
(* it, and is done with an answer, or fails; an ask that fails in a        *)
(* process that another one launched ends that process.  A process may end *)
(* at any time.                                                            *)
(***************************************************************************)
CONSTANTS Asks, None, Keys

VARIABLES
    phase,   \* idle, waiting, talking, failing; done, failed
    key,     \* the pool key of each ask
    home,    \* its process, named after the ask that launched it
    gone,    \* processes that were stopped or ended
    left,    \* asks that took silence for the end of their answer
    reply    \* the prompts that the text of its answer belongs to

vars == <<phase, key, home, gone, left, reply>>

Init ==
    /\ phase = [n \in Asks |-> "idle"] /\ key \in [Asks -> Keys]
    /\ home = [n \in Asks |-> None] /\ gone = {} /\ left = {}
    /\ reply = [n \in Asks |-> {}]

Goto(n, from, to) == phase[n] = from /\ phase' = [phase EXCEPT ![n] = to]

OfFailed == {home[n] : n \in {m \in Asks : phase[m] = "failed"}}

Admit(n) ==
    /\ Goto(n, "idle", "waiting")
    /\ \E p \in Asks \ (gone \cup OfFailed) :
          key[p] = key[n] /\ home' = [home EXCEPT ![n] = p]
    /\ UNCHANGED <<key, gone, left, reply>>

Begin(n) ==
    /\ Goto(n, "waiting", "talking")
    /\ home[n] \notin gone
    /\ \A m \in Asks : phase[m] = "talking" => home[m] # home[n]
    /\ UNCHANGED <<key, home, gone, left, reply>>

(* The answer has text: its own, or that of an ask that did not wait for   *)
(* the end of its answer.                                                  *)
TakeReply(n) ==
    \E text \in SUBSET ({n} \cup left') :
        text # {} /\ reply' = [reply EXCEPT ![n] = text]

Answer(n) ==
    /\ Goto(n, "talking", "done")
    /\ left' \in {left, left \cup {n}}
    /\ TakeReply(n)
    /\ UNCHANGED <<key, home, gone>>

(* A timeout ends the process at once. *)
GiveUp(n) ==
    /\ Goto(n, "waiting", "failing") \/ Goto(n, "talking", "failing")
    /\ gone' \in {gone, gone \cup {home[n]}}
    /\ UNCHANGED <<key, home, left, reply>>

Fail(n) ==
    /\ Goto(n, "failing", "failed")
    /\ \/ gone' = gone \cup {home[n]}
       \/ home[n] = n /\ gone' = gone
    /\ UNCHANGED <<key, home, left, reply>>

End(p) ==
    /\ gone' = gone \cup {p}
    /\ UNCHANGED <<phase, key, home, left, reply>>

Next ==
    \E n \in Asks : \/ Admit(n) \/ Begin(n) \/ Answer(n)
                    \/ GiveUp(n) \/ Fail(n) \/ End(n)

Spec == Init /\ [][Next]_vars
=============================================================================
