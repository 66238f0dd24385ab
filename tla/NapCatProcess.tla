--------------------------- MODULE NapCatProcess ---------------------------
(***************************************************************************)
(* The manager of the NapCat process (internal/process/manager.go): its    *)
(* one caller, who starts and stops NapCat, the goroutine that waits for   *)
(* each process it launched, and the readiness endpoint, which may also be *)
(* served by a NapCat that was started by somebody else.                   *)
(***************************************************************************)
EXTENDS Naturals

CONSTANTS
    MaxLaunches,   \* bound: processes ever launched
    AutoStart,     \* processes.napcat.auto_start
    WaitsForHTTP   \* processes.napcat.wait_http is configured

ASSUME BoundAssumption == MaxLaunches \in Nat \ {0}
ASSUME ConfigAssumption == AutoStart \in BOOLEAN /\ WaitsForHTTP \in BOOLEAN

VARIABLES
    processes,   \* m.processes["napcat"], 0 for no entry
    launched,    \* processes launched so far
    state,       \* each process: not launched, running, dead, waited for
    ready,       \* the readiness endpoint answers
    pc,          \* where the caller is
    taken        \* the process StopNapCat has taken out of the table

vars == <<processes, launched, state, ready, pc, taken>>

Nobody == 0
Procs == 1 .. MaxLaunches

Init ==
    /\ processes = Nobody /\ launched = 0
    /\ state = [p \in Procs |-> "none"]
    /\ ready \in BOOLEAN
    /\ pc = "idle" /\ taken = Nobody

-----------------------------------------------------------------------------
(* StartNapCat *)

(* Nothing to do: NapCat answers already, or is not to be launched. *)
StartSkips ==
    /\ pc = "idle"
    /\ (WaitsForHTTP /\ ready) \/ ~AutoStart
    /\ UNCHANGED vars

(* The endpoint does not answer and NapCat is to be launched. *)
StartBegins ==
    /\ pc = "idle" /\ AutoStart
    /\ ~(WaitsForHTTP /\ ready)
    /\ pc' = "launch"
    /\ UNCHANGED <<processes, launched, state, ready, taken>>

(* The section under m.mu finds a process in the table, *)
Tracked ==
    /\ pc = "launch" /\ processes # Nobody
    /\ pc' = "wait"
    /\ UNCHANGED <<processes, launched, state, ready, taken>>

(* or launches one and puts it there, *)
Launch ==
    /\ pc = "launch" /\ processes = Nobody /\ launched < MaxLaunches
    /\ launched' = launched + 1
    /\ processes' = launched + 1
    /\ state' = [state EXCEPT ![launched + 1] = "running"]
    /\ pc' = "wait"
    /\ UNCHANGED <<ready, taken>>

(* or cannot launch it. *)
LaunchFails ==
    /\ pc = "launch" /\ processes = Nobody
    /\ pc' = "idle"
    /\ UNCHANGED <<processes, launched, state, ready, taken>>

(* A faulty variant of WaitEnds: there is no timeout. *)
WaitForReady ==
    /\ pc = "wait"
    /\ ~WaitsForHTTP \/ ready
    /\ pc' = "idle"
    /\ UNCHANGED <<processes, launched, state, ready, taken>>

(* waitHTTP returns: there is nothing to wait for, the endpoint answered,  *)
(* or the timeout passed, which leaves a launched process running.         *)
WaitEnds ==
    /\ pc = "wait"
    /\ pc' = "idle"
    /\ UNCHANGED <<processes, launched, state, ready, taken>>

-----------------------------------------------------------------------------
(* StopNapCat *)

(* The section under m.mu. *)
StopTake ==
    /\ pc = "idle" /\ processes # Nobody
    /\ taken' = processes
    /\ processes' = Nobody
    /\ pc' = "kill"
    /\ UNCHANGED <<launched, state, ready>>

(* Process.Kill; on a process that has been waited for it is an error. *)
StopKill ==
    /\ pc = "kill"
    /\ state' = [state EXCEPT ![taken] = IF @ = "running" THEN "dead" ELSE @]
    /\ taken' = Nobody
    /\ pc' = "idle"
    /\ UNCHANGED <<processes, launched, ready>>

-----------------------------------------------------------------------------
(* The goroutine that waits for a process, and the environment. *)

(* cmd.Wait returns. *)
Wait(p) ==
    /\ state[p] = "dead"
    /\ state' = [state EXCEPT ![p] = "waited"]
    /\ UNCHANGED <<processes, launched, ready, pc, taken>>

(* A faulty variant of Untrack: whatever is in the table is deleted. *)
UntrackAny(p) ==
    /\ state[p] = "waited"
    /\ state' = [state EXCEPT ![p] = "gone"]
    /\ processes' = Nobody
    /\ UNCHANGED <<launched, ready, pc, taken>>

(* A faulty variant of Untrack: the entry stays. *)
UntrackNothing(p) ==
    /\ state[p] = "waited"
    /\ state' = [state EXCEPT ![p] = "gone"]
    /\ UNCHANGED <<processes, launched, ready, pc, taken>>

(* The section under m.mu: the entry is deleted if it is still this one. *)
Untrack(p) ==
    /\ state[p] = "waited"
    /\ state' = [state EXCEPT ![p] = "gone"]
    /\ processes' = IF processes = p THEN Nobody ELSE processes
    /\ UNCHANGED <<launched, ready, pc, taken>>

(* A process ends by itself. *)
Dies(p) ==
    /\ state[p] = "running"
    /\ state' = [state EXCEPT ![p] = "dead"]
    /\ UNCHANGED <<processes, launched, ready, pc, taken>>

(* The endpoint comes up or goes away. *)
ReadyChanges ==
    /\ ready' = ~ready
    /\ UNCHANGED <<processes, launched, state, pc, taken>>

CallSteps == Tracked \/ Launch \/ LaunchFails \/ WaitEnds \/ StopKill
WaiterSteps(p) == Wait(p) \/ Untrack(p)

Next ==
    \/ StartSkips \/ StartBegins \/ StopTake \/ CallSteps
    \/ \E p \in Procs : WaiterSteps(p) \/ Dies(p)
    \/ ReadyChanges

Spec == Init /\ [][Next]_vars

-----------------------------------------------------------------------------
(* Properties. *)

TypeOK ==
    /\ processes \in 0 .. MaxLaunches /\ launched \in 0 .. MaxLaunches
    /\ state \in [Procs -> {"none", "running", "dead", "waited", "gone"}]
    /\ \A p \in Procs : state[p] # "none" <=> p <= launched
    /\ ready \in BOOLEAN
    /\ pc \in {"idle", "launch", "wait", "kill"}
    /\ taken \in 0 .. MaxLaunches
    /\ pc = "kill" => taken # Nobody

(* A running process is in the table, or StopNapCat is about to kill it:   *)
(* the goroutine that waits for an old process does not delete the entry   *)
(* of a new one, and a wait that timed out loses nothing.                *)
RunningIsTracked ==
    \A p \in Procs :
        state[p] = "running" => processes = p \/ (pc = "kill" /\ taken = p)

(* Two NapCats, which would share one QQ account, never run at once, not   *)
(* even when a Start follows one that timed out, or StopNapCat is killing  *)
(* the old one (the check of m.processes under m.mu).                      *)
AtMostOne ==
    \A p, q \in Procs : state[p] = "running" /\ state[q] = "running" => p = q

(* The entry of a process that ended is deleted in the end, so that a      *)
(* later Start launches another.                                           *)
DeadIsUntracked ==
    \A p \in Procs :
        (processes = p /\ state[p] # "running") ~> (processes # p)
=============================================================================
