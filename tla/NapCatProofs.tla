---------------------------- MODULE NapCatProofs ----------------------------
(***************************************************************************)
(* Theorems about NapCatProcess for any number of launches, however the    *)
(* readiness endpoint behaves and whenever processes end.                  *)
(*                                                                         *)
(* RunningIsTracked is inductive given the types.  That at most one        *)
(* process runs needs one fact more: while StopNapCat holds a process that *)
(* it took out of the table, the table stays empty.                        *)
(***************************************************************************)
EXTENDS NapCatProcess, TLAPS

(* StopNapCat's process has left the table, and no other took its place.   *)
TakenAlone == pc = "kill" => processes = Nobody

IInv == TypeOK /\ RunningIsTracked /\ TakenAlone

LEMMA IInvInit == Init => IInv
  BY BoundAssumption DEF Init, IInv, TypeOK, RunningIsTracked, TakenAlone,
                         Procs, Nobody

(* The caller's steps and the waiting goroutines keep the table right.     *)
LEMMA IInvNext == IInv /\ [Next]_vars => IInv'
<1> SUFFICES ASSUME IInv, [Next]_vars PROVE IInv'
  OBVIOUS
<1> USE BoundAssumption DEF IInv, TypeOK, RunningIsTracked, TakenAlone,
                            Procs, Nobody
<1>1. CASE StartSkips
  BY <1>1 DEF StartSkips, vars
<1>2. CASE StartBegins
  BY <1>2 DEF StartBegins
<1>3. CASE StopTake
  BY <1>3 DEF StopTake
<1>4. CASE Tracked
  BY <1>4 DEF Tracked
<1>5. CASE Launch
  (* Nothing runs yet: the table is empty and nothing is taken. *)
  <2>1. \A p \in Procs : state[p] # "running"
    BY <1>5 DEF Launch
  <2>2. /\ processes' = launched + 1 /\ launched' = launched + 1
        /\ launched + 1 \in Procs /\ processes' # Nobody
        /\ state' = [state EXCEPT ![launched + 1] = "running"]
        /\ pc' = "wait" /\ ready' = ready /\ taken' = taken
    BY <1>5 DEF Launch
  <2>3. TypeOK'
    BY <2>2
  <2>4. RunningIsTracked'
    BY <2>1, <2>2
  <2>5. TakenAlone'
    BY <2>2
  <2> QED
    BY <2>3, <2>4, <2>5
<1>6. CASE LaunchFails
  BY <1>6 DEF LaunchFails
<1>7. CASE WaitEnds
  BY <1>7 DEF WaitEnds
<1>8. CASE StopKill
  (* Whatever still ran after the kill would have to be the one killed. *)
  <2>1. /\ taken \in Procs /\ pc' = "idle" /\ taken' = Nobody
        /\ state' = [state EXCEPT ![taken] = IF @ = "running" THEN "dead" ELSE @]
        /\ UNCHANGED <<processes, launched, ready>>
    BY <1>8 DEF StopKill
  <2>2. TypeOK'
    BY <2>1
  <2>3. RunningIsTracked'
    BY <2>1
  <2> QED
    BY <2>1, <2>2, <2>3
<1>9. ASSUME NEW p \in Procs, Wait(p) PROVE IInv'
  BY <1>9 DEF Wait
<1>10. ASSUME NEW p \in Procs, Untrack(p) PROVE IInv'
  BY <1>10 DEF Untrack
<1>11. ASSUME NEW p \in Procs, Dies(p) PROVE IInv'
  BY <1>11 DEF Dies
<1>12. CASE ReadyChanges
  BY <1>12 DEF ReadyChanges
<1>13. CASE UNCHANGED vars
  BY <1>13 DEF vars
<1> QED
  BY <1>1, <1>2, <1>3, <1>4, <1>5, <1>6, <1>7, <1>8, <1>9, <1>10, <1>11,
     <1>12, <1>13 DEF Next, CallSteps, WaiterSteps

(* All of it holds in every reachable state. *)
LEMMA IInvAlways == Spec => []IInv
<1>1. Init => IInv
  BY IInvInit
<1>2. IInv /\ [Next]_vars => IInv'
  BY IInvNext
<1> QED
  BY <1>1, <1>2, PTL DEF Spec

(* The manager's table names a launched process or none, and StopNapCat    *)
(* only kills a process that it took out of the table.                     *)
THEOREM TypeCorrect == Spec => []TypeOK
<1>1. IInv => TypeOK
  BY DEF IInv
<1> QED
  BY <1>1, IInvAlways, PTL

(* A process that runs is in the table or about to be killed: no timeout   *)
(* of waitHTTP and no late waiting goroutine loses it.                     *)
THEOREM RunningAreTracked == Spec => []RunningIsTracked
<1>1. IInv => RunningIsTracked
  BY DEF IInv
<1> QED
  BY <1>1, IInvAlways, PTL

(* StartNapCat never runs a second process beside one that still runs, not *)
(* even while StopNapCat is killing that one.                              *)
THEOREM AtMostOneRuns == Spec => []AtMostOne
<1>1. IInv => AtMostOne
  BY DEF IInv, RunningIsTracked, TakenAlone, AtMostOne, Procs, Nobody
<1> QED
  BY <1>1, IInvAlways, PTL
=============================================================================
