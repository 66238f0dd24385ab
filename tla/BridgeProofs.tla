---------------------------- MODULE BridgeProofs ----------------------------
(***************************************************************************)
(* Theorems about Bridge for any number of messages, chats and restarts,   *)
(* and any queue capacity.                                                 *)
(*                                                                         *)
(* TypeOK is not inductive: what a goroutine holds depends on where it is  *)
(* (Locals).  With both, these are: LockHeld, from which two workers are   *)
(* never in the same chat's session; InService, from which a running       *)
(* bridge is served; Connected, who answers for each connection; Placed,   *)
(* that a live message is in one place at most; and Turned.  LockHeld and  *)
(* Placed give the refinement of ChatService.  The converses of the two    *)
(* are MutexIsInUse, that a mutex is held by a worker in that session, and *)
(* Followed, that a live message is in some place.                         *)
(***************************************************************************)
EXTENDS Bridge, TLAPS

(* The local variables that the next step of the operator, of a readLoop  *)
(* and of a worker will use are set.                                      *)
PromptLocals ==
    /\ prompt \in {"startNapCat", "startConn"} => opened \in Gens
    /\ prompt = "stopClose" => taken.conn \in Gens
ReaderLocals ==
    \A g \in Gens :
        /\ reader[g] \in {"lookup", "send"} => reading[g] \in Msgs
        /\ reader[g] = "send" => target[g] \in Gens
WorkerLocals ==
    \A g \in Gens :
        worker[g] \in {"check", "lock", "run", "held", "send"} => handling[g] \in Msgs

Prompt == PromptType /\ PromptLocals
Reader == ReaderType /\ ReaderLocals
Worker == WorkerType /\ WorkerLocals
Typed == FlagType /\ ServiceType /\ Prompt /\ Reader /\ Worker /\ MessageType

(* A worker that is inside a session holds that session's mutex. *)
LockHeld ==
    \A g \in Gens : InSession(g) => sessionLock[KeyOf[handling[g]]] = g

(* Cancel functions belong to generations that were made, Stop works only  *)
(* on a bridge it has marked as stopped, and Start only on one it has      *)
(* marked as running.                                                      *)
InService ==
    /\ \A g \in cancelled : g <= opened
    /\ workerCancel <= opened /\ taken.cancel <= opened
    /\ prompt \notin {"ready", "startNapCat", "startConn"} => ~running
    /\ running => opened # Nil
    /\ RunningServed

LEMMA GenTypes == GenOrNil = Gens \cup {Nil} /\ Nil \notin Gens
  BY BoundAssumption DEF Gens, GenOrNil, Nil

-----------------------------------------------------------------------------
(* Type correctness. *)

LEMMA TypedInit == Init => Typed
<1> SUFFICES ASSUME Init PROVE Typed
  OBVIOUS
<1> USE DEF Init
<1>1. ServiceType
  BY GenTypes DEF ServiceType, Nil
<1>7. FlagType
  BY DEF FlagType
<1>2. Prompt
  <2>1. taken \in [conn : GenOrNil, cancel : GenOrNil]
    BY GenTypes DEF Nothing
  <2>2. QED
    BY <2>1 DEF Prompt, PromptType, PromptLocals, PromptPC
<1>3. Reader
  <2>1. target \in [Gens -> GenOrNil]
    BY GenTypes
  <2>2. QED
    BY <2>1 DEF Reader, ReaderType, ReaderLocals, ReaderPC
<1>4. Worker
  BY GenTypes DEF Worker, WorkerType, WorkerLocals, WorkerPC
<1>5. MessageType
  BY GenTypes, BoundAssumption DEF MessageType, Fates
<1>6. QED
  BY <1>1, <1>2, <1>3, <1>4, <1>5, <1>7 DEF Typed

(* A step that leaves a group of variables alone leaves its part of Typed. *)
LEMMA Frame ==
    /\ FlagType /\ UNCHANGED <<running, quitting, child>> => FlagType'
    /\ ServiceType /\ UNCHANGED serviceVars => ServiceType'
    /\ Prompt /\ UNCHANGED <<prompt, taken, opened>> => Prompt'
    /\ Reader /\ UNCHANGED readerVars => Reader'
    /\ Worker /\ UNCHANGED workerVars => Worker'
    /\ MessageType /\ UNCHANGED messageVars => MessageType'
<1>1. ServiceType /\ UNCHANGED serviceVars => ServiceType'
  BY DEF ServiceType, serviceVars
<1>2. Prompt /\ UNCHANGED <<prompt, taken, opened>> => Prompt'
  BY DEF Prompt, PromptType, PromptLocals
<1>3. Reader /\ UNCHANGED readerVars => Reader'
  BY DEF Reader, ReaderType, ReaderLocals, readerVars
<1>4. Worker /\ UNCHANGED workerVars => Worker'
  BY DEF Worker, WorkerType, WorkerLocals, workerVars
<1>5. MessageType /\ UNCHANGED messageVars => MessageType'
  BY DEF MessageType, messageVars
<1>6. FlagType /\ UNCHANGED <<running, quitting, child>> => FlagType'
  BY DEF FlagType
<1>7. QED
  BY <1>1, <1>2, <1>3, <1>4, <1>5, <1>6

(* Every action keeps Typed; its proof names the groups that it changes.  *)
LEMMA TypedNext == Typed /\ [Next]_vars => Typed'
<1> SUFFICES ASSUME Typed, [Next]_vars PROVE Typed'
  OBVIOUS
<1> USE DEF vars, serviceVars, promptVars, readerVars, workerVars, messageVars
<1>1. CASE StartAgain
  <2> USE <1>1 DEF StartAgain
  <2> QED
    BY Frame DEF Typed
<1>2. CASE StartNotReady
  <2> USE <1>2 DEF StartNotReady
  <2>1. ServiceType'
    BY GenTypes DEF Typed, ServiceType
  <2>2. QED
    BY <2>1, Frame DEF Typed
<1>3. CASE StartOpen
  <2> USE <1>3 DEF StartOpen
  <2>1. FlagType'
    BY GenTypes DEF Typed, FlagType
  <2>2. ServiceType'
    <3>1. opened + 1 \in Gens
      BY BoundAssumption DEF Typed, ServiceType, Gens, GenOrNil
    <3>2. QED
      BY <3>1, GenTypes DEF Typed, ServiceType
  <2>3. Prompt'
    <3>1. opened + 1 \in Gens
      BY BoundAssumption DEF Typed, ServiceType, Gens, GenOrNil
    <3>2. QED
      BY <3>1 DEF Typed, Prompt, PromptType, PromptLocals, PromptPC
  <2>4. Worker'
    BY GenTypes DEF Typed, Worker, WorkerType, WorkerLocals, WorkerPC
  <2>5. QED
    BY <2>1, <2>2, <2>3, <2>4, Frame DEF Typed
<1>4. CASE StartNapCatOk
  <2> USE <1>4 DEF StartNapCatOk
  <2>1. FlagType'
    BY GenTypes DEF Typed, FlagType
  <2>2. Prompt'
    BY GenTypes DEF Typed, ServiceType, Prompt, PromptType, PromptLocals, PromptPC
  <2>3. QED
    BY <2>1, <2>2, Frame DEF Typed
<1>5. CASE StartNapCatFails
  <2> USE <1>5 DEF StartNapCatFails
  <2>1. FlagType'
    BY GenTypes DEF Typed, FlagType
  <2>2. ServiceType'
    BY GenTypes DEF Typed, ServiceType
  <2>3. Prompt'
    BY GenTypes DEF Typed, ServiceType, Prompt, PromptType, PromptLocals, PromptPC
  <2>4. Worker'
    BY GenTypes DEF Typed, ServiceType, Worker, WorkerType, WorkerLocals
  <2>5. QED
    BY <2>1, <2>2, <2>3, <2>4, Frame DEF Typed
<1>6. CASE StartConnOk
  <2> USE <1>6 DEF StartConnOk
  <2>1. Prompt'
    BY GenTypes DEF Typed, ServiceType, Prompt, PromptType, PromptLocals, PromptPC
  <2>2. Reader'
    <3>1. opened \in Gens
      BY DEF Typed, Prompt, PromptLocals
    <3>2. QED
      BY <3>1 DEF Typed, Reader, ReaderType, ReaderLocals, ReaderPC
  <2>3. QED
    BY <2>1, <2>2, Frame DEF Typed
<1>7. CASE StartConnFails
  <2> USE <1>7 DEF StartConnFails
  <2>1. FlagType'
    BY GenTypes DEF Typed, FlagType
  <2>2. ServiceType'
    BY GenTypes DEF Typed, ServiceType
  <2>3. Prompt'
    BY GenTypes DEF Typed, ServiceType, Prompt, PromptType, PromptLocals, PromptPC
  <2>4. QED
    BY <2>1, <2>2, <2>3, Frame DEF Typed
<1>8. ASSUME NEW quit \in Quits, StopTake(quit) PROVE Typed'
  <2> USE <1>8 DEF StopTake
  <2>1. FlagType'
    BY BoundAssumption DEF Typed, FlagType
  <2>2. ServiceType'
    BY GenTypes DEF Typed, ServiceType
  <2>3. Prompt'
    BY GenTypes DEF Typed, ServiceType, Prompt, PromptType, PromptLocals, PromptPC
  <2>4. QED
    BY <2>1, <2>2, <2>3, Frame DEF Typed
<1>9. CASE StopCancel
  <2> USE <1>9 DEF StopCancel
  <2>1. Prompt'
    BY GenTypes DEF Typed, ServiceType, Prompt, PromptType, PromptLocals, PromptPC
  <2>2. Worker'
    BY GenTypes DEF Typed, Prompt, PromptType, Worker, WorkerType, WorkerLocals
  <2>3. QED
    BY <2>1, <2>2, Frame DEF Typed
<1>10. CASE StopConn
  <2> USE <1>10 DEF StopConn, Nothing
  <2>1. Prompt'
    <3>1. taken' \in [conn : GenOrNil, cancel : GenOrNil]
      BY GenTypes DEF Typed, Prompt, PromptType
    <3>2. prompt' = "stopClose" => taken'.conn \in Gens
      BY DEF Typed, Reader, ReaderType
    <3>3. QED
      BY <3>1, <3>2 DEF Typed, Prompt, PromptType, PromptLocals, PromptPC
  <2>2. Reader'
    BY GenTypes DEF Typed, Reader, ReaderType, ReaderLocals, ReaderPC
  <2>3. QED
    BY <2>1, <2>2, Frame DEF Typed
<1>11. CASE StopClose
  <2> USE <1>11 DEF StopClose, Nothing, AfterStop
  <2>1. Prompt'
    BY GenTypes DEF Typed, ServiceType, Prompt, PromptType, PromptLocals, PromptPC
  <2>2. Reader'
    BY GenTypes DEF Typed, Reader, ReaderType, ReaderLocals, ReaderPC
  <2>3. QED
    BY <2>1, <2>2, Frame DEF Typed
<1>12. CASE StopNapCat
  <2> USE <1>12 DEF StopNapCat, AfterStop
  <2>1. FlagType'
    BY GenTypes DEF Typed, FlagType
  <2>2. Prompt'
    BY GenTypes DEF Typed, ServiceType, Prompt, PromptType, PromptLocals, PromptPC
  <2>3. QED
    BY <2>1, <2>2, Frame DEF Typed
<1>13. CASE StopCloseACP
  <2> USE <1>13 DEF StopCloseACP, AfterStop
  <2>1. Prompt'
    BY GenTypes DEF Typed, ServiceType, Prompt, PromptType, PromptLocals, PromptPC
  <2>2. QED
    BY <2>1, Frame DEF Typed
<1>14. ASSUME NEW g \in Gens, NEW m \in Msgs, ReaderRead(g, m) PROVE Typed'
  <2> USE <1>14 DEF ReaderRead
  <2>1. Reader'
    BY GenTypes DEF Typed, Reader, ReaderType, ReaderLocals, ReaderPC
  <2>2. MessageType'
    BY GenTypes DEF Typed, MessageType, Fates
  <2>3. QED
    BY <2>1, <2>2, Frame DEF Typed
<1>15. ASSUME NEW g \in Gens, EnqueueNoQueue(g) PROVE Typed'
  <2> USE <1>15 DEF EnqueueNoQueue, ReaderNext
  <2>1. Reader'
    BY GenTypes DEF Typed, Reader, ReaderType, ReaderLocals, ReaderPC
  <2>2. MessageType'
    BY GenTypes DEF Typed, MessageType, Fates
  <2>3. QED
    BY <2>1, <2>2, Frame DEF Typed
<1>16. ASSUME NEW g \in Gens, EnqueueLookup(g) PROVE Typed'
  <2> USE <1>16 DEF EnqueueLookup
  <2>1. Reader'
    BY GenTypes DEF Typed, ServiceType, Reader, ReaderType, ReaderLocals, ReaderPC
  <2>2. QED
    BY <2>1, Frame DEF Typed
<1>17. ASSUME NEW g \in Gens, EnqueueSend(g) PROVE Typed'
  <2> USE <1>17 DEF EnqueueSend, ReaderNext
  <2>1. Reader'
    BY GenTypes DEF Typed, Reader, ReaderType, ReaderLocals, ReaderPC
  <2>2. MessageType'
    <3>1. g \in Gens /\ reader[g] = "send"
      OBVIOUS
    <3>2. reading[g] \in Msgs /\ target[g] \in Gens
      <4> HIDE <1>17
      <4> QED BY <3>1 DEF Typed, Reader, ReaderLocals
    <3>3. CASE Len(queue[target[g]]) < QueueCap
      <4> DEFINE q == Append(queue[target[g]], reading[g])
      <4>1. q \in Seq(Msgs) /\ Len(q) <= QueueCap
        <5> HIDE <1>17
        <5> QED BY <3>2, <3>3, BoundAssumption DEF Typed, MessageType
      <4>2. queue' = [queue EXCEPT ![target[g]] = q] /\ fate' = fate /\ readBy' = readBy
        BY <3>3
      <4> HIDE <1>17 DEF q
      <4>3. QED
        BY <4>1, <4>2 DEF Typed, MessageType
    <3>4. CASE ~(Len(queue[target[g]]) < QueueCap)
      BY <3>4 DEF Typed, MessageType, Fates
    <3>5. QED
      BY <3>3, <3>4
  <2>3. QED
    BY <2>1, <2>2, Frame DEF Typed
<1>18. ASSUME NEW g \in Gens, ReaderFails(g) PROVE Typed'
  <2> USE <1>18 DEF ReaderFails
  <2>1. Reader'
    BY GenTypes DEF Typed, Reader, ReaderType, ReaderLocals, ReaderPC
  <2>2. QED
    BY <2>1, Frame DEF Typed
<1>19. ASSUME NEW g \in Gens, ReaderRelease(g) PROVE Typed'
  <2> USE <1>19 DEF ReaderRelease
  <2>1. Reader'
    BY GenTypes DEF Typed, Reader, ReaderType, ReaderLocals, ReaderPC
  <2>2. QED
    BY <2>1, Frame DEF Typed
<1>20. ASSUME NEW g \in Gens, ReaderClose(g) PROVE Typed'
  <2> USE <1>20 DEF ReaderClose
  <2>1. Reader'
    BY GenTypes DEF Typed, Reader, ReaderType, ReaderLocals, ReaderPC
  <2>2. QED
    BY <2>1, Frame DEF Typed
<1>21. ASSUME NEW g \in Gens, WorkerExit(g) PROVE Typed'
  <2> USE <1>21 DEF WorkerExit
  <2>1. Worker'
    BY GenTypes DEF Typed, Worker, WorkerType, WorkerLocals, WorkerPC
  <2>2. QED
    BY <2>1, Frame DEF Typed
<1>22. ASSUME NEW g \in Gens, WorkerTake(g) PROVE Typed'
  <2> USE <1>22 DEF WorkerTake
  <2>1. Worker'
    <3>1. Head(queue[g]) \in Msgs
      BY DEF Typed, MessageType
    <3>2. QED
      BY <3>1 DEF Typed, Worker, WorkerType, WorkerLocals, WorkerPC
  <2>2. MessageType'
    <3>1. Tail(queue[g]) \in Seq(Msgs) /\ Len(Tail(queue[g])) <= QueueCap
      BY BoundAssumption DEF Typed, MessageType
    <3>2. QED
      BY <3>1 DEF Typed, MessageType
  <2>3. QED
    BY <2>1, <2>2, Frame DEF Typed
<1>23. ASSUME NEW g \in Gens, HandleSkip(g) PROVE Typed'
  <2> USE <1>23 DEF HandleSkip, Finish
  <2>1. Worker'
    BY GenTypes DEF Typed, Worker, WorkerType, WorkerLocals, WorkerPC
  <2>2. MessageType'
    BY GenTypes DEF Typed, MessageType, Fates
  <2>3. QED
    BY <2>1, <2>2, Frame DEF Typed
<1>24. ASSUME NEW g \in Gens, HandleSnapshot(g) PROVE Typed'
  <2> USE <1>24 DEF HandleSnapshot
  <2>1. Worker'
    BY GenTypes DEF Typed, Worker, WorkerType, WorkerLocals, WorkerPC
  <2>2. QED
    BY <2>1, Frame DEF Typed
<1>25. ASSUME NEW g \in Gens, LockSession(g) PROVE Typed'
  <2> USE <1>25 DEF LockSession
  <2>1. Worker'
    BY GenTypes DEF Typed, Worker, WorkerType, WorkerLocals, WorkerPC
  <2>2. QED
    BY <2>1, Frame DEF Typed
<1>26. ASSUME NEW g \in Gens, HandleSilent(g) PROVE Typed'
  <2> USE <1>26 DEF HandleSilent, Finish, Unlock
  <2>1. Worker'
    BY GenTypes DEF Typed, Worker, WorkerType, WorkerLocals, WorkerPC
  <2>2. MessageType'
    BY GenTypes DEF Typed, MessageType, Fates
  <2>3. QED
    BY <2>1, <2>2, Frame DEF Typed
<1>27. ASSUME NEW g \in Gens, HandleReply(g) \/ HandleHeld(g) PROVE Typed'
  <2> USE <1>27 DEF HandleReply, HandleHeld
  <2>1. Worker'
    BY GenTypes DEF Typed, Worker, WorkerType, WorkerLocals, WorkerPC
  <2>2. QED
    BY <2>1, Frame DEF Typed
<1>28. ASSUME NEW g \in Gens, HandleSend(g) PROVE Typed'
  <2> USE <1>28 DEF HandleSend, Finish, Unlock
  <2>1. Worker'
    BY GenTypes DEF Typed, Worker, WorkerType, WorkerLocals, WorkerPC
  <2>2. MessageType'
    BY GenTypes DEF Typed, MessageType, Fates
  <2>3. QED
    BY <2>1, <2>2, Frame DEF Typed
<1>29. ASSUME NEW g \in Gens, WsBreaks(g) PROVE Typed'
  <2> USE <1>29 DEF WsBreaks
  <2>1. Reader'
    BY GenTypes DEF Typed, Reader, ReaderType, ReaderLocals, ReaderPC
  <2>2. QED
    BY <2>1, Frame DEF Typed
<1>30. CASE ChildExits
  <2> USE <1>30 DEF ChildExits
  <2>1. FlagType'
    BY GenTypes DEF Typed, FlagType
  <2>2. QED
    BY <2>1, Frame DEF Typed
<1>31. CASE Exited
  <2> USE <1>31 DEF Exited
  <2> QED
    BY Frame DEF Typed
<1>32. CASE UNCHANGED vars
  BY <1>32, Frame DEF Typed
<1>33. QED
  BY <1>1, <1>2, <1>3, <1>4, <1>5, <1>6, <1>7, <1>8, <1>9, <1>10, <1>11, <1>12, <1>13, <1>14, <1>15, <1>16, <1>17, <1>18, <1>19, <1>20, <1>21, <1>22, <1>23, <1>24, <1>25, <1>26, <1>27, <1>28, <1>29, <1>30, <1>31, <1>32
     DEF Next, Commands, StartSteps, StopSteps, ReaderSteps, WorkerSteps

(* Every variable keeps its type (all goroutines, every interleaving).     *)
THEOREM TypeCorrect == Spec => []TypeOK
<1>1. Typed => TypeOK
  BY DEF Typed, TypeOK, Prompt, Reader, Worker
<1>2. QED
  BY <1>1, TypedInit, TypedNext, PTL DEF Spec

LEMMA TypedAlways == Spec => []Typed
  BY TypedInit, TypedNext, PTL DEF Spec

-----------------------------------------------------------------------------
(* Sessions.  The mutexes belong to the service and not to a generation,   *)
(* so that they exclude the workers of different generations too.          *)

LEMMA LockHeldInit == Init => LockHeld
  BY DEF Init, LockHeld, InSession

(* Only the actions that enter or leave a session matter. *)
LEMMA LockHeldNext == Typed /\ LockHeld /\ [Next]_vars => LockHeld'
<1> SUFFICES ASSUME Typed, LockHeld, [Next]_vars PROVE LockHeld'
  OBVIOUS
<1> USE DEF vars, serviceVars, promptVars, readerVars, workerVars, messageVars
<1>1. UNCHANGED <<worker, handling, sessionLock>> => LockHeld'
  BY DEF LockHeld, InSession
<1>2. CASE StartOpen
  BY <1>2 DEF StartOpen, LockHeld, InSession, Typed, Worker, WorkerType
<1>3. ASSUME NEW g \in Gens,
             WorkerExit(g) \/ WorkerTake(g) \/ HandleSkip(g) \/ HandleSnapshot(g)
      PROVE  LockHeld'
  BY <1>3 DEF WorkerExit, WorkerTake, HandleSkip, HandleSnapshot, Finish,
              LockHeld, InSession, Typed, Worker, WorkerType
<1>4. ASSUME NEW g \in Gens, LockSession(g) PROVE LockHeld'
  <2>1. handling[g] \in Msgs /\ KeyOf[handling[g]] \in Keys
    BY <1>4, MsgAssumption DEF LockSession, Typed, Worker, WorkerLocals
  <2>2. QED
    BY <1>4, <2>1, GenTypes
       DEF LockSession, LockHeld, InSession, Typed, Worker, WorkerType
<1>5. ASSUME NEW g \in Gens, HandleReply(g) \/ HandleHeld(g) PROVE LockHeld'
  BY <1>5 DEF HandleReply, HandleHeld, LockHeld, InSession, Typed, Worker, WorkerType
<1>6. ASSUME NEW g \in Gens, HandleSilent(g) \/ HandleSend(g) PROVE LockHeld'
  <2>1. InSession(g) /\ Unlock(g) /\ \E f \in Fates : Finish(g, f)
    BY <1>6 DEF HandleSilent, HandleSend, InSession, Fates
  <2>2. ASSUME NEW h \in Gens, InSession(h)'
        PROVE  sessionLock'[KeyOf[handling'[h]]] = h
    <3>1. h # g /\ InSession(h) /\ handling'[h] = handling[h]
      BY <2>1, <2>2 DEF Finish, InSession, Typed, Worker, WorkerType
    <3>2. KeyOf[handling[h]] # KeyOf[handling[g]]
      BY <2>1, <3>1 DEF LockHeld
    <3>3. QED
      BY <2>1, <2>2, <3>1, <3>2
         DEF Unlock, LockHeld, Typed, Worker, WorkerType
  <2>3. QED
    BY <2>2 DEF LockHeld
<1>7. QED
  BY <1>1, <1>2, <1>3, <1>4, <1>5, <1>6
     DEF Next, Commands, StartSteps, StopSteps, ReaderSteps, WorkerSteps,
         StartAgain, StartNotReady, StartNapCatOk, StartNapCatFails, StartConnOk,
         StartConnFails, StopTake, StopCancel, StopConn, StopClose, StopNapCat,
         StopCloseACP, ReaderRead, EnqueueNoQueue, EnqueueLookup, EnqueueSend,
         ReaderFails, ReaderRelease, ReaderClose, WsBreaks, ChildExits, Exited

(* Two workers are never in the same chat's session, however many times    *)
(* the bridge is stopped and started while messages are handled            *)
(* (lockSession in handleMessage).                                         *)
THEOREM SessionsAreExclusive == Spec => []SessionExclusive
<1>1. LockHeld => SessionExclusive
  BY DEF LockHeld, SessionExclusive
<1>2. QED
  BY <1>1, TypedAlways, LockHeldInit, LockHeldNext, PTL DEF Spec

-----------------------------------------------------------------------------
(* The fields of Service that Start and Stop change in several sections.   *)

LEMMA InServiceInit == Init => InService
  BY DEF Init, InService, RunningServed, Nothing, Nil

(* One step per action of Start and Stop; the others only move workers.    *)
LEMMA InServiceNext == Typed /\ InService /\ [Next]_vars => InService'
<1> SUFFICES ASSUME Typed, InService, [Next]_vars PROVE InService'
  OBVIOUS
<1> USE DEF serviceVars, promptVars, readerVars, workerVars, messageVars
<1> DEFINE Seen == <<running, conn, messageQueue, workerCancel, opened,
                     prompt, taken, cancelled, worker>>
<1>1. UNCHANGED Seen => InService'
  BY DEF InService, RunningServed
<1>2. CASE StartNotReady
  BY <1>2 DEF StartNotReady, InService, RunningServed
<1>3. CASE StartOpen
  <2>1. /\ opened \in Nat /\ opened' = opened + 1 /\ opened' \in Gens
        /\ \A g \in cancelled : g \in Nat
        /\ workerCancel \in Nat /\ taken.cancel \in Nat
    BY <1>3, BoundAssumption
       DEF StartOpen, Typed, ServiceType, Prompt, PromptType, Worker, WorkerType,
           Gens, GenOrNil
  <2>2. /\ \A g \in cancelled' : g <= opened'
        /\ workerCancel' <= opened' /\ taken'.cancel <= opened'
        /\ opened' # Nil /\ opened' \notin cancelled'
    BY <1>3, <2>1 DEF StartOpen, InService, Nil
  <2>3. worker'[opened'] = "wait"
    BY <1>3, <2>1 DEF StartOpen, Typed, Worker, WorkerType
  <2>4. QED
    BY <1>3, <2>1, <2>2, <2>3 DEF StartOpen, InService, RunningServed
<1>4. CASE StartNapCatOk
  BY <1>4 DEF StartNapCatOk, InService, RunningServed
<1>5. CASE StartNapCatFails
  BY <1>5 DEF StartNapCatFails, InService, RunningServed, Nil, Typed,
              ServiceType, GenOrNil
<1>6. CASE StartConnOk
  BY <1>6 DEF StartConnOk, InService, RunningServed
<1>7. CASE StartConnFails
  BY <1>7 DEF StartConnFails, InService, RunningServed
<1>8. ASSUME NEW quit \in Quits, StopTake(quit) PROVE InService'
  BY <1>8 DEF StopTake, InService, RunningServed, Nil, Typed, ServiceType,
              GenOrNil
<1>9. CASE StopCancel
  <2>1. taken'.cancel = Nil /\ running' = FALSE
    BY <1>9 DEF StopCancel, InService, Typed, Prompt, PromptType, FlagType
  <2>2. QED
    BY <1>9, <2>1
       DEF StopCancel, InService, RunningServed, Nil, Typed, ServiceType, GenOrNil
<1>10. CASE StopConn \/ StopClose \/ StopNapCat \/ StopCloseACP
  <2>1. /\ taken'.cancel \in {taken.cancel, Nil} /\ ~running /\ ~running'
        /\ UNCHANGED <<conn, messageQueue, workerCancel, opened, cancelled, worker>>
    BY <1>10 DEF StopConn, StopClose, StopNapCat, StopCloseACP, InService, Nothing
  <2>2. QED
    BY <2>1 DEF InService, RunningServed, Nil, Typed, ServiceType, GenOrNil
<1>11. ASSUME NEW g \in Gens, WorkerExit(g) PROVE InService'
  BY <1>11 DEF WorkerExit, InService, RunningServed, Typed, Worker, WorkerType
<1>12. ASSUME NEW g \in Gens, WorkerSteps(g), ~WorkerExit(g) PROVE InService'
  <2>1. /\ \E w \in WorkerPC \ {"none", "exited"} :
             worker' = [worker EXCEPT ![g] = w]
        /\ UNCHANGED <<running, conn, messageQueue, workerCancel, opened,
                       prompt, taken, cancelled>>
    BY <1>12 DEF WorkerSteps, WorkerTake, HandleSkip, HandleSnapshot, LockSession,
                 HandleSilent, HandleReply, HandleHeld, HandleSend, Finish, WorkerPC
  <2>2. QED
    BY <2>1 DEF InService, RunningServed, Typed, Worker, WorkerType
<1>13. QED
  BY <1>1, <1>2, <1>3, <1>4, <1>5, <1>6, <1>7, <1>8, <1>9, <1>10, <1>11, <1>12
     DEF vars, Next, Commands, StartSteps, StopSteps, ReaderSteps, StartAgain,
         ReaderRead, EnqueueNoQueue, EnqueueLookup, EnqueueSend, ReaderFails,
         ReaderRelease, ReaderClose, WsBreaks, ChildExits, Exited

(* While the bridge is marked as running, one generation is in service     *)
(* with all its parts, it is the latest, and its worker is alive (the      *)
(* error paths of Start and the sections of Stop).                         *)
THEOREM RunningIsServed == Spec => []RunningServed
<1>1. InService => RunningServed
  BY DEF InService
<1>2. QED
  BY <1>1, TypedAlways, InServiceInit, InServiceNext, PTL DEF Spec

-----------------------------------------------------------------------------
(* Connections.  A generation that is not yet dialled has nothing; one     *)
(* whose readLoop has run is in service, was stopped, or is being stopped; *)
(* a WebSocket that is not closed has somebody who will close it.          *)

NotDialled(g) == ws[g] = "none" /\ reader[g] = "none"

Stoppable ==
    \A g \in Gens :
        reader[g] # "none" =>
            \/ g \in cancelled
            \/ prompt = "stopCancel" /\ taken.cancel = g
            \/ running /\ opened = g

WillBeClosed ==
    \A g \in Gens :
        ws[g] \in {"open", "broken"} =>
            \/ g \in held \/ reader[g] = "close"
            \/ prompt = "stopClose" /\ taken.conn = g

Connected ==
    /\ \A g \in Gens : g > opened => NotDialled(g)
    /\ prompt \in {"startNapCat", "startConn"} => running /\ NotDialled(opened)
    /\ conn # Nil => running
    /\ taken.conn <= opened
    /\ Stoppable /\ WillBeClosed /\ NoStrayConnection

LEMMA ConnectedInit == Init => Connected
  BY GenTypes
     DEF Init, Nothing, Nil, Connected, NotDialled, Stoppable, WillBeClosed,
         NoStrayConnection

(* One step per action of Start, of Stop and of a readLoop that moves a    *)
(* connection or the one who answers for it.                               *)
LEMMA ConnectedNext ==
    Typed /\ InService /\ Connected /\ [Next]_vars => Connected'
<1> SUFFICES ASSUME Typed, InService, Connected, [Next]_vars PROVE Connected'
  OBVIOUS
<1> USE DEF Connected, NotDialled, Stoppable, WillBeClosed, NoStrayConnection,
            StopHolds
<1>1. /\ ws \in [Gens -> {"none", "open", "broken", "closed"}]
      /\ held \subseteq Gens /\ reader \in [Gens -> ReaderPC]
      /\ conn \in GenOrNil /\ workerCancel \in GenOrNil /\ opened \in GenOrNil
      /\ taken \in [conn : GenOrNil, cancel : GenOrNil] /\ prompt \in PromptPC
      /\ cancelled \subseteq Gens /\ running \in BOOLEAN
      /\ prompt = "stopClose" => taken.conn \in Gens
      /\ prompt \in {"startNapCat", "startConn"} => opened \in Gens
  BY DEF Typed, Reader, ReaderType, ServiceType, Prompt, PromptType,
         PromptLocals, Worker, WorkerType, FlagType
<1>2. /\ prompt \notin {"ready", "startNapCat", "startConn"} => ~running
      /\ running => conn = opened /\ workerCancel = opened /\ opened # Nil
  BY DEF InService, RunningServed
<1>3. Gens \subseteq Nat /\ GenOrNil \subseteq Nat /\ Nil = 0 /\ Nil \notin Gens
      /\ GenOrNil = Gens \cup {Nil}
  BY GenTypes, BoundAssumption DEF Gens, GenOrNil, Nil
<1>4. ASSUME UNCHANGED <<running, conn, opened, prompt, taken, ws, held, reader,
                         cancelled>>
      PROVE  Connected'
  BY <1>4
<1>5. CASE StartAgain \/ Exited \/ UNCHANGED vars
  BY <1>4, <1>5
     DEF StartAgain, Exited, vars, serviceVars, promptVars, readerVars,
         workerVars
<1>6. CASE StartNotReady
  BY <1>1, <1>2, <1>3, <1>6
     DEF StartNotReady, promptVars, readerVars, workerVars
<1>7. CASE StartOpen
  <2>1. /\ prompt = "ready" /\ ~running /\ running' /\ prompt' = "startNapCat"
        /\ opened' = opened + 1 /\ opened' \in Gens /\ conn' = opened'
        /\ UNCHANGED <<ws, reader, held, cancelled, taken>>
    BY <1>1, <1>3, <1>7, BoundAssumption
       DEF StartOpen, readerVars, Gens, GenOrNil
  <2>2. conn = Nil
    BY <2>1
  <2>3. \A g \in Gens : g > opened' => g > opened
    BY <1>1, <1>3, <2>1
  <2>4. ws[opened'] = "none" /\ reader[opened'] = "none"
    BY <1>1, <1>3, <2>1
  <2>5. \A g \in Gens : ws[g] \in {"open", "broken"} =>
                            reader[g] \in {"release", "close"}
    BY <1>3, <2>1, <2>2
  <2>6. taken'.conn <= opened'
    <3>1. taken.conn \in Nat /\ opened \in Nat /\ taken.conn <= opened
      BY <1>1, <1>3
    <3>2. QED
      BY <2>1, <3>1
  <2>7. QED
    BY <1>1, <1>3, <2>1, <2>3, <2>4, <2>5, <2>6
<1>8. CASE StartNapCatOk
  BY <1>1, <1>8 DEF StartNapCatOk, serviceVars, readerVars, workerVars
<1>9. CASE StartNapCatFails \/ StartConnFails
  <2>1. /\ prompt \in {"startNapCat", "startConn"} /\ prompt' = "ready"
        /\ ~running' /\ conn' = Nil /\ cancelled \subseteq cancelled'
        /\ UNCHANGED <<opened, taken, ws, held, reader>>
    BY <1>9 DEF StartNapCatFails, StartConnFails, readerVars, workerVars
  <2>2. conn = opened /\ ws[opened] = "none" /\ reader[opened] = "none"
    BY <1>2, <2>1
  <2>3. QED
    BY <1>1, <1>3, <2>1, <2>2
<1>10. CASE StartConnOk
  <2>1. /\ prompt = "startConn" /\ prompt' = "ready" /\ opened \in Gens
        /\ ws' = [ws EXCEPT ![opened] = "open"]
        /\ held' = held \cup {opened}
        /\ reader' = [reader EXCEPT ![opened] = "read"]
        /\ UNCHANGED <<running, conn, opened, taken, cancelled>>
    BY <1>1, <1>10 DEF StartConnOk, serviceVars, workerVars
  <2>2. running /\ conn = opened
    BY <1>2, <2>1
  <2>3. QED
    BY <1>1, <1>3, <2>1, <2>2
<1>11. ASSUME NEW quit \in Quits, StopTake(quit) PROVE Connected'
  <2>1. /\ prompt = "ready" /\ prompt' = "stopCancel" /\ ~running'
        /\ taken'.conn = conn /\ taken'.cancel = workerCancel /\ conn' = Nil
        /\ UNCHANGED <<opened, ws, held, reader, cancelled>>
    BY <1>11 DEF StopTake, readerVars, workerVars
  <2>2. QED
    BY <1>1, <1>2, <1>3, <2>1
<1>12. CASE StopCancel
  <2>1. /\ prompt = "stopCancel"
        /\ prompt' = IF taken.conn # Nil THEN "stopConn" ELSE "stopNapCat"
        /\ taken'.conn = taken.conn
        /\ cancelled' = cancelled \cup ({taken.cancel} \ {Nil})
        /\ UNCHANGED <<running, conn, opened, ws, held, reader>>
    BY <1>1, <1>12 DEF StopCancel, serviceVars, readerVars
  <2>2. QED
    BY <1>1, <1>2, <1>3, <2>1
<1>13. CASE StopConn
  <2>1. /\ prompt = "stopConn" /\ held' = held \ {taken.conn}
        /\ \/ taken.conn \in held /\ prompt' = "stopClose" /\ taken' = taken
           \/ /\ taken.conn \notin held /\ prompt' = "stopNapCat"
              /\ taken'.conn = Nil
        /\ UNCHANGED <<running, conn, opened, ws, reader, cancelled>>
    BY <1>13 DEF StopConn, Nothing, serviceVars, workerVars
  <2>2. QED
    BY <1>1, <1>2, <1>3, <2>1
<1>14. CASE StopClose
  <2>1. /\ prompt = "stopClose" /\ prompt' \in {"exited", "ready", "stopNapCat"}
        /\ ws' = [ws EXCEPT ![taken.conn] = "closed"] /\ taken'.conn = Nil
        /\ UNCHANGED <<running, conn, opened, held, reader, cancelled>>
    BY <1>14 DEF StopClose, AfterStop, Nothing, serviceVars, workerVars
  <2>2. taken.conn \in Gens /\ ~(taken.conn > opened)
    <3>1. taken.conn \in Nat /\ opened \in Nat /\ taken.conn <= opened
      BY <1>1, <1>3
    <3>2. QED
      BY <1>1, <2>1, <3>1
  <2>3. ~running /\ Nil <= opened
    BY <1>1, <1>2, <1>3, <2>1
  <2>4. QED
    BY <1>1, <2>1, <2>2, <2>3
<1>15. CASE StopNapCat \/ StopCloseACP
  <2>1. /\ prompt \in {"stopNapCat", "closeACP"}
        /\ prompt' \in {"exited", "ready", "closeACP"}
        /\ UNCHANGED <<running, conn, opened, taken, ws, held, reader,
                       cancelled>>
    BY <1>15
       DEF StopNapCat, StopCloseACP, AfterStop, serviceVars, readerVars,
           workerVars
  <2>2. \A g \in Gens : reader[g] # "none" => g \in cancelled
    BY <1>2, <2>1
  <2>3. \A g \in Gens : ws[g] \in {"open", "broken"} =>
                            /\ g \in held \/ reader[g] = "close"
                            /\ conn = g \/ reader[g] \in {"release", "close"}
    BY <2>1
  <2>4. QED
    BY <2>1, <2>2, <2>3
<1>16. ASSUME NEW g \in Gens,
              \/ \E m \in Msgs : ReaderRead(g, m)
              \/ EnqueueNoQueue(g) \/ EnqueueLookup(g) \/ EnqueueSend(g)
              \/ ReaderFails(g)
       PROVE  Connected'
  <2>1. /\ reader[g] \in {"read", "lookup", "send"}
        /\ \E r \in ReaderPC \ {"none"} : reader' = [reader EXCEPT ![g] = r]
        /\ UNCHANGED <<running, conn, opened, prompt, taken, ws, held,
                       cancelled>>
    BY <1>16
       DEF ReaderRead, EnqueueNoQueue, EnqueueLookup, EnqueueSend, ReaderFails,
           ReaderNext, ReaderPC, serviceVars, promptVars, workerVars
  <2>2. QED
    BY <1>1, <1>3, <2>1
<1>17. ASSUME NEW g \in Gens, ReaderRelease(g) PROVE Connected'
  <2>1. /\ reader[g] = "release" /\ held' = held \ {g}
        /\ reader' = [reader EXCEPT ![g] = "close"]
        /\ UNCHANGED <<running, conn, opened, prompt, taken, ws, cancelled>>
    BY <1>17 DEF ReaderRelease, serviceVars, promptVars, workerVars
  <2>2. QED
    BY <1>1, <1>3, <2>1
<1>18. ASSUME NEW g \in Gens, ReaderClose(g) PROVE Connected'
  <2>1. /\ reader[g] = "close" /\ ws' = [ws EXCEPT ![g] = "closed"]
        /\ reader' = [reader EXCEPT ![g] = "exited"]
        /\ UNCHANGED <<running, conn, opened, prompt, taken, held, cancelled>>
    BY <1>18 DEF ReaderClose, serviceVars, promptVars, workerVars
  <2>2. QED
    BY <1>1, <1>3, <2>1
<1>19. ASSUME NEW g \in Gens, WorkerSteps(g) PROVE Connected'
  BY <1>4, <1>19
     DEF WorkerSteps, WorkerExit, WorkerTake, HandleSkip, HandleSnapshot,
         LockSession, HandleSilent, HandleReply, HandleHeld, HandleSend, serviceVars,
         promptVars, readerVars
<1>20. ASSUME NEW g \in Gens, WsBreaks(g) PROVE Connected'
  <2>1. /\ ws[g] = "open" /\ ws' = [ws EXCEPT ![g] = "broken"]
        /\ UNCHANGED <<running, conn, opened, prompt, taken, held, reader,
                       cancelled>>
    BY <1>20 DEF WsBreaks, serviceVars, promptVars, workerVars
  <2>2. QED
    BY <1>1, <1>3, <2>1
<1>21. CASE ChildExits
  BY <1>4, <1>21 DEF ChildExits, serviceVars, readerVars, workerVars
<1>22. QED
  BY <1>5, <1>6, <1>7, <1>8, <1>9, <1>10, <1>11, <1>12, <1>13, <1>14, <1>15,
     <1>16, <1>17, <1>18, <1>19, <1>20, <1>21
     DEF Next, Commands, StartSteps, StopSteps, ReaderSteps

LEMMA ConnectedAlways == Spec => [](Typed /\ InService /\ Connected)
  BY TypedAlways, InServiceInit, InServiceNext, ConnectedInit, ConnectedNext,
     PTL DEF Spec

(* Whichever of Stop and the readLoop gets to it first, no WebSocket is    *)
(* forgotten open (Connector.Stop, readLoop's deferred function).          *)
THEOREM NoConnectionIsForgotten == Spec => []NoStrayConnection
<1>1. Connected => NoStrayConnection
  BY DEF Connected
<1>2. QED
  BY <1>1, ConnectedAlways, PTL

(* The only worker that cannot be cancelled any more belongs to a Start    *)
(* whose dial failed (Start's last error path).                            *)
THEOREM LeaksOnlyAfterFailedDial == Spec => []LeakOnlyAfterFailedDial
<1>1. InService /\ Connected => LeakOnlyAfterFailedDial
  BY DEF InService, RunningServed, Connected, Stoppable, LeakOnlyAfterFailedDial
<1>2. QED
  BY <1>1, ConnectedAlways, PTL

-----------------------------------------------------------------------------
(* Messages.  One that is live is in exactly one place: with the readLoop  *)
(* that delivers it, once in one queue, or with one worker.                *)

AtReader(g) == reader[g] \in {"lookup", "send"}
AtWorker(g) == worker[g] \in {"check", "lock", "run", "held", "send"}

Live ==
    /\ \A g \in Gens : AtReader(g) => fate[reading[g]] = "live"
    /\ \A g \in Gens : AtWorker(g) => fate[handling[g]] = "live"
    /\ \A g \in Gens : \A i \in DOMAIN queue[g] : fate[queue[g][i]] = "live"

Apart ==
    /\ \A g, h \in Gens :
           /\ AtReader(g) /\ AtReader(h) /\ g # h => reading[g] # reading[h]
           /\ AtWorker(g) /\ AtWorker(h) /\ g # h => handling[g] # handling[h]
           /\ AtReader(g) /\ AtWorker(h) => reading[g] # handling[h]
    /\ \A g, h \in Gens : \A i \in DOMAIN queue[g] :
           /\ AtReader(h) => queue[g][i] # reading[h]
           /\ AtWorker(h) => queue[g][i] # handling[h]
    /\ \A g, h \in Gens : \A i \in DOMAIN queue[g] : \A j \in DOMAIN queue[h] :
           queue[g][i] = queue[h][j] => g = h /\ i = j

Placed == Live /\ Apart

LEMMA PlacedInit == Init => Placed
  BY DEF Init, Placed, Live, Apart, AtReader, AtWorker

(* Nobody takes a message up, though some may let go of theirs.            *)
LEMMA PlacedFrame ==
    ASSUME Placed, UNCHANGED <<fate, queue>>,
           \A g \in Gens :
               /\ AtReader(g)' => AtReader(g) /\ reading'[g] = reading[g]
               /\ AtWorker(g)' => AtWorker(g) /\ handling'[g] = handling[g]
    PROVE  Placed'
  BY DEF Placed, Live, Apart

(* A message is over, and nobody has it any more.                          *)
LEMMA PlacedOver ==
    ASSUME Placed, NEW m \in Msgs, NEW f, fate \in [Msgs -> Fates],
           fate' = [fate EXCEPT ![m] = f], queue' = queue,
           \A g \in Gens :
               /\ AtReader(g)' => /\ AtReader(g) /\ reading'[g] = reading[g]
                                  /\ reading[g] # m
               /\ AtWorker(g)' => /\ AtWorker(g) /\ handling'[g] = handling[g]
                                  /\ handling[g] # m
               /\ \A i \in DOMAIN queue[g] : queue[g][i] # m
    PROVE  Placed'
<1>1. Live'
  BY DEF Placed, Live
<1>2. Apart'
  BY DEF Placed, Apart
<1>3. QED
  BY <1>1, <1>2 DEF Placed

(* One step per action, or group of actions, that moves a message.         *)
LEMMA PlacedNext == Typed /\ Placed /\ [Next]_vars => Placed'
<1> SUFFICES ASSUME Typed, Placed, [Next]_vars PROVE Placed'
  OBVIOUS
<1>1. /\ reader \in [Gens -> ReaderPC] /\ worker \in [Gens -> WorkerPC]
      /\ reading \in [Gens -> Msgs \cup {NoMsg}]
      /\ handling \in [Gens -> Msgs \cup {NoMsg}]
      /\ fate \in [Msgs -> Fates]
      /\ queue \in [Gens -> Seq(Msgs)]
      /\ \A g \in Gens : AtReader(g) => reading[g] \in Msgs
      /\ \A g \in Gens : reader[g] = "send" => target[g] \in Gens
      /\ \A g \in Gens : AtWorker(g) => handling[g] \in Msgs
  BY DEF Typed, Reader, ReaderType, ReaderLocals, Worker, WorkerType,
         WorkerLocals, MessageType, AtReader, AtWorker
<1>2. ASSUME UNCHANGED <<reader, reading, worker, handling, fate, queue>>
      PROVE  Placed'
  BY <1>2, PlacedFrame DEF AtReader, AtWorker
<1>3. CASE \/ StartAgain \/ StartNotReady \/ \E quit \in Quits : StopTake(quit)
           \/ StartNapCatOk \/ StartNapCatFails \/ StartConnFails
           \/ StopSteps \/ ChildExits \/ Exited \/ UNCHANGED vars
           \/ \E g \in Gens : WsBreaks(g)
  BY <1>2, <1>3
     DEF StartAgain, StartNotReady, StopTake, StartNapCatOk, StartNapCatFails,
         StartConnFails, StopSteps, StopCancel, StopConn, StopClose, StopNapCat,
         StopCloseACP, ChildExits, Exited, WsBreaks, vars, readerVars,
         workerVars, messageVars
<1>4. ASSUME NEW g, UNCHANGED <<reading, handling, fate, queue>>,
             \/ worker' = worker
             \/ \E w \in WorkerPC :
                    /\ worker' = [worker EXCEPT ![g] = w]
                    /\ w \in {"wait", "exited"} \/ AtWorker(g),
             \/ reader' = reader
             \/ \E r \in ReaderPC :
                    /\ reader' = [reader EXCEPT ![g] = r]
                    /\ \/ r \in {"read", "release", "close", "exited"}
                       \/ AtReader(g)
      PROVE  Placed'
  BY <1>1, <1>4, PlacedFrame DEF AtReader, AtWorker
<1>5. CASE StartOpen \/ StartConnOk
  <2>1. /\ UNCHANGED <<reading, handling, fate, queue>>
        /\ \/ worker' = worker
           \/ worker' = [worker EXCEPT ![opened + 1] = "wait"]
        /\ \/ reader' = reader
           \/ reader' = [reader EXCEPT ![opened] = "read"]
        /\ worker' = worker \/ reader' = reader
    BY <1>5 DEF StartOpen, StartConnOk, readerVars, workerVars, messageVars
  <2>2. QED
    BY <1>4, <2>1 DEF WorkerPC, ReaderPC
<1>6. ASSUME NEW g \in Gens,
             \/ EnqueueLookup(g) \/ ReaderFails(g) \/ ReaderRelease(g)
             \/ ReaderClose(g) \/ WorkerExit(g) \/ HandleSnapshot(g)
             \/ LockSession(g) \/ HandleReply(g) \/ HandleHeld(g)
      PROVE  Placed'
  <2>1. /\ UNCHANGED <<reading, handling, fate, queue>>
        /\ worker' = worker \/ reader' = reader
        /\ \/ worker' = worker
           \/ worker' = [worker EXCEPT ![g] = "exited"]
           \/ \E w \in {"lock", "run", "held", "send"} :
                  worker' = [worker EXCEPT ![g] = w] /\ AtWorker(g)
        /\ \/ reader' = reader
           \/ \E r \in {"release", "close", "exited"} :
                  reader' = [reader EXCEPT ![g] = r]
           \/ reader' = [reader EXCEPT ![g] = "send"] /\ AtReader(g)
    BY <1>6
       DEF EnqueueLookup, ReaderFails, ReaderRelease, ReaderClose, WorkerExit,
           HandleSnapshot, LockSession, HandleReply, HandleHeld, AtReader, AtWorker,
           readerVars, workerVars, messageVars
  <2>2. QED
    BY <1>4, <2>1 DEF WorkerPC, ReaderPC
<1>7. ASSUME NEW g \in Gens, NEW m \in Msgs, ReaderRead(g, m) PROVE Placed'
  <2>1. /\ fate[m] = "new" /\ UNCHANGED <<worker, handling, queue>>
        /\ fate' = [fate EXCEPT ![m] = "live"]
        /\ reader' = [reader EXCEPT ![g] = "lookup"]
        /\ reading' = [reading EXCEPT ![g] = m]
    BY <1>7 DEF ReaderRead, workerVars
  <2>2. \A h \in Gens :
            /\ AtReader(h) => reading[h] # m
            /\ AtWorker(h) => handling[h] # m
            /\ \A i \in DOMAIN queue[h] : queue[h][i] # m
    BY <2>1 DEF Placed, Live
  <2>3. \A h \in Gens :
            /\ AtWorker(h)' => AtWorker(h)
            /\ AtReader(h)' => \/ h = g /\ reading'[h] = m
                               \/ /\ h # g /\ AtReader(h)
                                  /\ reading'[h] = reading[h]
    BY <1>1, <2>1 DEF AtReader, AtWorker
  <2>4. Live'
    BY <1>1, <2>1, <2>2, <2>3 DEF Placed, Live
  <2>5. Apart'
    BY <2>1, <2>2, <2>3 DEF Placed, Apart
  <2>6. QED
    BY <2>4, <2>5 DEF Placed
<1>8. ASSUME NEW g \in Gens, AtReader(g), ReaderNext(g)
      PROVE  \A h \in Gens :
                 AtReader(h)' => /\ h # g /\ AtReader(h)
                                 /\ reading'[h] = reading[h]
  BY <1>1, <1>8 DEF ReaderNext, AtReader
<1>9. ASSUME NEW g \in Gens, AtReader(g), ReaderNext(g), queue' = queue,
             UNCHANGED <<worker, handling>>,
             \E f \in Fates : fate' = [fate EXCEPT ![reading[g]] = f]
      PROVE  Placed'
  <2>1. reading[g] \in Msgs /\ \A h \in Gens : AtWorker(h)' => AtWorker(h)
    BY <1>1, <1>9 DEF AtWorker
  <2>2. \A h \in Gens :
            /\ AtReader(h) /\ h # g => reading[h] # reading[g]
            /\ AtWorker(h) => handling[h] # reading[g]
            /\ \A i \in DOMAIN queue[h] : queue[h][i] # reading[g]
    BY <1>9 DEF Placed, Apart
  <2>3. QED
    BY <1>1, <1>8, <1>9, <2>1, <2>2, PlacedOver
<1>10. ASSUME NEW g \in Gens, EnqueueNoQueue(g) PROVE Placed'
  BY <1>9, <1>10 DEF EnqueueNoQueue, AtReader, Fates, workerVars
<1>11. ASSUME NEW g \in Gens, EnqueueSend(g) PROVE Placed'
  <2>1. /\ AtReader(g) /\ ReaderNext(g) /\ UNCHANGED <<worker, handling>>
        /\ reading[g] \in Msgs /\ target[g] \in Gens
    BY <1>1, <1>11 DEF EnqueueSend, AtReader, workerVars
  <2>2. CASE Len(queue[target[g]]) < QueueCap
    <3> DEFINE q == target[g]
               m == reading[g]
               n == Len(queue[q]) + 1
    <3>1. fate' = fate /\ queue' = [queue EXCEPT ![q] = Append(@, m)]
      BY <1>11, <2>2 DEF EnqueueSend
    <3>2. \A h \in Gens : \A i \in DOMAIN queue'[h] :
              \/ h = q /\ i = n /\ queue'[h][i] = m
              \/ i \in DOMAIN queue[h] /\ queue'[h][i] = queue[h][i]
      BY <1>1, <2>1, <3>1
    <3>3. \A h \in Gens :
              /\ AtReader(h) /\ h # g => reading[h] # m
              /\ AtWorker(h) => handling[h] # m
              /\ \A i \in DOMAIN queue[h] : queue[h][i] # m
      BY <2>1 DEF Placed, Apart
    <3>4. \A h \in Gens :
              AtReader(h)' => /\ h # g /\ AtReader(h)
                              /\ reading'[h] = reading[h]
      BY <1>8, <2>1
    <3>5. \A h \in Gens : AtWorker(h)' => AtWorker(h)
      BY <2>1 DEF AtWorker
    <3>6. fate[m] = "live"
      BY <2>1 DEF Placed, Live
    <3> HIDE DEF q, m, n
    <3>7. Live'
      BY <2>1, <3>1, <3>2, <3>4, <3>5, <3>6 DEF Placed, Live
    <3>8. Apart'
      BY <2>1, <3>2, <3>3, <3>4, <3>5 DEF Placed, Apart
    <3>9. QED
      BY <3>7, <3>8 DEF Placed
  <2>3. CASE ~(Len(queue[target[g]]) < QueueCap)
    <3>1. queue' = queue /\ fate' = [fate EXCEPT ![reading[g]] = "queueFull"]
      BY <1>11, <2>3 DEF EnqueueSend
    <3>2. QED
      BY <1>9, <2>1, <3>1 DEF Fates
  <2>4. QED
    BY <2>2, <2>3
<1>12. ASSUME NEW g \in Gens, WorkerTake(g) PROVE Placed'
  <2> DEFINE m == Head(queue[g])
  <2>1. /\ worker[g] = "wait" /\ queue[g] # <<>>
        /\ worker' = [worker EXCEPT ![g] = "check"]
        /\ handling' = [handling EXCEPT ![g] = m]
        /\ queue' = [queue EXCEPT ![g] = Tail(@)]
        /\ UNCHANGED <<reader, reading, fate>>
    BY <1>12 DEF WorkerTake, readerVars
  <2>2. 1 \in DOMAIN queue[g] /\ m = queue[g][1]
    BY <1>1, <2>1
  <2>3. \A h \in Gens \ {g} : queue'[h] = queue[h]
    BY <1>1, <2>1
  <2>4. \A i \in DOMAIN queue'[g] :
            /\ i + 1 \in DOMAIN queue[g] /\ i + 1 # 1
            /\ queue'[g][i] = queue[g][i + 1]
            /\ i \in Nat
    BY <1>1, <2>1
  <2>5. \A h \in Gens :
            AtWorker(h)' => \/ h = g /\ handling'[h] = m
                            \/ /\ h # g /\ AtWorker(h)
                               /\ handling'[h] = handling[h]
    BY <1>1, <2>1 DEF AtWorker
  <2>6. \A h \in Gens : AtReader(h)' = AtReader(h)
    BY <2>1 DEF AtReader
  <2> HIDE DEF m
  <2>7. fate[m] = "live" /\ \A h \in Gens : AtReader(h) => reading[h] # m
    BY <2>2 DEF Placed, Live, Apart
  <2>8. \A h \in Gens : /\ AtWorker(h) => handling[h] # m
                        /\ \A i \in DOMAIN queue'[h] : queue'[h][i] # m
    BY <2>2, <2>3, <2>4 DEF Placed, Apart
  <2>9. Live'
    BY <2>1, <2>3, <2>4, <2>5, <2>6, <2>7 DEF Placed, Live
  <2>10. ASSUME NEW h \in Gens, NEW i \in DOMAIN queue'[h]
         PROVE  \E j \in DOMAIN queue[h] : queue'[h][i] = queue[h][j]
    BY <2>3, <2>4
  <2>11. ASSUME NEW h \in Gens, NEW k \in Gens, NEW i \in DOMAIN queue'[h],
                NEW j \in DOMAIN queue'[k], queue'[h][i] = queue'[k][j]
         PROVE  h = k /\ i = j
    <3>1. CASE h = g /\ k = g
      <4>1. i + 1 = j + 1
        BY <2>4, <2>11, <3>1 DEF Placed, Apart
      <4>2. QED
        BY <2>4, <3>1, <4>1
    <3>2. CASE h # g /\ k # g
      BY <2>3, <2>11, <3>2 DEF Placed, Apart
    <3>3. CASE h = g /\ k # g
      BY <2>3, <2>4, <2>11, <3>3 DEF Placed, Apart
    <3>4. CASE h # g /\ k = g
      BY <2>3, <2>4, <2>11, <3>4 DEF Placed, Apart
    <3>5. QED
      BY <3>1, <3>2, <3>3, <3>4
  <2>12. ASSUME NEW h \in Gens, NEW k \in Gens
         PROVE  /\ (AtReader(h) /\ AtReader(k) /\ h # k
                       => reading[h] # reading[k])'
                /\ (AtWorker(h) /\ AtWorker(k) /\ h # k
                       => handling[h] # handling[k])'
                /\ (AtReader(h) /\ AtWorker(k) => reading[h] # handling[k])'
    BY <2>1, <2>5, <2>6, <2>7, <2>8 DEF Placed, Apart
  <2>13. ASSUME NEW h \in Gens, NEW k \in Gens, NEW i \in DOMAIN queue'[h]
         PROVE  /\ (AtReader(k) => queue[h][i] # reading[k])'
                /\ (AtWorker(k) => queue[h][i] # handling[k])'
    BY <2>1, <2>5, <2>6, <2>8, <2>10 DEF Placed, Apart
  <2>14. QED
    BY <2>9, <2>11, <2>12, <2>13 DEF Placed, Apart
<1>13. ASSUME NEW g \in Gens,
              HandleSkip(g) \/ HandleSilent(g) \/ HandleSend(g)
       PROVE  Placed'
  <2>1. /\ AtWorker(g) /\ worker' = [worker EXCEPT ![g] = "wait"]
        /\ handling' = [handling EXCEPT ![g] = NoMsg]
        /\ UNCHANGED <<reader, reading, queue>>
        /\ \E f \in Fates : fate' = [fate EXCEPT ![handling[g]] = f]
    BY <1>13
       DEF HandleSkip, HandleSilent, HandleSend, Finish, AtWorker, Fates,
           readerVars
  <2>2. \A h \in Gens :
            /\ AtWorker(h) /\ h # g => handling[h] # handling[g]
            /\ AtReader(h) => reading[h] # handling[g]
            /\ \A i \in DOMAIN queue[h] : queue[h][i] # handling[g]
    BY <2>1 DEF Placed, Apart
  <2>3. /\ handling[g] \in Msgs
        /\ \A h \in Gens : AtReader(h)' => AtReader(h)
        /\ \A h \in Gens :
               AtWorker(h)' => /\ h # g /\ AtWorker(h)
                               /\ handling'[h] = handling[h]
    BY <1>1, <2>1 DEF AtReader, AtWorker
  <2>4. QED
    BY <1>1, <2>1, <2>2, <2>3, PlacedOver
<1>14. QED
  BY <1>3, <1>5, <1>6, <1>7, <1>10, <1>11, <1>12, <1>13
     DEF Next, Commands, StartSteps, ReaderSteps, WorkerSteps

(* A message that was read was read by a readLoop.                         *)
ReadByReader ==
    \A m \in Msgs :
        fate[m] # "new" => readBy[m] \in Gens /\ reader[readBy[m]] # "none"

Turned == ReadByReader /\ TurnedAwayOnlyByStop

LEMMA TurnedInit == Init => Turned
  BY DEF Init, Turned, ReadByReader, TurnedAwayOnlyByStop

(* One step per action that reads a message, turns one away or stops a     *)
(* generation.                                                             *)
LEMMA TurnedNext ==
    /\ Typed /\ InService /\ Connected /\ Placed /\ Turned
    /\ [Next]_vars
    => Turned'
<1> SUFFICES ASSUME Typed, InService, Connected, Placed, Turned, [Next]_vars
             PROVE  Turned'
  OBVIOUS
<1> USE DEF Turned, ReadByReader, TurnedAwayOnlyByStop
<1>1. /\ reader \in [Gens -> ReaderPC] /\ fate \in [Msgs -> Fates]
      /\ readBy \in [Msgs -> GenOrNil] /\ cancelled \subseteq Gens
      /\ taken \in [conn : GenOrNil, cancel : GenOrNil] /\ running \in BOOLEAN
      /\ \A g \in Gens : AtReader(g) => reading[g] \in Msgs
      /\ \A g \in Gens : AtWorker(g) => handling[g] \in Msgs
      /\ Nil \notin Gens
  BY GenTypes
     DEF Typed, Reader, ReaderType, ReaderLocals, Worker, WorkerType,
         WorkerLocals, MessageType, Prompt, PromptType, FlagType, AtReader,
         AtWorker
<1>2. ASSUME NEW g \in Gens, reader[g] # "none",
             conn = Nil \/ messageQueue = Nil
      PROVE  \/ g \in cancelled
             \/ prompt = "stopCancel" /\ taken.cancel = g
  <2>1. ~running
    BY <1>1, <1>2 DEF InService, RunningServed
  <2>2. QED
    BY <1>2, <2>1 DEF Connected, Stoppable
<1>3. ASSUME fate' = fate, readBy' = readBy, cancelled \subseteq cancelled',
             prompt = "stopCancel" => UNCHANGED <<prompt, taken>>,
             \A g \in Gens : reader[g] # "none" => reader'[g] # "none"
      PROVE  Turned'
  BY <1>3
<1>4. CASE StartAgain \/ Exited \/ ChildExits \/ UNCHANGED vars
  BY <1>3, <1>4
     DEF StartAgain, Exited, ChildExits, vars, promptVars, readerVars,
         workerVars, messageVars
<1>5. CASE \/ Commands \/ StartSteps
           \/ StopSteps /\ ~StopCancel
  <2>1. /\ prompt # "stopCancel" /\ UNCHANGED <<fate, readBy>>
        /\ cancelled \subseteq cancelled'
        /\ \/ reader' = reader
           \/ reader' = [reader EXCEPT ![opened] = "read"]
    BY <1>5
       DEF Commands, StartAgain, StartNotReady, StartOpen, StopTake, StartSteps,
           StartNapCatOk, StartNapCatFails, StartConnOk, StartConnFails,
           StopSteps, StopConn, StopClose, StopNapCat, StopCloseACP, vars,
           readerVars, workerVars, messageVars
  <2>2. QED
    BY <1>1, <1>3, <2>1
<1>6. CASE StopCancel
  BY <1>1, <1>6 DEF StopCancel, readerVars, messageVars
<1>7. ASSUME NEW g \in Gens, NEW m \in Msgs, ReaderRead(g, m) PROVE Turned'
  <2>1. /\ fate' = [fate EXCEPT ![m] = "live"] /\ reader[g] # "none"
        /\ readBy' = [readBy EXCEPT ![m] = g]
        /\ reader' = [reader EXCEPT ![g] = "lookup"]
        /\ UNCHANGED <<prompt, taken, cancelled>>
    BY <1>7 DEF ReaderRead, promptVars, workerVars
  <2>2. QED
    BY <1>1, <2>1
<1>8. ASSUME NEW m \in Msgs, NEW f \in Fates, fate[m] # "new",
             fate' = [fate EXCEPT ![m] = f],
             f = "turnedAway" => conn = Nil \/ messageQueue = Nil,
             UNCHANGED <<prompt, taken, cancelled, readBy>>,
             \A g \in Gens : reader[g] # "none" => reader'[g] # "none"
      PROVE  Turned'
  <2>1. readBy[m] \in Gens /\ reader[readBy[m]] # "none"
    BY <1>8
  <2>2. ASSUME f = "turnedAway"
        PROVE  \/ readBy[m] \in cancelled
               \/ prompt = "stopCancel" /\ taken.cancel = readBy[m]
    BY <1>2, <1>8, <2>1, <2>2
  <2>3. QED
    BY <1>1, <1>8, <2>1, <2>2
<1>9. ASSUME NEW g \in Gens, EnqueueNoQueue(g) \/ EnqueueSend(g) PROVE Turned'
  <2>1. /\ AtReader(g) /\ UNCHANGED <<prompt, taken, cancelled, readBy>>
        /\ reader' = [reader EXCEPT ![g] = IF g \in held THEN "read"
                                           ELSE "release"]
        /\ \/ fate' = fate
           \/ \E f \in Fates :
                  /\ fate' = [fate EXCEPT ![reading[g]] = f]
                  /\ f = "turnedAway" => messageQueue = Nil
    BY <1>9
       DEF EnqueueNoQueue, EnqueueSend, ReaderNext, AtReader, Fates, promptVars,
           workerVars
  <2>2. reading[g] \in Msgs /\ fate[reading[g]] # "new"
    BY <1>1, <2>1 DEF Placed, Live
  <2>3. \A h \in Gens : reader[h] # "none" => reader'[h] # "none"
    BY <1>1, <2>1
  <2>4. QED
    BY <1>3, <1>8, <2>1, <2>2, <2>3
<1>10. ASSUME NEW g \in Gens,
              \/ EnqueueLookup(g) \/ ReaderFails(g) \/ ReaderRelease(g)
              \/ ReaderClose(g) \/ WsBreaks(g)
       PROVE  Turned'
  <2>1. /\ UNCHANGED <<prompt, taken, cancelled, fate, readBy>>
        /\ \/ reader' = reader
           \/ \E r \in ReaderPC \ {"none"} : reader' = [reader EXCEPT ![g] = r]
    BY <1>10
       DEF EnqueueLookup, ReaderFails, ReaderRelease, ReaderClose, WsBreaks,
           ReaderPC, promptVars, workerVars, messageVars
  <2>2. QED
    BY <1>1, <1>3, <2>1
<1>11. ASSUME NEW g \in Gens, HandleSkip(g) \/ HandleSilent(g) \/ HandleSend(g)
       PROVE  Turned'
  <2>1. /\ AtWorker(g) /\ UNCHANGED <<prompt, taken, cancelled, readBy, reader>>
        /\ \E f \in Fates : /\ fate' = [fate EXCEPT ![handling[g]] = f]
                            /\ f = "turnedAway" => conn = Nil
    BY <1>11
       DEF HandleSkip, HandleSilent, HandleSend, Finish, AtWorker, Fates,
           promptVars, readerVars
  <2>2. handling[g] \in Msgs /\ fate[handling[g]] # "new"
    BY <1>1, <2>1 DEF Placed, Live
  <2>3. QED
    BY <1>8, <2>1, <2>2
<1>12. ASSUME NEW g \in Gens,
              \/ WorkerExit(g) \/ WorkerTake(g) \/ HandleSnapshot(g)
              \/ LockSession(g) \/ HandleReply(g) \/ HandleHeld(g)
       PROVE  Turned'
  BY <1>3, <1>12
     DEF WorkerExit, WorkerTake, HandleSnapshot, LockSession, HandleReply, HandleHeld,
         promptVars, readerVars, messageVars
<1>13. QED
  BY <1>4, <1>5, <1>6, <1>7, <1>9, <1>10, <1>11, <1>12
     DEF Next, StopSteps, ReaderSteps, WorkerSteps

(* A message that was read is turned away only when its generation was     *)
(* stopped: no failing or repeated Start loses messages of a bridge that   *)
(* runs (enqueueMessage's and handleMessage's nil checks).                 *)
THEOREM OnlyStopTurnsAway == Spec => []TurnedAwayOnlyByStop
<1>1. Turned => TurnedAwayOnlyByStop
  BY DEF Turned
<1>2. QED
  BY <1>1, ConnectedAlways, PlacedInit, PlacedNext, TurnedInit, TurnedNext,
     PTL DEF Spec

-----------------------------------------------------------------------------
(* Bridge implements ChatService.                                          *)

Active(m) == \E g \in Gens : InSession(g) /\ handling[g] = m

(* A worker that was not made yet does nothing. *)
Unmade == \A g \in Gens : g > opened => worker[g] = "none"

LEMMA UnmadeInit == Init => Unmade
  BY DEF Init, Unmade

LEMMA UnmadeNext == Typed /\ Unmade /\ [Next]_vars => Unmade'
<1> SUFFICES ASSUME Typed, Unmade, [Next]_vars PROVE Unmade'
  OBVIOUS
<1> USE DEF Unmade
<1>1. worker \in [Gens -> WorkerPC] /\ opened \in Nat /\ Gens \subseteq Nat
  BY BoundAssumption
     DEF Typed, Worker, WorkerType, ServiceType, Gens, GenOrNil
<1>2. UNCHANGED <<worker, opened>> => Unmade'
  OBVIOUS
<1>3. CASE StartOpen
  BY <1>1, <1>3 DEF StartOpen
<1>4. ASSUME NEW g \in Gens, WorkerSteps(g) PROVE Unmade'
  <2>1. /\ worker[g] # "none" /\ opened' = opened
        /\ \A h \in Gens \ {g} : worker'[h] = worker[h]
    BY <1>1, <1>4
       DEF WorkerSteps, WorkerExit, WorkerTake, HandleSkip, HandleSnapshot,
           LockSession, HandleSilent, HandleReply, HandleHeld, HandleSend, Finish,
           serviceVars
  <2>2. QED
    BY <1>1, <2>1
<1>5. QED
  BY <1>2, <1>3, <1>4
     DEF Next, Commands, StartSteps, StopSteps, ReaderSteps, StartAgain,
         StartNotReady, StartNapCatOk, StartNapCatFails, StartConnOk,
         StartConnFails, StopTake, StopCancel, StopConn, StopClose, StopNapCat,
         StopCloseACP, ReaderRead, EnqueueNoQueue, EnqueueLookup, EnqueueSend,
         ReaderFails, ReaderRelease, ReaderClose, WsBreaks, ChildExits, Exited,
         vars, serviceVars, workerVars

LEMMA PhaseCases ==
    ASSUME NEW m
    PROVE  Phase(m) = IF Over(m) THEN "over"
                      ELSE IF Active(m) THEN "active"
                      ELSE IF fate[m] = "new" THEN "new" ELSE "waiting"
  BY DEF Phase, Active

LEMMA PromiseInit == Init => Promise!Init
<1> SUFFICES ASSUME Init PROVE Promise!Init
  OBVIOUS
<1>1. \A m \in Msgs : Phase(m) = "new" /\ fate[m] # "answered"
  BY DEF Init, Phase, Over, InSession
<1>2. QED
  BY <1>1 DEF Promise!Init

(* One step per action that moves a message to another phase.              *)
LEMMA PromiseNext ==
    /\ Typed /\ LockHeld /\ Placed /\ Unmade /\ [Next]_vars
    => [Promise!Next]_(Promise!vars)
<1> SUFFICES ASSUME Typed, LockHeld, Placed, Unmade, [Next]_vars
             PROVE  [Promise!Next]_(Promise!vars)
  OBVIOUS
<1> DEFINE phase == [m \in Msgs |-> Phase(m)]
           answered == {m \in Msgs : fate[m] = "answered"}
<1>1. /\ worker \in [Gens -> WorkerPC] /\ fate \in [Msgs -> Fates]
      /\ handling \in [Gens -> Msgs \cup {NoMsg}]
      /\ \A g \in Gens : AtWorker(g) => handling[g] \in Msgs
      /\ \A g \in Gens : AtReader(g) => reading[g] \in Msgs
      /\ sessionLock \in [Keys -> GenOrNil] /\ Nil \notin Gens
      /\ KeyOf \in [Msgs -> Keys]
  BY GenTypes, MsgAssumption
     DEF Typed, Reader, ReaderLocals, Worker, WorkerType, WorkerLocals,
         MessageType, AtReader, AtWorker
<1>2. ASSUME fate' = fate, \A m \in Msgs : Active(m)' = Active(m)
      PROVE  UNCHANGED <<phase, answered>>
  <2>1. \A m \in Msgs : Phase(m)' = Phase(m)
    BY <1>2, PhaseCases DEF Over, Phase, Active
  <2>2. QED
    BY <1>2, <2>1
<1>3. ASSUME NEW m \in Msgs, \A n \in Msgs \ {m} : Phase(n)' = Phase(n)
      PROVE  phase' = [phase EXCEPT ![m] = Phase(m)']
  BY <1>3
<1>4. UNCHANGED <<phase, answered>> => [Promise!Next]_(Promise!vars)
  BY DEF Promise!vars
<1>5. ASSUME UNCHANGED <<worker, handling, fate>>
      PROVE  [Promise!Next]_(Promise!vars)
  BY <1>2, <1>4, <1>5 DEF Active, InSession
<1>6. ASSUME NEW g \in Gens, NEW m \in Msgs, ReaderRead(g, m)
      PROVE  Promise!Accept(m)
  <2>1. /\ fate[m] = "new" /\ fate' = [fate EXCEPT ![m] = "live"]
        /\ UNCHANGED <<worker, handling>>
    BY <1>6 DEF ReaderRead, workerVars
  <2>2. ~Active(m)
    BY <2>1 DEF Placed, Live, Active, AtWorker, InSession
  <2>3. \A n \in Msgs : Active(n)' = Active(n)
    BY <2>1 DEF Active, InSession
  <2>4. Phase(m) = "new" /\ Phase(m)' = "waiting"
    BY <1>1, <2>1, <2>2, <2>3, PhaseCases DEF Over, Phase, Active
  <2>5. \A n \in Msgs \ {m} : Phase(n)' = Phase(n)
    BY <1>1, <2>1, <2>3, PhaseCases DEF Over, Phase, Active
  <2>6. answered' = answered
    BY <1>1, <2>1
  <2>7. QED
    BY <1>3, <2>4, <2>5, <2>6 DEF Promise!Accept
<1>7. ASSUME NEW m \in Msgs, fate[m] = "live", ~Active(m),
             NEW f \in {"queueFull", "turnedAway", "unanswered"},
             fate' = [fate EXCEPT ![m] = f],
             \A n \in Msgs \ {m} : Active(n)' = Active(n)
      PROVE  Promise!Drop(m)
  <2>1. Phase(m) = "waiting" /\ Phase(m)' = "over"
    BY <1>1, <1>7, PhaseCases DEF Over, Phase
  <2>2. \A n \in Msgs \ {m} : Phase(n)' = Phase(n)
    BY <1>1, <1>7, PhaseCases DEF Over, Phase, Active
  <2>3. answered' = answered
    BY <1>1, <1>7
  <2>4. QED
    BY <1>3, <2>1, <2>2, <2>3 DEF Promise!Drop
<1>8. ASSUME NEW g \in Gens, EnqueueNoQueue(g) \/ EnqueueSend(g)
      PROVE  [Promise!Next]_(Promise!vars)
  <2>1. /\ AtReader(g) /\ UNCHANGED <<worker, handling>>
        /\ \/ fate' = fate
           \/ \E f \in {"queueFull", "turnedAway"} :
                  fate' = [fate EXCEPT ![reading[g]] = f]
    BY <1>8 DEF EnqueueNoQueue, EnqueueSend, AtReader, workerVars
  <2>2. /\ reading[g] \in Msgs /\ fate[reading[g]] = "live"
        /\ ~Active(reading[g])
    BY <1>1, <2>1 DEF Placed, Live, Apart, Active, AtWorker, InSession
  <2>3. \A n \in Msgs : Active(n)' = Active(n)
    BY <2>1 DEF Active, InSession
  <2>4. fate' = fate \/ Promise!Drop(reading[g])
    BY <1>7, <2>1, <2>2, <2>3
  <2>5. QED
    BY <1>5, <2>1, <2>2, <2>4 DEF Promise!Next
<1>9. ASSUME NEW g \in Gens, AtWorker(g)
      PROVE  /\ handling[g] \in Msgs /\ fate[handling[g]] = "live"
             /\ \A h \in Gens \ {g} :
                    InSession(h) => handling[h] # handling[g]
  BY <1>1, <1>9 DEF Placed, Live, Apart, AtWorker, InSession
<1>10. ASSUME NEW g \in Gens, AtWorker(g), NEW f, Finish(g, f)
       PROVE  /\ fate' = [fate EXCEPT ![handling[g]] = f]
              /\ \A n \in Msgs \ {handling[g]} : Active(n)' = Active(n)
  <2>1. \A h \in Gens \ {g} : /\ InSession(h)' = InSession(h)
                              /\ handling'[h] = handling[h]
    BY <1>1, <1>10 DEF Finish, InSession
  <2>2. ~InSession(g)'
    BY <1>1, <1>10 DEF Finish, InSession
  <2>3. QED
    BY <1>10, <2>1, <2>2 DEF Finish, Active
<1>11. ASSUME NEW g \in Gens, NEW m \in Msgs, m = handling[g], HandleSkip(g)
       PROVE  Promise!Drop(m)
  <2>1. /\ AtWorker(g) /\ ~InSession(g)
        /\ \E f \in {"turnedAway", "unanswered"} : Finish(g, f)
    BY <1>11 DEF HandleSkip, AtWorker, InSession
  <2>2. fate[m] = "live" /\ ~Active(m)
    BY <1>9, <1>11, <2>1 DEF Active
  <2>3. QED
    BY <1>7, <1>10, <1>11, <2>1, <2>2
<1>12. ASSUME NEW g \in Gens, NEW m \in Msgs, m = handling[g], LockSession(g)
       PROVE  Promise!Begin(m)
  <2>1. /\ AtWorker(g) /\ ~InSession(g) /\ sessionLock[KeyOf[m]] = Nil
        /\ worker' = [worker EXCEPT ![g] = "run"]
        /\ UNCHANGED <<handling, fate>>
    BY <1>12 DEF LockSession, AtWorker, InSession, messageVars
  <2>2. fate[m] = "live" /\ ~Active(m)
    BY <1>9, <1>12, <2>1 DEF Active
  <2>3. InSession(g)' /\ \A h \in Gens \ {g} : InSession(h)' = InSession(h)
    BY <1>1, <2>1 DEF InSession
  <2>4. Active(m)' /\ \A n \in Msgs \ {m} : Active(n)' = Active(n)
    BY <1>12, <2>1, <2>3 DEF Active
  <2>5. ASSUME NEW n \in Msgs, KeyOf[n] = KeyOf[m], Phase(n) = "active"
        PROVE  FALSE
    <3>1. PICK h \in Gens : InSession(h) /\ handling[h] = n
      BY <2>5, PhaseCases DEF Active
    <3>2. sessionLock[KeyOf[n]] = h
      BY <3>1 DEF LockHeld
    <3>3. QED
      BY <1>1, <2>1, <2>5, <3>2
  <2>6. Phase(m) = "waiting" /\ Phase(m)' = "active"
    BY <2>1, <2>2, <2>4, PhaseCases DEF Over, Phase, Active
  <2>7. \A n \in Msgs \ {m} : Phase(n)' = Phase(n)
    BY <2>1, <2>4, PhaseCases DEF Over, Phase, Active
  <2>8. answered' = answered
    BY <2>1
  <2>9. QED
    BY <1>3, <2>5, <2>6, <2>7, <2>8 DEF Promise!Begin
<1>13. ASSUME NEW g \in Gens, NEW m \in Msgs, m = handling[g],
              HandleSilent(g) \/ HandleSend(g)
       PROVE  Promise!End(m)
  <2>1. /\ AtWorker(g) /\ InSession(g)
        /\ \E f \in {"answered", "unanswered"} : Finish(g, f)
    BY <1>13 DEF HandleSilent, HandleSend, AtWorker, InSession
  <2>2. PICK f \in {"answered", "unanswered"} : Finish(g, f)
    BY <2>1
  <2>3. fate[m] = "live" /\ Active(m)
    BY <1>9, <1>13, <2>1 DEF Active
  <2>4. /\ fate' = [fate EXCEPT ![m] = f]
        /\ \A n \in Msgs \ {m} : Active(n)' = Active(n)
    BY <1>10, <1>13, <2>1, <2>2
  <2>5. Phase(m) = "active" /\ Phase(m)' = "over"
    BY <1>1, <2>3, <2>4, PhaseCases DEF Over, Phase
  <2>6. \A n \in Msgs \ {m} : Phase(n)' = Phase(n)
    BY <1>1, <2>4, PhaseCases DEF Over, Phase, Active
  <2>7. answered' \in {answered, answered \cup {m}}
    BY <1>1, <2>3, <2>4
  <2>8. QED
    BY <1>3, <2>5, <2>6, <2>7 DEF Promise!End
<1>14. ASSUME NEW g \in Gens,
              \/ WorkerExit(g) \/ WorkerTake(g) \/ HandleSnapshot(g)
              \/ HandleReply(g) \/ HandleHeld(g)
       PROVE  [Promise!Next]_(Promise!vars)
  <2>1. /\ fate' = fate
        /\ \A h \in Gens : /\ InSession(h)' = InSession(h)
                           /\ InSession(h) => handling'[h] = handling[h]
    BY <1>1, <1>14
       DEF WorkerExit, WorkerTake, HandleSnapshot, HandleReply, HandleHeld, InSession,
           messageVars
  <2>2. QED
    BY <1>2, <1>4, <2>1 DEF Active
<1>15. CASE StartOpen
  <2>1. /\ UNCHANGED <<fate, handling>> /\ opened + 1 > opened
        /\ worker' = [worker EXCEPT ![opened + 1] = "wait"]
    BY <1>15, BoundAssumption
       DEF StartOpen, messageVars, Typed, ServiceType, GenOrNil
  <2>2. \A h \in Gens : InSession(h)' = InSession(h)
    BY <1>1, <2>1 DEF InSession, Unmade
  <2>3. QED
    BY <1>2, <1>4, <2>1, <2>2 DEF Active
<1>16. CASE \/ StartAgain \/ StartNotReady \/ \E quit \in Quits : StopTake(quit)
            \/ StartSteps \/ StopSteps \/ ChildExits \/ Exited
            \/ UNCHANGED vars
            \/ \E g \in Gens :
                   \/ EnqueueLookup(g) \/ ReaderFails(g) \/ ReaderRelease(g)
                   \/ ReaderClose(g) \/ WsBreaks(g)
  BY <1>5, <1>16
     DEF StartAgain, StartNotReady, StopTake, StartSteps, StartNapCatOk,
         StartNapCatFails, StartConnOk, StartConnFails, StopSteps, StopCancel,
         StopConn, StopClose, StopNapCat, StopCloseACP, ChildExits, Exited,
         EnqueueLookup, ReaderFails, ReaderRelease, ReaderClose, WsBreaks,
         vars, readerVars, workerVars, messageVars
<1>17. ASSUME NEW g \in Gens,
              \/ HandleSkip(g) \/ LockSession(g) \/ HandleSilent(g)
              \/ HandleSend(g)
       PROVE  Promise!Next
  <2>1. AtWorker(g)
    BY <1>17 DEF HandleSkip, LockSession, HandleSilent, HandleSend, AtWorker
  <2>2. PICK m \in Msgs : m = handling[g]
    BY <1>9, <2>1
  <2>3. QED
    BY <1>11, <1>12, <1>13, <1>17, <2>2 DEF Promise!Next
<1>18. ASSUME NEW g \in Gens, NEW m \in Msgs, ReaderRead(g, m)
       PROVE  Promise!Next
  BY <1>6, <1>18 DEF Promise!Next
<1>19. QED
  BY <1>8, <1>14, <1>15, <1>16, <1>17, <1>18
     DEF Next, Commands, ReaderSteps, WorkerSteps

(* However often the bridge is stopped, started and disconnected, a        *)
(* message goes through its chat's session at most once, alone, and is     *)
(* answered only there.                                                    *)
THEOREM KeepsItsPromise == Spec => ImplementsChatService
<1>1. Spec => [](Typed /\ LockHeld /\ Placed /\ Unmade)
  BY TypedAlways, LockHeldInit, LockHeldNext, PlacedInit, PlacedNext,
     UnmadeInit, UnmadeNext, PTL DEF Spec
<1>2. QED
  BY <1>1, PromiseInit, PromiseNext, PTL
     DEF Spec, ImplementsChatService, Promise!Spec

-----------------------------------------------------------------------------
(* The mutexes from the other side: one that is locked is held by a worker *)
(* inside that very session.                                               *)

MutexIsInUse ==
    \A k \in Keys :
        sessionLock[k] # Nil => /\ InSession(sessionLock[k])
                                /\ KeyOf[handling[sessionLock[k]]] = k

LEMMA MutexInit == Init => MutexIsInUse
  BY DEF Init, MutexIsInUse

(* Only the actions that enter or leave a session matter.                  *)
LEMMA MutexNext ==
    Typed /\ Unmade /\ MutexIsInUse /\ [Next]_vars => MutexIsInUse'
<1> SUFFICES ASSUME Typed, Unmade, MutexIsInUse, [Next]_vars
             PROVE  MutexIsInUse'
  OBVIOUS
<1> USE DEF vars, serviceVars, promptVars, readerVars, workerVars, messageVars
<1>1. /\ worker \in [Gens -> WorkerPC] /\ sessionLock \in [Keys -> GenOrNil]
      /\ handling \in [Gens -> Msgs \cup {NoMsg}]
      /\ \A g \in Gens : InSession(g) => KeyOf[handling[g]] \in Keys
      /\ \A g \in Gens : worker[g] = "lock" => KeyOf[handling[g]] \in Keys
      /\ \A k \in Keys : sessionLock[k] # Nil => sessionLock[k] \in Gens
  BY GenTypes, MsgAssumption
     DEF Typed, Worker, WorkerType, WorkerLocals, InSession
<1>2. UNCHANGED <<worker, handling, sessionLock>> => MutexIsInUse'
  BY DEF MutexIsInUse, InSession
<1>3. ASSUME sessionLock' = sessionLock,
             \A h \in Gens : InSession(h) => /\ InSession(h)'
                                             /\ handling'[h] = handling[h]
      PROVE  MutexIsInUse'
  BY <1>1, <1>3 DEF MutexIsInUse, InSession
<1>4. CASE StartOpen
  <2>1. /\ UNCHANGED <<handling, sessionLock>>
        /\ worker' = [worker EXCEPT ![opened + 1] = "wait"]
        /\ opened + 1 > opened
    BY <1>4, BoundAssumption DEF StartOpen, Typed, ServiceType, GenOrNil
  <2>2. QED
    BY <1>1, <1>3, <2>1 DEF InSession, Unmade
<1>5. ASSUME NEW g \in Gens,
             \/ WorkerExit(g) \/ WorkerTake(g) \/ HandleSkip(g)
             \/ HandleSnapshot(g) \/ HandleReply(g) \/ HandleHeld(g)
      PROVE  MutexIsInUse'
  <2>1. /\ sessionLock' = sessionLock
        /\ \/ handling' = handling
           \/ ~InSession(g) /\ \E x : handling' = [handling EXCEPT ![g] = x]
        /\ \E w \in WorkerPC :
               /\ worker' = [worker EXCEPT ![g] = w]
               /\ InSession(g) => w \in {"held", "send"}
    BY <1>5
       DEF WorkerExit, WorkerTake, HandleSkip, HandleSnapshot, HandleReply,
           HandleHeld, Finish,
           InSession, WorkerPC
  <2>2. QED
    BY <1>1, <1>3, <2>1 DEF InSession
<1>6. ASSUME NEW g \in Gens, LockSession(g) PROVE MutexIsInUse'
  <2> DEFINE key == KeyOf[handling[g]]
  <2>1. /\ worker[g] = "lock" /\ key \in Keys /\ handling' = handling
        /\ sessionLock' = [sessionLock EXCEPT ![key] = g]
        /\ worker' = [worker EXCEPT ![g] = "run"]
    BY <1>1, <1>6 DEF LockSession
  <2>2. ASSUME NEW k \in Keys, sessionLock'[k] # Nil
        PROVE  InSession(sessionLock[k])' /\ KeyOf[handling'[sessionLock'[k]]] = k
    <3>1. CASE k = key
      BY <1>1, <2>1, <3>1 DEF InSession
    <3>2. CASE k # key
      BY <1>1, <2>1, <2>2, <3>2 DEF MutexIsInUse, InSession
    <3>3. QED
      BY <3>1, <3>2
  <2>3. QED
    BY <2>2 DEF MutexIsInUse
<1>7. ASSUME NEW g \in Gens, HandleSilent(g) \/ HandleSend(g)
      PROVE  MutexIsInUse'
  <2> DEFINE key == KeyOf[handling[g]]
  <2>1. /\ InSession(g) /\ key \in Keys
        /\ sessionLock' = [sessionLock EXCEPT ![key] = Nil]
        /\ worker' = [worker EXCEPT ![g] = "wait"]
        /\ handling' = [handling EXCEPT ![g] = NoMsg]
    BY <1>1, <1>7 DEF HandleSilent, HandleSend, InSession, Finish, Unlock
  <2>2. ASSUME NEW k \in Keys, sessionLock'[k] # Nil
        PROVE  InSession(sessionLock[k])' /\ KeyOf[handling'[sessionLock'[k]]] = k
    <3>1. k # key /\ sessionLock'[k] = sessionLock[k]
      BY <1>1, <2>1, <2>2
    <3>2. /\ InSession(sessionLock[k]) /\ KeyOf[handling[sessionLock[k]]] = k
          /\ sessionLock[k] \in Gens
      BY <1>1, <2>2, <3>1 DEF MutexIsInUse
    <3>3. sessionLock[k] # g
      BY <3>1, <3>2
    <3>4. QED
      BY <1>1, <2>1, <3>1, <3>2, <3>3 DEF InSession
  <2>3. QED
    BY <2>2 DEF MutexIsInUse
<1>8. QED
  BY <1>2, <1>4, <1>5, <1>6, <1>7
     DEF Next, Commands, StartSteps, StopSteps, ReaderSteps, WorkerSteps,
         StartAgain, StartNotReady, StartNapCatOk, StartNapCatFails, StartConnOk,
         StartConnFails, StopTake, StopCancel, StopConn, StopClose, StopNapCat,
         StopCloseACP, ReaderRead, EnqueueNoQueue, EnqueueLookup, EnqueueSend,
         ReaderFails, ReaderRelease, ReaderClose, WsBreaks, ChildExits, Exited

(* A session's mutex is locked exactly while a worker is inside, which is  *)
(* the one that holds it, however it came there and whichever Stop it      *)
(* outlived: none is left locked (the unlock that handleMessage defers).   *)
THEOREM SessionsAreGuarded == Spec => []SessionGuarded
<1>1. Typed /\ LockHeld /\ MutexIsInUse => SessionGuarded
  <2> SUFFICES ASSUME Typed, LockHeld, MutexIsInUse,
                      NEW g \in Gens, NEW k \in Keys
               PROVE  sessionLock[k] = g <=> InSession(g) /\ KeyOf[handling[g]] = k
    BY DEF SessionGuarded
  <2>1. g # Nil
    BY GenTypes
  <2> QED
    BY <2>1 DEF LockHeld, MutexIsInUse
<1> QED
  BY <1>1, TypedAlways, LockHeldInit, LockHeldNext, UnmadeInit, UnmadeNext,
     MutexInit, MutexNext, PTL DEF Spec

-----------------------------------------------------------------------------
(* Where a live message is.  The queues that may still be sent to have a   *)
(* worker, and a worker only ends when it was cancelled.                   *)

Where(m, g) ==
    \/ AtReader(g) /\ reading[g] = m
    \/ AtWorker(g) /\ handling[g] = m
    \/ Manned(g) /\ \E i \in DOMAIN queue[g] : queue[g][i] = m

AllManned ==
    /\ messageQueue # Nil => worker[messageQueue] # "none"
    /\ \A g \in Gens : reader[g] = "send" => worker[target[g]] # "none"
    /\ \A g \in Gens : worker[g] = "exited" => g \in cancelled

Followed == AllManned /\ NoMessageIsLost

LEMMA FollowedInit == Init => Followed
  BY GenTypes DEF Init, Followed, AllManned, NoMessageIsLost

LEMMA WhereLive ==
    NoMessageIsLost
        <=> \A m \in Msgs : fate[m] = "live" => \E g \in Gens : Where(m, g)
  BY DEF NoMessageIsLost, Where, AtReader, AtWorker

(* A worker once made stays, and a cancelled one stays cancelled.          *)
LEMMA WorkersStay ==
    Typed /\ [Next]_vars
    => /\ cancelled \subseteq cancelled'
       /\ \A g \in Gens : worker[g] # "none" => worker'[g] # "none"
<1> SUFFICES ASSUME Typed, [Next]_vars
             PROVE  /\ cancelled \subseteq cancelled'
                    /\ \A g \in Gens : worker[g] # "none" => worker'[g] # "none"
  OBVIOUS
<1>1. worker \in [Gens -> WorkerPC]
  BY DEF Typed, Worker, WorkerType
<1>2. CASE StartOpen
  BY <1>1, <1>2 DEF StartOpen
<1>3. ASSUME NEW g \in Gens, WorkerSteps(g)
      PROVE  /\ cancelled' = cancelled
             /\ \E w \in WorkerPC \ {"none"} : worker' = [worker EXCEPT ![g] = w]
  BY <1>3
     DEF WorkerSteps, WorkerExit, WorkerTake, HandleSkip, HandleSnapshot,
         LockSession, HandleSilent, HandleReply, HandleHeld, HandleSend, Finish,
         WorkerPC
<1>4. ASSUME NEW g \in Gens, WorkerSteps(g)
      PROVE  \A h \in Gens : worker[h] # "none" => worker'[h] # "none"
  BY <1>1, <1>3, <1>4
<1>5. QED
  BY <1>2, <1>3, <1>4
     DEF Next, Commands, StartSteps, StopSteps, ReaderSteps, StartAgain,
         StartNotReady, StartNapCatOk, StartNapCatFails, StartConnOk,
         StartConnFails, StopTake, StopCancel, StopConn, StopClose, StopNapCat,
         StopCloseACP, ReaderRead, EnqueueNoQueue, EnqueueLookup, EnqueueSend,
         ReaderFails, ReaderRelease, ReaderClose, WsBreaks, ChildExits, Exited,
         vars, serviceVars, workerVars

(* Workers stay, unless they are cancelled.                                *)
LEMMA AllMannedNext == Typed /\ AllManned /\ [Next]_vars => AllManned'
<1> SUFFICES ASSUME Typed, AllManned, [Next]_vars PROVE AllManned'
  OBVIOUS
<1> USE DEF AllManned
<1>1. /\ worker \in [Gens -> WorkerPC] /\ reader \in [Gens -> ReaderPC]
      /\ target \in [Gens -> GenOrNil] /\ messageQueue \in GenOrNil
      /\ \A g \in Gens : reader[g] = "send" => target[g] \in Gens
      /\ GenOrNil = Gens \cup {Nil}
  BY GenTypes
     DEF Typed, Worker, WorkerType, Reader, ReaderType, ReaderLocals, ServiceType
<1>2. ASSUME messageQueue' \in {messageQueue, Nil}, worker' = worker,
             cancelled \subseteq cancelled', target' = target,
             \/ reader' = reader
             \/ \E g \in Gens : \E r \in ReaderPC \ {"send"} :
                    reader' = [reader EXCEPT ![g] = r]
      PROVE  AllManned'
  BY <1>1, <1>2
<1>3. ASSUME NEW g \in Gens, NEW w \in WorkerPC \ {"none"},
             messageQueue' = messageQueue, cancelled' = cancelled,
             worker' = [worker EXCEPT ![g] = w],
             w = "exited" => g \in cancelled,
             UNCHANGED <<reader, target>>
      PROVE  AllManned'
  BY <1>1, <1>3
<1>4. CASE StartOpen
  <2>1. /\ messageQueue' = opened + 1 /\ opened + 1 \in Gens
        /\ worker' = [worker EXCEPT ![opened + 1] = "wait"]
        /\ UNCHANGED <<reader, target, cancelled>>
    BY <1>4, BoundAssumption
       DEF StartOpen, readerVars, Typed, ServiceType, Gens, GenOrNil
  <2>2. QED
    BY <1>1, <2>1
<1>5. CASE \/ StartAgain \/ StartNotReady \/ \E quit \in Quits : StopTake(quit)
           \/ StartSteps \/ StopSteps \/ ChildExits \/ Exited
           \/ UNCHANGED vars
  <2>1. /\ messageQueue' \in {messageQueue, Nil} /\ worker' = worker
        /\ cancelled \subseteq cancelled' /\ target' = target
        /\ \/ reader' = reader
           \/ StartConnOk /\ reader' = [reader EXCEPT ![opened] = "read"]
    BY <1>5
       DEF StartAgain, StartNotReady, StopTake, StartSteps, StartNapCatOk,
           StartNapCatFails, StartConnOk, StartConnFails, StopSteps, StopCancel,
           StopConn, StopClose, StopNapCat, StopCloseACP, ChildExits, Exited,
           vars, serviceVars, readerVars, workerVars
  <2>2. StartConnOk => opened \in Gens
    BY DEF StartConnOk, Typed, Prompt, PromptLocals
  <2>3. QED
    BY <1>2, <2>1, <2>2 DEF ReaderPC
<1>6. ASSUME NEW g \in Gens,
             \/ \E m \in Msgs : ReaderRead(g, m)
             \/ ReaderFails(g) \/ ReaderRelease(g) \/ ReaderClose(g)
             \/ WsBreaks(g) \/ EnqueueNoQueue(g)
      PROVE  AllManned'
  <2>1. /\ UNCHANGED <<messageQueue, worker, cancelled, target>>
        /\ \/ reader' = reader
           \/ \E r \in ReaderPC \ {"send"} : reader' = [reader EXCEPT ![g] = r]
    BY <1>6
       DEF ReaderRead, ReaderFails, ReaderRelease, ReaderClose, WsBreaks,
           EnqueueNoQueue, ReaderNext, serviceVars, workerVars, ReaderPC
  <2>2. QED
    BY <1>2, <2>1
<1>7. ASSUME NEW g \in Gens, EnqueueLookup(g) PROVE AllManned'
  BY <1>1, <1>7 DEF EnqueueLookup, serviceVars, workerVars
<1>8. ASSUME NEW g \in Gens, EnqueueSend(g) PROVE AllManned'
  <2>1. /\ UNCHANGED <<messageQueue, worker, cancelled>>
        /\ target' = [target EXCEPT ![g] = Nil]
        /\ \E r \in {"read", "release"} : reader' = [reader EXCEPT ![g] = r]
    BY <1>8 DEF EnqueueSend, ReaderNext, serviceVars, workerVars
  <2>2. QED
    BY <1>1, <2>1
<1>9. ASSUME NEW g \in Gens, WorkerSteps(g) PROVE AllManned'
  <2>1. /\ UNCHANGED <<messageQueue, cancelled, reader, target>>
        /\ \E w \in WorkerPC \ {"none"} : /\ worker' = [worker EXCEPT ![g] = w]
                                          /\ w = "exited" => g \in cancelled
    BY <1>9
       DEF WorkerSteps, WorkerExit, WorkerTake, HandleSkip, HandleSnapshot,
           LockSession, HandleSilent, HandleReply, HandleHeld, HandleSend, Finish,
         WorkerPC,
           serviceVars, readerVars
  <2>2. QED
    BY <1>3, <2>1
<1>10. QED
  BY <1>4, <1>5, <1>6, <1>7, <1>8, <1>9 DEF Next, Commands, ReaderSteps

(* Every action leaves a live message where it is, or hands it on.         *)
LEMMA FollowedNext ==
    /\ Typed /\ Connected /\ Unmade /\ Followed
    /\ [Next]_vars
    => Followed'
<1> SUFFICES ASSUME Typed, Connected, Unmade, Followed, [Next]_vars
             PROVE  Followed'
  OBVIOUS
<1>1. /\ reader \in [Gens -> ReaderPC] /\ worker \in [Gens -> WorkerPC]
      /\ reading \in [Gens -> Msgs \cup {NoMsg}]
      /\ handling \in [Gens -> Msgs \cup {NoMsg}]
      /\ fate \in [Msgs -> Fates] /\ queue \in [Gens -> Seq(Msgs)]
      /\ \A g \in Gens : AtReader(g) => reading[g] \in Msgs
      /\ \A g \in Gens : AtWorker(g) => handling[g] \in Msgs
      /\ \A g \in Gens : reader[g] = "send" => target[g] \in Gens
  BY DEF Typed, Reader, ReaderType, ReaderLocals, Worker, WorkerType,
         WorkerLocals, MessageType, AtReader, AtWorker
<1>2. AllManned /\ AllManned'
  BY AllMannedNext DEF Followed
<1>3. SUFFICES ASSUME NEW m \in Msgs, fate'[m] = "live"
               PROVE  \E g \in Gens : Where(m, g)'
  BY <1>2 DEF Followed, NoMessageIsLost, Where, AtReader, AtWorker
<1>4. \A g \in Gens : Manned(g) => Manned(g)'
  BY <1>2, WorkersStay DEF AllManned, Manned
<1>5. fate[m] = "live" => \E g \in Gens : Where(m, g)
  BY WhereLive DEF Followed
<1>6. ASSUME fate[m] = "live", queue' = queue,
             \A g \in Gens :
                 /\ AtReader(g) /\ reading[g] = m
                        => AtReader(g)' /\ reading'[g] = m
                 /\ AtWorker(g) /\ handling[g] = m
                        => AtWorker(g)' /\ handling'[g] = m
      PROVE  \E g \in Gens : Where(m, g)'
  BY <1>4, <1>5, <1>6 DEF Where
<1>7. CASE \/ StartAgain \/ StartNotReady \/ \E quit \in Quits : StopTake(quit)
           \/ StartNapCatOk \/ StartNapCatFails \/ StartConnFails
           \/ StopSteps \/ ChildExits \/ Exited \/ UNCHANGED vars
           \/ \E g \in Gens : WsBreaks(g)
  <2>1. UNCHANGED <<reader, reading, worker, handling, fate, queue>>
    BY <1>7
       DEF StartAgain, StartNotReady, StopTake, StartNapCatOk, StartNapCatFails,
           StartConnFails, StopSteps, StopCancel, StopConn, StopClose,
           StopNapCat, StopCloseACP, ChildExits, Exited, WsBreaks, vars,
           readerVars, workerVars, messageVars
  <2>2. QED
    BY <1>3, <1>6, <2>1 DEF AtReader, AtWorker
<1>8. CASE StartOpen
  <2>1. /\ UNCHANGED <<reader, reading, handling, fate, queue>>
        /\ worker' = [worker EXCEPT ![opened + 1] = "wait"]
        /\ opened + 1 > opened
    BY <1>8, BoundAssumption
       DEF StartOpen, readerVars, messageVars, Typed, ServiceType, GenOrNil
  <2>2. \A g \in Gens : AtWorker(g) => AtWorker(g)'
    BY <1>1, <2>1 DEF AtWorker, Unmade
  <2>3. QED
    BY <1>3, <1>6, <2>1, <2>2 DEF AtReader
<1>9. CASE StartConnOk
  <2>1. /\ UNCHANGED <<reading, worker, handling, fate, queue>>
        /\ reader' = [reader EXCEPT ![opened] = "read"]
        /\ reader[opened] = "none"
    BY <1>9 DEF StartConnOk, workerVars, messageVars, Connected, NotDialled
  <2>2. \A g \in Gens : AtReader(g) => AtReader(g)'
    BY <1>1, <2>1 DEF AtReader
  <2>3. QED
    BY <1>3, <1>6, <2>1, <2>2 DEF AtWorker
<1>10. ASSUME NEW g \in Gens,
              \/ EnqueueLookup(g) \/ ReaderFails(g) \/ ReaderRelease(g)
              \/ ReaderClose(g)
       PROVE  \E h \in Gens : Where(m, h)'
  <2>1. /\ UNCHANGED <<reading, worker, handling, fate, queue>>
        /\ \/ reader[g] = "lookup" /\ reader' = [reader EXCEPT ![g] = "send"]
           \/ ~AtReader(g) /\ \E r : reader' = [reader EXCEPT ![g] = r]
    BY <1>10
       DEF EnqueueLookup, ReaderFails, ReaderRelease, ReaderClose, AtReader,
           workerVars, messageVars
  <2>2. \A h \in Gens : AtReader(h) => AtReader(h)'
    BY <1>1, <2>1 DEF AtReader
  <2>3. QED
    BY <1>3, <1>6, <2>1, <2>2 DEF AtWorker
<1>11. ASSUME NEW g \in Gens,
              \/ WorkerExit(g) \/ HandleSnapshot(g) \/ LockSession(g)
              \/ HandleReply(g) \/ HandleHeld(g)
       PROVE  \E h \in Gens : Where(m, h)'
  <2>1. /\ UNCHANGED <<reader, reading, handling, fate, queue>>
        /\ \/ \E w \in {"lock", "run", "held", "send"} :
                  worker' = [worker EXCEPT ![g] = w]
           \/ ~AtWorker(g) /\ worker' = [worker EXCEPT ![g] = "exited"]
    BY <1>11
       DEF WorkerExit, HandleSnapshot, LockSession, HandleReply, HandleHeld, AtWorker,
           readerVars, messageVars
  <2>2. \A h \in Gens : AtWorker(h) => AtWorker(h)'
    BY <1>1, <2>1 DEF AtWorker
  <2>3. QED
    BY <1>3, <1>6, <2>1, <2>2 DEF AtReader
<1>12. ASSUME NEW g \in Gens, NEW n \in Msgs, ReaderRead(g, n)
       PROVE  \E h \in Gens : Where(m, h)'
  <2>1. /\ UNCHANGED <<worker, handling, queue>> /\ ~AtReader(g)
        /\ fate' = [fate EXCEPT ![n] = "live"]
        /\ reader' = [reader EXCEPT ![g] = "lookup"]
        /\ reading' = [reading EXCEPT ![g] = n]
    BY <1>12 DEF ReaderRead, AtReader, workerVars
  <2>2. CASE m = n
    BY <1>1, <2>1, <2>2 DEF Where, AtReader
  <2>3. CASE m # n
    <3>1. /\ fate[m] = "live"
          /\ \A h \in Gens :
                 AtReader(h) => AtReader(h)' /\ reading'[h] = reading[h]
      BY <1>1, <1>3, <2>1, <2>3 DEF AtReader
    <3>2. QED
      BY <1>6, <2>1, <3>1 DEF AtWorker
  <2>4. QED
    BY <2>2, <2>3
<1>13. ASSUME NEW g \in Gens, AtReader(g), ReaderNext(g)
       PROVE  \A h \in Gens \ {g} : /\ AtReader(h)' = AtReader(h)
                                    /\ reading'[h] = reading[h]
  BY <1>1, <1>13 DEF ReaderNext, AtReader
<1>14. ASSUME NEW g \in Gens, AtReader(g), ReaderNext(g), queue' = queue,
              UNCHANGED <<worker, handling>>,
              NEW f, f # "live", fate' = [fate EXCEPT ![reading[g]] = f]
       PROVE  \E h \in Gens : Where(m, h)'
  <2>1. m # reading[g] /\ fate[m] = "live"
    BY <1>1, <1>3, <1>14
  <2>2. QED
    BY <1>6, <1>13, <1>14, <2>1 DEF AtWorker
<1>15. ASSUME NEW g \in Gens, EnqueueNoQueue(g)
       PROVE  \E h \in Gens : Where(m, h)'
  BY <1>14, <1>15 DEF EnqueueNoQueue, AtReader, workerVars
<1>16. ASSUME NEW g \in Gens, EnqueueSend(g)
       PROVE  \E h \in Gens : Where(m, h)'
  <2>1. /\ AtReader(g) /\ reader[g] = "send" /\ ReaderNext(g)
        /\ UNCHANGED <<worker, handling>>
        /\ reading[g] \in Msgs /\ target[g] \in Gens
    BY <1>1, <1>16 DEF EnqueueSend, AtReader, workerVars
  <2>2. CASE Len(queue[target[g]]) < QueueCap
    <3> DEFINE n == Len(queue[target[g]]) + 1
    <3>1. /\ fate' = fate
          /\ queue' = [queue EXCEPT ![target[g]] = Append(@, reading[g])]
      BY <1>16, <2>2 DEF EnqueueSend
    <3>2. /\ n \in DOMAIN queue'[target[g]] /\ queue'[target[g]][n] = reading[g]
          /\ \A h \in Gens : \A i \in DOMAIN queue[h] :
                 i \in DOMAIN queue'[h] /\ queue'[h][i] = queue[h][i]
      BY <1>1, <2>1, <3>1
    <3>3. PICK q \in Gens : q = target[g]
      BY <2>1
    <3>4. fate[m] = "live"
      BY <1>3, <3>1
    <3> HIDE DEF n
    <3>5. CASE m = reading[g]
      <4>1. Manned(q)
        BY <1>2, <2>1, <3>3 DEF AllManned, Manned
      <4>2. Manned(q)' /\ n \in DOMAIN queue'[q] /\ queue'[q][n] = m
        BY <1>4, <3>2, <3>3, <3>5, <4>1
      <4>3. QED
        BY <4>2 DEF Where
    <3>6. CASE m # reading[g]
      <4>1. PICK h \in Gens : Where(m, h)
        BY <1>5, <3>4
      <4>2. CASE AtReader(h) /\ reading[h] = m
        BY <1>13, <2>1, <3>6, <4>2 DEF Where
      <4>3. CASE AtWorker(h) /\ handling[h] = m
        BY <2>1, <4>3 DEF Where, AtWorker
      <4>4. CASE Manned(h) /\ \E i \in DOMAIN queue[h] : queue[h][i] = m
        BY <1>4, <3>2, <4>4 DEF Where
      <4>5. QED
        BY <4>1, <4>2, <4>3, <4>4 DEF Where
    <3>7. QED
      BY <3>5, <3>6
  <2>3. CASE ~(Len(queue[target[g]]) < QueueCap)
    <3>1. queue' = queue /\ fate' = [fate EXCEPT ![reading[g]] = "queueFull"]
      BY <1>16, <2>3 DEF EnqueueSend
    <3>2. QED
      BY <1>14, <2>1, <3>1
  <2>4. QED
    BY <2>2, <2>3
<1>17. ASSUME NEW g \in Gens, WorkerTake(g)
       PROVE  \E h \in Gens : Where(m, h)'
  <2>1. /\ worker[g] = "wait" /\ queue[g] # <<>>
        /\ worker' = [worker EXCEPT ![g] = "check"]
        /\ handling' = [handling EXCEPT ![g] = Head(queue[g])]
        /\ queue' = [queue EXCEPT ![g] = Tail(@)]
        /\ UNCHANGED <<reader, reading, fate>>
    BY <1>17 DEF WorkerTake, readerVars
  <2>2. PICK h \in Gens : Where(m, h)
    BY <1>3, <1>5, <2>1
  <2>3. CASE AtReader(h) /\ reading[h] = m
    BY <2>1, <2>3 DEF Where, AtReader
  <2>4. CASE AtWorker(h) /\ handling[h] = m
    BY <1>1, <2>1, <2>4 DEF Where, AtWorker
  <2>5. ASSUME Manned(h), NEW i \in DOMAIN queue[h], queue[h][i] = m
        PROVE  \E k \in Gens : Where(m, k)'
    <3>1. CASE h # g
      BY <1>1, <1>4, <2>1, <2>5, <3>1 DEF Where
    <3>2. CASE h = g /\ i = 1
      <4>1. Head(queue[g]) = m
        <5>1. queue[g][1] = m
          BY <2>5, <3>2
        <5>2. QED
          BY <1>1, <2>1, <5>1
      <4>2. QED
        BY <1>1, <2>1, <4>1 DEF Where, AtWorker
    <3>3. CASE h = g /\ i # 1
      <4>1. i - 1 \in DOMAIN queue'[g] /\ queue'[g][i - 1] = m
        <5>1. i \in 1 .. Len(queue[g]) /\ i # 1 /\ queue[g][i] = m
          BY <1>1, <2>5, <3>3
        <5>2. queue[g] \in Seq(Msgs) /\ queue'[g] = Tail(queue[g])
          BY <1>1, <2>1
        <5>3. QED
          BY <5>1, <5>2
      <4>2. Manned(g)'
        BY <1>4, <2>5, <3>3
      <4>3. QED
        BY <4>1, <4>2 DEF Where
    <3>4. QED
      BY <3>1, <3>2, <3>3
  <2>6. QED
    BY <2>2, <2>3, <2>4, <2>5 DEF Where
<1>18. ASSUME NEW g \in Gens,
              HandleSkip(g) \/ HandleSilent(g) \/ HandleSend(g)
       PROVE  \E h \in Gens : Where(m, h)'
  <2>1. /\ AtWorker(g) /\ worker' = [worker EXCEPT ![g] = "wait"]
        /\ handling' = [handling EXCEPT ![g] = NoMsg]
        /\ UNCHANGED <<reader, reading, queue>>
        /\ \E f \in Fates \ {"live"} : fate' = [fate EXCEPT ![handling[g]] = f]
    BY <1>18
       DEF HandleSkip, HandleSilent, HandleSend, Finish, AtWorker, Fates,
           readerVars
  <2>2. m # handling[g] /\ fate[m] = "live"
    BY <1>1, <1>3, <2>1
  <2>3. \A h \in Gens \ {g} : /\ AtWorker(h)' = AtWorker(h)
                              /\ handling'[h] = handling[h]
    BY <1>1, <2>1 DEF AtWorker
  <2>4. QED
    BY <1>6, <2>1, <2>2, <2>3 DEF AtReader
<1>19. QED
  BY <1>7, <1>8, <1>9, <1>10, <1>11, <1>12, <1>15, <1>16, <1>17, <1>18
     DEF Next, Commands, StartSteps, ReaderSteps, WorkerSteps

(* No message that was read gets lost: one that is not disposed of is with *)
(* a goroutine or in a queue, and that queue is served unless its worker   *)
(* was cancelled (enqueueMessage, messageWorker).  With Placed: it is in   *)
(* one place only.                                                         *)
THEOREM NothingIsLost == Spec => []NoMessageIsLost
<1>1. Followed => NoMessageIsLost
  BY DEF Followed
<1>2. QED
  BY <1>1, ConnectedAlways, UnmadeInit, UnmadeNext, FollowedInit, FollowedNext,
     PTL DEF Spec
=============================================================================
