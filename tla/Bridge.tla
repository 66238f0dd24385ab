------------------------------- MODULE Bridge -------------------------------
(***************************************************************************)
(* The life cycle of bridge.Service and the path of a chat message through *)
(* it (internal/bridge/service.go), together with the NapCat connector     *)
(* that feeds it (internal/connector/napcat/napcat.go) and the operator at *)
(* the prompt (cmd/billbot/main.go), who is the only caller of Start and   *)
(* Stop.                                                                   *)
(*                                                                         *)
(* Every Start that gets past its readiness check makes a connector, a     *)
(* queue and a worker goroutine.  They are numbered together: generation g *)
(* is connector g with its WebSocket and its readLoop, queue g and worker  *)
(* g.  Nil stands for Go's nil in a field that refers to one of them.      *)
(*                                                                         *)
(* Readers, workers and the operator are concurrent.  A step of one of     *)
(* them is what it does between two points where another may be scheduled: *)
(* a section under s.mu or c.mu, one channel operation, one call to        *)
(* another process.                                                        *)
(***************************************************************************)
EXTENDS Naturals, Sequences, FiniteSets

CONSTANTS
    Msgs,        \* chat messages NapCat will deliver, each at most once
    NoMsg,       \* what a goroutine that handles nothing holds
    Keys,        \* session keys: platform, chat and user
    KeyOf,       \* the session key of each message
    QueueCap,    \* capacity of a message queue (64 in the code)
    MaxGen,      \* bound: Starts that get past the readiness check
    Breakable,   \* bound: generations whose connection may break
    Holding,     \* messages whose handler something may keep waiting
    Quits,       \* bound: whether the operator may also quit, {FALSE} or BOOLEAN
    AutoStart,   \* processes.napcat.auto_start
    StopOnExit   \* processes.napcat.stop_on_exit

ASSUME MsgAssumption == /\ NoMsg \notin Msgs /\ KeyOf \in [Msgs -> Keys]
                        /\ Holding \subseteq Msgs
ASSUME BoundAssumption == /\ QueueCap \in Nat \ {0}
                          /\ MaxGen \in Nat \ {0}
                          /\ Breakable \subseteq 1 .. MaxGen
                          /\ Quits \subseteq BOOLEAN
                          /\ AutoStart \in BOOLEAN /\ StopOnExit \in BOOLEAN

Nil == 0
Gens == 1 .. MaxGen
GenOrNil == 0 .. MaxGen

VARIABLES
    running,        \* s.running
    conn,           \* s.conn
    messageQueue,   \* s.messageQueue
    workerCancel,   \* s.workerCancel
    opened,         \* generations made so far
    prompt,         \* where the operator's command is
    taken,          \* the conn and the cancel function Stop holds
    quitting,       \* that Stop was called by quit
    child,          \* a NapCat process that the manager launched is alive
    ws,             \* WebSocket of each generation, as the network sees it
    held,           \* generations whose connector has c.conn # nil
    reader,         \* program counter of each readLoop
    reading,        \* the message a readLoop is delivering
    target,         \* the queue enqueueMessage looked up
    queue,          \* contents of each queue
    cancelled,      \* generations whose worker context is done
    worker,         \* program counter of each messageWorker
    handling,       \* the message a worker is handling
    sessionLock,    \* the worker that holds each session's mutex
    fate,           \* what became of each message
    readBy          \* the generation whose readLoop read it

serviceVars == <<running, conn, messageQueue, workerCancel, opened>>
promptVars == <<prompt, taken, quitting, child>>
readerVars == <<ws, held, reader, reading, target>>
workerVars == <<cancelled, worker, handling, sessionLock>>
messageVars == <<queue, fate, readBy>>
vars == <<serviceVars, promptVars, readerVars, workerVars, messageVars>>

PromptPC == {"ready", "startNapCat", "startConn", "stopCancel", "stopConn",
             "stopClose", "stopNapCat", "closeACP", "exited"}
ReaderPC == {"none", "read", "lookup", "send", "release", "close", "exited"}
WorkerPC == {"none", "wait", "check", "lock", "run", "held", "send", "exited"}
(* "turnedAway" is a message that met a nil queue or connector, "unanswered" *)
(* one that was handled without an answer going out.                       *)
Fates == {"new", "live", "queueFull", "turnedAway", "unanswered", "answered"}

(* A message is over once nothing will be done about it any more. *)
Over(m) == fate[m] \notin {"new", "live"}

(* The worker is between lockSession and the deferred unlock. *)
InSession(g) == worker[g] \in {"run", "held", "send"}

(* What Stop holds when there was nothing to take, and outside of Stop. *)
Nothing == [conn |-> Nil, cancel |-> Nil]

Init ==
    /\ running = FALSE
    /\ conn = Nil /\ messageQueue = Nil /\ workerCancel = Nil
    /\ opened = 0
    /\ prompt = "ready"
    /\ taken = Nothing
    /\ quitting = FALSE
    /\ child = FALSE
    /\ ws = [g \in Gens |-> "none"]
    /\ held = {}
    /\ reader = [g \in Gens |-> "none"]
    /\ reading = [g \in Gens |-> NoMsg]
    /\ target = [g \in Gens |-> Nil]
    /\ queue = [g \in Gens |-> <<>>]
    /\ cancelled = {}
    /\ worker = [g \in Gens |-> "none"]
    /\ handling = [g \in Gens |-> NoMsg]
    /\ sessionLock = [k \in Keys |-> Nil]
    /\ fate = [m \in Msgs |-> "new"]
    /\ readBy = [m \in Msgs |-> Nil]

-----------------------------------------------------------------------------
(* Service.Start, called by the prompt's "start". *)

(* Already running: nothing is done and the operator is told ok. *)
StartAgain ==
    /\ prompt = "ready" /\ running
    /\ UNCHANGED vars

(* A faulty variant of StartNotReady: readiness is checked even when the   *)
(* bridge is running.                                                      *)
StartChecksFirst ==
    /\ prompt = "ready"
    /\ conn' = Nil
    /\ UNCHANGED <<running, messageQueue, workerCancel, opened,
                   promptVars, readerVars, workerVars, messageVars>>

(* NapCat is not reachable, or resetHermesProfileOnStart fails. *)
StartNotReady ==
    /\ prompt = "ready" /\ ~running
    /\ conn' = Nil
    /\ UNCHANGED <<running, messageQueue, workerCancel, opened,
                   promptVars, readerVars, workerVars, messageVars>>

(* The section under s.mu that makes the next generation, and "go          *)
(* messageWorker".                                                         *)
StartOpen ==
    /\ prompt = "ready" /\ ~running /\ opened < MaxGen
    /\ LET g == opened + 1 IN
         /\ opened' = g
         /\ conn' = g /\ messageQueue' = g /\ workerCancel' = g
         /\ worker' = [worker EXCEPT ![g] = "wait"]
    /\ running' = TRUE
    /\ prompt' = "startNapCat"
    /\ UNCHANGED <<taken, quitting, child, readerVars,
                   cancelled, handling, sessionLock, messageVars>>

(* processes.StartNapCat succeeds, having launched a child or not. *)
StartNapCatOk ==
    /\ prompt = "startNapCat"
    /\ prompt' = "startConn"
    /\ child' \in {child, child \/ AutoStart}
    /\ UNCHANGED <<serviceVars, taken, quitting, readerVars, workerVars,
                   messageVars>>

(* processes.StartNapCat fails: no command, it does not launch, or it does *)
(* not become ready in time, and then the child it launched is left        *)
(* running.                                                                *)
StartNapCatFails ==
    /\ prompt = "startNapCat" /\ AutoStart
    /\ prompt' = "ready"
    /\ child' \in {child, TRUE}
    /\ running' = FALSE /\ conn' = Nil /\ messageQueue' = Nil
    /\ workerCancel' = Nil
    /\ cancelled' = cancelled \cup ({workerCancel} \ {Nil})
    /\ UNCHANGED <<opened, taken, quitting, readerVars,
                   worker, handling, sessionLock, messageVars>>

(* conn.Start dials NapCat and "go readLoop". *)
StartConnOk ==
    /\ prompt = "startConn"
    /\ prompt' = "ready"
    /\ ws' = [ws EXCEPT ![opened] = "open"]
    /\ held' = held \cup {opened}
    /\ reader' = [reader EXCEPT ![opened] = "read"]
    /\ UNCHANGED <<serviceVars, taken, quitting, child, reading, target,
                   workerVars, messageVars>>

(* A faulty variant of StartConnFails: s.running is left TRUE. *)
StartConnFailsStaysRunning ==
    /\ prompt = "startConn"
    /\ prompt' = "ready"
    /\ conn' = Nil
    /\ UNCHANGED <<running, messageQueue, workerCancel, opened, taken,
                   quitting, child, readerVars, workerVars, messageVars>>

(* The dial fails.  Only running and conn are reset: the queue stays in    *)
(* service and its worker is not cancelled.                                *)
StartConnFails ==
    /\ prompt = "startConn"
    /\ prompt' = "ready"
    /\ running' = FALSE /\ conn' = Nil
    /\ UNCHANGED <<messageQueue, workerCancel, opened, taken, quitting, child,
                   readerVars, workerVars, messageVars>>

-----------------------------------------------------------------------------
(* Service.Stop, called by the prompt's "stop" and "quit". *)

(* The section under s.mu that takes the generation out of service. *)
StopTake(quit) ==
    /\ prompt = "ready"
    /\ prompt' = "stopCancel"
    /\ quitting' = quit
    /\ taken' = [conn |-> conn, cancel |-> workerCancel]
    /\ running' = FALSE
    /\ conn' = Nil /\ messageQueue' = Nil /\ workerCancel' = Nil
    /\ UNCHANGED <<opened, child, readerVars, workerVars, messageVars>>

(* A faulty variant of StopCancel: the cancel function is not called. *)
StopForgetsCancel ==
    /\ prompt = "stopCancel"
    /\ prompt' = IF taken.conn # Nil THEN "stopConn" ELSE "stopNapCat"
    /\ UNCHANGED <<serviceVars, taken, quitting, child, readerVars,
                   cancelled, worker, handling, sessionLock, messageVars>>

(* cancel(), if there is one. *)
StopCancel ==
    /\ prompt = "stopCancel"
    /\ prompt' = IF taken.conn # Nil THEN "stopConn" ELSE "stopNapCat"
    /\ cancelled' = cancelled \cup ({taken.cancel} \ {Nil})
    /\ taken' = [taken EXCEPT !.cancel = Nil]
    /\ UNCHANGED <<serviceVars, quitting, child, readerVars, worker, handling,
                   sessionLock, messageVars>>

(* Where the operator is when Stop has returned, with or without an error: *)
(* quit ignores the error and leaves the program.                          *)
AfterStop == IF quitting THEN "exited" ELSE "ready"

(* Connector.Stop up to cancel(): under c.mu it takes the WebSocket, unless *)
(* the readLoop already gave it up.                                        *)
StopConn ==
    /\ prompt = "stopConn"
    /\ prompt' = IF taken.conn \in held THEN "stopClose" ELSE "stopNapCat"
    /\ taken' = IF taken.conn \in held THEN taken ELSE Nothing
    /\ held' = held \ {taken.conn}
    /\ UNCHANGED <<serviceVars, quitting, child, ws, reader, reading,
                   target, workerVars, messageVars>>

(* A faulty variant of StopClose: the WebSocket is not closed. *)
StopForgetsClose ==
    /\ prompt = "stopClose"
    /\ prompt' = "stopNapCat"
    /\ UNCHANGED <<serviceVars, taken, quitting, child, ws, held, reader,
                   reading, target, workerVars, messageVars>>

(* ws.Close, which is an error when the readLoop has closed the WebSocket  *)
(* in the meantime: then Stop returns at once.                             *)
StopClose ==
    /\ prompt = "stopClose"
    /\ prompt' = IF ws[taken.conn] = "closed" THEN AfterStop ELSE "stopNapCat"
    /\ ws' = [ws EXCEPT ![taken.conn] = "closed"]
    /\ taken' = Nothing
    /\ UNCHANGED <<serviceVars, quitting, child, held, reader, reading, target,
                   workerVars, messageVars>>

(* StopNapCat kills the managed child, when the configuration asks for it. *)
(* Kill fails on a process that is already gone, and then Stop returns.    *)
StopNapCat ==
    /\ prompt = "stopNapCat"
    /\ \/ prompt' = "closeACP" /\ child' = (child /\ ~StopOnExit)
       \/ prompt' = AfterStop /\ StopOnExit /\ child /\ child' = FALSE
    /\ UNCHANGED <<serviceVars, taken, quitting, readerVars, workerVars,
                   messageVars>>

(* hermes.ClosePersistentACP, and Stop returns nil. *)
StopCloseACP ==
    /\ prompt = "closeACP"
    /\ prompt' = AfterStop
    /\ UNCHANGED <<serviceVars, taken, quitting, child, readerVars,
                   workerVars, messageVars>>

-----------------------------------------------------------------------------
(* Connector.readLoop and its callback Service.enqueueMessage. *)

Up == prompt # "exited"

(* ReadMessage returns a message; frames that were already received can    *)
(* still be read after the WebSocket is closed.                            *)
ReaderRead(g, m) ==
    /\ Up /\ reader[g] = "read" /\ fate[m] = "new"
    /\ reader' = [reader EXCEPT ![g] = "lookup"]
    /\ reading' = [reading EXCEPT ![g] = m]
    /\ fate' = [fate EXCEPT ![m] = "live"]
    /\ readBy' = [readBy EXCEPT ![m] = g]
    /\ UNCHANGED <<serviceVars, promptVars, ws, held, target, workerVars, queue>>

(* The callback returns and the loop looks at its context again. *)
ReaderNext(g) ==
    /\ reader' = [reader EXCEPT ![g] = IF g \in held THEN "read" ELSE "release"]
    /\ reading' = [reading EXCEPT ![g] = NoMsg]

(* enqueueMessage finds no queue in service and drops the message. *)
EnqueueNoQueue(g) ==
    /\ Up /\ reader[g] = "lookup" /\ messageQueue = Nil
    /\ fate' = [fate EXCEPT ![reading[g]] = "turnedAway"]
    /\ ReaderNext(g)
    /\ UNCHANGED <<serviceVars, promptVars, ws, held, target, workerVars,
                   queue, readBy>>

(* enqueueMessage notes, under s.mu, which queue is in service. *)
EnqueueLookup(g) ==
    /\ Up /\ reader[g] = "lookup" /\ messageQueue # Nil
    /\ target' = [target EXCEPT ![g] = messageQueue]
    /\ reader' = [reader EXCEPT ![g] = "send"]
    /\ UNCHANGED <<serviceVars, promptVars, ws, held, reading, workerVars,
                   messageVars>>

(* A faulty variant of EnqueueSend: the channel holds one message more. *)
EnqueueOneMore(g) ==
    /\ Up /\ reader[g] = "send" /\ Len(queue[target[g]]) <= QueueCap
    /\ queue' = [queue EXCEPT ![target[g]] = Append(@, reading[g])]
    /\ target' = [target EXCEPT ![g] = Nil]
    /\ ReaderNext(g)
    /\ UNCHANGED <<serviceVars, promptVars, ws, held, workerVars, fate, readBy>>

(* A faulty variant of EnqueueSend: it waits for room in the queue. *)
EnqueueWaits(g) ==
    /\ Up /\ reader[g] = "send" /\ Len(queue[target[g]]) < QueueCap
    /\ queue' = [queue EXCEPT ![target[g]] = Append(@, reading[g])]
    /\ target' = [target EXCEPT ![g] = Nil]
    /\ ReaderNext(g)
    /\ UNCHANGED <<serviceVars, promptVars, ws, held, workerVars, fate, readBy>>

(* The non-blocking send to the queue it noted, after s.mu was released. *)
EnqueueSend(g) ==
    /\ Up /\ reader[g] = "send"
    /\ LET q == target[g]
           m == reading[g]
       IN IF Len(queue[q]) < QueueCap
          THEN /\ queue' = [queue EXCEPT ![q] = Append(@, m)]
               /\ UNCHANGED fate
          ELSE /\ fate' = [fate EXCEPT ![m] = "queueFull"]
               /\ UNCHANGED queue
    /\ target' = [target EXCEPT ![g] = Nil]
    /\ ReaderNext(g)
    /\ UNCHANGED <<serviceVars, promptVars, ws, held, workerVars, readBy>>

(* ReadMessage fails: the peer or Stop closed the WebSocket. *)
ReaderFails(g) ==
    /\ Up /\ reader[g] = "read" /\ ws[g] \in {"broken", "closed"}
    /\ reader' = [reader EXCEPT ![g] = "release"]
    /\ UNCHANGED <<serviceVars, promptVars, ws, held, reading, target,
                   workerVars, messageVars>>

(* The deferred function: the connector gives the WebSocket up under c.mu *)
(* and then closes it.  s.running and s.conn are not told.                *)
ReaderRelease(g) ==
    /\ Up /\ reader[g] = "release"
    /\ held' = held \ {g}
    /\ reader' = [reader EXCEPT ![g] = "close"]
    /\ UNCHANGED <<serviceVars, promptVars, ws, reading, target, workerVars,
                   messageVars>>

(* A faulty variant of ReaderClose: the WebSocket is not closed. *)
ReaderForgetsClose(g) ==
    /\ Up /\ reader[g] = "close"
    /\ reader' = [reader EXCEPT ![g] = "exited"]
    /\ UNCHANGED <<serviceVars, promptVars, ws, held, reading, target,
                   workerVars, messageVars>>

ReaderClose(g) ==
    /\ Up /\ reader[g] = "close"
    /\ ws' = [ws EXCEPT ![g] = "closed"]
    /\ reader' = [reader EXCEPT ![g] = "exited"]
    /\ UNCHANGED <<serviceVars, promptVars, held, reading, target,
                   workerVars, messageVars>>

-----------------------------------------------------------------------------
(* Service.messageWorker and Service.handleMessage. *)

(* The select's ctx.Done branch. *)
WorkerExit(g) ==
    /\ Up /\ worker[g] = "wait" /\ g \in cancelled
    /\ worker' = [worker EXCEPT ![g] = "exited"]
    /\ UNCHANGED <<serviceVars, promptVars, readerVars, cancelled, handling,
                   sessionLock, messageVars>>

(* A faulty variant of WorkerTake: the message stays in the queue. *)
WorkerPeeks(g) ==
    /\ Up /\ worker[g] = "wait" /\ queue[g] # <<>>
    /\ worker' = [worker EXCEPT ![g] = "check"]
    /\ handling' = [handling EXCEPT ![g] = Head(queue[g])]
    /\ UNCHANGED <<serviceVars, promptVars, readerVars, cancelled,
                   sessionLock, messageVars>>

(* A faulty variant of WorkerTake: having received, the worker looks at its *)
(* context, and leaves with the message when that is done.                 *)
WorkerTakesAndExits(g) ==
    /\ Up /\ worker[g] = "wait" /\ queue[g] # <<>>
    /\ worker' = [worker EXCEPT ![g] = IF g \in cancelled THEN "exited"
                                       ELSE "check"]
    /\ handling' = [handling EXCEPT ![g] = IF g \in cancelled THEN NoMsg
                                           ELSE Head(queue[g])]
    /\ queue' = [queue EXCEPT ![g] = Tail(@)]
    /\ UNCHANGED <<serviceVars, promptVars, readerVars, cancelled,
                   sessionLock, fate, readBy>>

(* The select's queue branch, which may be chosen even when the context is *)
(* done.                                                                   *)
WorkerTake(g) ==
    /\ Up /\ worker[g] = "wait" /\ queue[g] # <<>>
    /\ worker' = [worker EXCEPT ![g] = "check"]
    /\ handling' = [handling EXCEPT ![g] = Head(queue[g])]
    /\ queue' = [queue EXCEPT ![g] = Tail(@)]
    /\ UNCHANGED <<serviceVars, promptVars, readerVars, cancelled,
                   sessionLock, fate, readBy>>

(* handleMessage returns and the worker is at its select again. *)
Finish(g, f) ==
    /\ worker' = [worker EXCEPT ![g] = "wait"]
    /\ handling' = [handling EXCEPT ![g] = NoMsg]
    /\ fate' = [fate EXCEPT ![handling[g]] = f]

(* shouldHandle says no, or the snapshot of s.conn is nil. *)
HandleSkip(g) ==
    /\ Up /\ worker[g] = "check"
    /\ \/ Finish(g, "unanswered")
       \/ conn = Nil /\ Finish(g, "turnedAway")
    /\ UNCHANGED <<serviceVars, promptVars, readerVars, cancelled,
                   sessionLock, queue, readBy>>

(* shouldHandle says yes and the snapshot of s.conn is a connector. *)
HandleSnapshot(g) ==
    /\ Up /\ worker[g] = "check" /\ conn # Nil
    /\ worker' = [worker EXCEPT ![g] = "lock"]
    /\ UNCHANGED <<serviceVars, promptVars, readerVars, cancelled, handling,
                   sessionLock, messageVars>>

(* A faulty variant of LockSession: the mutex is not waited for, as when   *)
(* the map of mutexes belongs to a generation and not to the service.      *)
LockWithoutWaiting(g) ==
    /\ Up /\ worker[g] = "lock"
    /\ sessionLock' = [sessionLock EXCEPT ![KeyOf[handling[g]]] = g]
    /\ worker' = [worker EXCEPT ![g] = "run"]
    /\ UNCHANGED <<serviceVars, promptVars, readerVars, cancelled, handling,
                   messageVars>>

LockSession(g) ==
    /\ Up /\ worker[g] = "lock"
    /\ sessionLock[KeyOf[handling[g]]] = Nil
    /\ sessionLock' = [sessionLock EXCEPT ![KeyOf[handling[g]]] = g]
    /\ worker' = [worker EXCEPT ![g] = "run"]
    /\ UNCHANGED <<serviceVars, promptVars, readerVars, cancelled, handling,
                   messageVars>>

(* The deferred unlock. *)
Unlock(g) ==
    sessionLock' = [sessionLock EXCEPT ![KeyOf[handling[g]]] = Nil]

(* The handler runs /shell or an exec command and CombinedOutput waits for *)
(* a child of it that keeps the output open, past every timeout and        *)
(* perhaps for ever.  The worker's context does not reach it.  (So would a *)
(* persistent Hermes hold it that does not read what it is sent.)          *)
HandleHeld(g) ==
    /\ Up /\ worker[g] = "run" /\ handling[g] \in Holding
    /\ worker' = [worker EXCEPT ![g] = "held"]
    /\ UNCHANGED <<serviceVars, promptVars, readerVars, cancelled, handling,
                   sessionLock, messageVars>>

(* A faulty variant of HandleSilent: this path does not unlock. *)
SilentKeepsLock(g) ==
    /\ Up /\ worker[g] \in {"run", "held"}
    /\ Finish(g, "unanswered")
    /\ UNCHANGED <<serviceVars, promptVars, readerVars, cancelled,
                   sessionLock, queue, readBy>>

(* There is nothing to send: an empty reply, or a panic that is recovered. *)
HandleSilent(g) ==
    /\ Up /\ worker[g] \in {"run", "held"}
    /\ Finish(g, "unanswered")
    /\ Unlock(g)
    /\ UNCHANGED <<serviceVars, promptVars, readerVars, cancelled, queue, readBy>>

(* There is something to send: an admin command's answer, a refusal, the   *)
(* reply of Hermes or the text of its error.                               *)
HandleReply(g) ==
    /\ Up /\ worker[g] \in {"run", "held"}
    /\ worker' = [worker EXCEPT ![g] = "send"]
    /\ UNCHANGED <<serviceVars, promptVars, readerVars, cancelled, handling,
                   sessionLock, messageVars>>

(* conn.Send on the connector of the snapshot, whether or not it is still  *)
(* in service.                                                             *)
HandleSend(g) ==
    /\ Up /\ worker[g] = "send"
    /\ \E f \in {"answered", "unanswered"} : Finish(g, f)
    /\ Unlock(g)
    /\ UNCHANGED <<serviceVars, promptVars, readerVars, cancelled, queue, readBy>>

-----------------------------------------------------------------------------
(* The environment. *)

(* NapCat closes the connection, or the network does. *)
WsBreaks(g) ==
    /\ Up /\ ws[g] = "open" /\ g \in Breakable
    /\ ws' = [ws EXCEPT ![g] = "broken"]
    /\ UNCHANGED <<serviceVars, promptVars, held, reader, reading, target,
                   workerVars, messageVars>>

(* The launched NapCat process ends by itself. *)
ChildExits ==
    /\ Up /\ child
    /\ child' = FALSE
    /\ UNCHANGED <<serviceVars, prompt, taken, quitting, readerVars,
                   workerVars, messageVars>>

(* The program is gone; nothing happens any more. *)
Exited == prompt = "exited" /\ UNCHANGED vars

StopSteps == StopCancel \/ StopConn \/ StopClose \/ StopNapCat \/ StopCloseACP
StartSteps == \/ StartNapCatOk \/ StartNapCatFails
              \/ StartConnOk \/ StartConnFails
Commands == \/ StartAgain \/ StartNotReady \/ StartOpen
            \/ \E quit \in Quits : StopTake(quit)
ReaderSteps(g) == \/ EnqueueNoQueue(g) \/ EnqueueLookup(g) \/ EnqueueSend(g)
                  \/ ReaderFails(g) \/ ReaderRelease(g) \/ ReaderClose(g)
WorkerSteps(g) == \/ WorkerExit(g) \/ WorkerTake(g)
                  \/ HandleSkip(g) \/ HandleSnapshot(g) \/ LockSession(g)
                  \/ HandleSilent(g) \/ HandleReply(g) \/ HandleSend(g)
                  \/ HandleHeld(g)

Next ==
    \/ Commands \/ StartSteps \/ StopSteps
    \/ \E g \in Gens : \/ \E m \in Msgs : ReaderRead(g, m)
                       \/ ReaderSteps(g)
                       \/ WorkerSteps(g)
                       \/ WsBreaks(g)
    \/ ChildExits \/ Exited

Spec == Init /\ [][Next]_vars

(* A goroutine that can run does run; a handler's model call ends within   *)
(* its timeout and Send within that of its HTTP client; the steps of a     *)
(* command follow once it is entered.  A handler that is held need not go  *)
(* on.  Waiting for a session needs no more than that, because a finite    *)
(* number of messages overtake.  Nothing is assumed of the operator, of    *)
(* NapCat or of arriving messages.                                         *)
Fairness ==
    /\ WF_vars(StartSteps) /\ WF_vars(StopSteps)
    /\ \A g \in Gens : /\ WF_vars(ReaderSteps(g))
                       /\ WF_vars(worker[g] # "held" /\ WorkerSteps(g))

FairSpec == Spec /\ Fairness

-----------------------------------------------------------------------------
(* Properties. *)

FlagType == running \in BOOLEAN /\ quitting \in BOOLEAN /\ child \in BOOLEAN

ServiceType ==
    /\ conn \in GenOrNil /\ messageQueue \in GenOrNil /\ workerCancel \in GenOrNil
    /\ opened \in GenOrNil

PromptType ==
    /\ prompt \in PromptPC
    /\ taken \in [conn : GenOrNil, cancel : GenOrNil]

ReaderType ==
    /\ ws \in [Gens -> {"none", "open", "broken", "closed"}]
    /\ held \in SUBSET Gens
    /\ reader \in [Gens -> ReaderPC]
    /\ reading \in [Gens -> Msgs \cup {NoMsg}]
    /\ target \in [Gens -> GenOrNil]

WorkerType ==
    /\ cancelled \in SUBSET Gens
    /\ worker \in [Gens -> WorkerPC]
    /\ handling \in [Gens -> Msgs \cup {NoMsg}]
    /\ sessionLock \in [Keys -> GenOrNil]

MessageType ==
    /\ queue \in [Gens -> Seq(Msgs)]
    /\ \A g \in Gens : Len(queue[g]) <= QueueCap
    /\ fate \in [Msgs -> Fates]
    /\ readBy \in [Msgs -> GenOrNil]

(* Types; and no queue holds more than its capacity (enqueueMessage).      *)
TypeOK ==
    /\ FlagType /\ ServiceType /\ PromptType
    /\ ReaderType /\ WorkerType /\ MessageType

(* Two workers are never both inside the same chat's session, although a   *)
(* worker that outlived its Stop, or was never cancelled, runs beside the  *)
(* next generation's (lockSession in handleMessage).                       *)
SessionExclusive ==
    \A g, h \in Gens :
        InSession(g) /\ InSession(h) /\ g # h
            => KeyOf[handling[g]] # KeyOf[handling[h]]

(* The mutex is what makes it so, and it is not left behind: it is held by *)
(* exactly the worker that is inside the session, so that a chat whose     *)
(* handler failed, panicked or outlived its Stop is not blocked for good   *)
(* (the unlock deferred by handleMessage).                                 *)
SessionGuarded ==
    \A g \in Gens, k \in Keys :
        sessionLock[k] = g <=> InSession(g) /\ KeyOf[handling[g]] = k

(* While s.running is TRUE the connector, the queue and the cancel function *)
(* in service are all those of the last generation, and its worker is      *)
(* alive to empty the queue (Start and Stop change these fields in several *)
(* sections).                                                              *)
RunningServed ==
    running => /\ conn = opened /\ messageQueue = opened
               /\ workerCancel = opened
               /\ opened \notin cancelled
               /\ worker[opened] \notin {"none", "exited"}

(* The operator's Stop is between taking generation g and closing it. *)
StopHolds(g) ==
    /\ taken.conn = g
    /\ prompt \in {"stopCancel", "stopConn", "stopClose"}

(* No WebSocket is forgotten open: one that is not closed is in service,   *)
(* or Stop holds it and will close it, or its readLoop is about to (Stop   *)
(* of the connector and readLoop's deferred function share that duty).     *)
NoStrayConnection ==
    \A g \in Gens :
        ws[g] \in {"open", "broken"} =>
            conn = g \/ StopHolds(g) \/ reader[g] \in {"release", "close"}

(* A worker that no later Stop can cancel belongs to a Start whose dial    *)
(* failed: that is the only way to lose a worker's cancel function         *)
(* (Start's last error path).                                              *)
LeakOnlyAfterFailedDial ==
    \A g \in Gens :
        worker[g] \notin {"none", "exited"} /\ g \notin cancelled =>
            \/ workerCancel = g
            \/ prompt = "stopCancel" /\ taken.cancel = g
            \/ reader[g] = "none"

(* A message that was read is turned away for lack of a queue or of a      *)
(* connector only when the generation that read it has been stopped: no    *)
(* failing or repeated Start loses messages of a bridge that runs          *)
(* (enqueueMessage's and handleMessage's nil checks).                      *)
TurnedAwayOnlyByStop ==
    \A m \in Msgs :
        fate[m] = "turnedAway" =>
            \/ readBy[m] \in cancelled
            \/ prompt = "stopCancel" /\ taken.cancel = readBy[m]

(* A worker that still receives from its queue, or that Stop ended. *)
Manned(g) == worker[g] \notin {"none", "exited"} \/ g \in cancelled

(* No message gets lost between the goroutines: one that was read and not  *)
(* disposed of is with its readLoop, with a worker, or in a queue, and     *)
(* only a queue whose worker was cancelled is left unread (the lookup and  *)
(* the send of enqueueMessage are two steps, and so are the worker's       *)
(* receive and its context).                                               *)
NoMessageIsLost ==
    \A m \in Msgs :
        fate[m] = "live" =>
            \E g \in Gens :
                \/ reader[g] \in {"lookup", "send"} /\ reading[g] = m
                \/ /\ worker[g] \in {"check", "lock", "run", "held", "send"}
                   /\ handling[g] = m
                \/ Manned(g) /\ \E i \in DOMAIN queue[g] : queue[g][i] = m

(* A worker whose handler is held, or that waits for a session that one    *)
(* whose handler is held has.                                              *)
HeldUp(g) ==
    \/ worker[g] = "held"
    \/ /\ worker[g] = "lock"
       /\ \E h \in Gens : /\ worker[h] = "held"
                          /\ KeyOf[handling[h]] = KeyOf[handling[g]]

(* A cancelled worker ends, unless it is held up for ever, although its    *)
(* select may keep choosing messages and it may have to wait for a session *)
(* that another worker has (messageWorker, lockSession).                   *)
CancelledWorkerExits ==
    \A g \in Gens :
        []<>~HeldUp(g) => (g \in cancelled ~> worker[g] = "exited" \/ ~Up)

(* A readLoop whose connector is out of service ends, whichever of Stop    *)
(* and the loop closes the WebSocket and wherever the loop was.            *)
DetachedReaderExits ==
    \A g \in Gens :
        reader[g] # "none" /\ conn # g ~> reader[g] = "exited" \/ ~Up

(* The worker that has m, or has it in its queue, is held up. *)
Stuck(m) ==
    \E g \in Gens :
        /\ HeldUp(g)
        /\ handling[g] = m \/ \E i \in DOMAIN queue[g] : queue[g][i] = m

(* A message that was read is disposed of, unless the worker in charge of  *)
(* it is held up for ever or left its queue when it was cancelled: what    *)
(* holds one worker up holds up no readLoop, and no other worker but one   *)
(* that waits for its chat (enqueueMessage, messageWorker).                *)
LiveMessageSettles ==
    \A m \in Msgs :
        []<>~Stuck(m) =>
            (fate[m] = "live" ~>
                \/ Over(m) \/ ~Up
                \/ \E g \in cancelled :
                      /\ worker[g] = "exited"
                      /\ \E i \in DOMAIN queue[g] : queue[g][i] = m)

(* What the service promises about each message, module ChatService. *)
Phase(m) ==
    IF Over(m) THEN "over"
    ELSE IF \E g \in Gens : InSession(g) /\ handling[g] = m THEN "active"
    ELSE IF fate[m] = "new" THEN "new" ELSE "waiting"

Promise == INSTANCE ChatService WITH
    phase <- [m \in Msgs |-> Phase(m)],
    answered <- {m \in Msgs : fate[m] = "answered"}

(* Bridge implements it: a message goes through a session at most once,    *)
(* alone among the messages of its chat, and only there is it answered.    *)
ImplementsChatService == Promise!Spec

(* config.example.yaml names the option stop_on_exit: when it is set, a    *)
(* NapCat process that BillBot launched does not outlive BillBot.          *)
StopOnExitHonoured == prompt = "exited" /\ StopOnExit => ~child
=============================================================================
