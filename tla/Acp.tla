-------------------------------- MODULE Acp --------------------------------
(***************************************************************************)
(* The pool of persistent Hermes processes and the JSON-RPC conversation   *)
(* with each of them (internal/hermes/acp.go).                             *)
(*                                                                         *)
(* An ask is one call of askPersistentACP with its own context: a chat     *)
(* message, the routing model's question, an admin's identity to normalise *)
(* or the operator's diag.  Asks of several goroutines overlap.  A client  *)
(* is named after the ask whose acpClientFor made it; its process lives in *)
(* that ask's context.  A JSON-RPC call is <<ask, pc>>: an ask has at most *)
(* one call under way, and pc names its method.  Of the text that Hermes   *)
(* streams only the prompt it belongs to is kept.                          *)
(***************************************************************************)
EXTENDS Naturals, FiniteSets

CONSTANTS
    Asks,    \* the asks (a bound on their number)
    None,    \* no ask, no client
    Keys,    \* pool keys: command, sandbox, security mode, provider, model
    Resumes, \* bound: which sets of asks may bring a Hermes session id
    Disturbances   \* bound: which of "crash" and "deadline" may happen

ASSUME NoneAssumption == None \notin Asks /\ Resumes \subseteq SUBSET Asks

VARIABLES
    pool,       \* acpPool.clients
    proc,       \* each client's process: not started, alive, dying, gone
    isRunning,  \* clients whose running flag is set
    askMu,      \* who holds each client's askMu
    pending,    \* the calls in each client's pending map
    current,    \* whose prompt is currentPrompt
    text,       \* the prompts that currentText holds text of
    touched,    \* clients with a token in currentTouch
    open,       \* calls that Hermes has received and not answered
    pc,         \* where each ask is
    key,        \* its pool key
    client,     \* the client it was given
    resume,     \* asks that bring a Hermes session id
    answer,     \* the response that readStdout put in its call's channel
    seenText,   \* asks whose wait has seen text
    idled,      \* asks whose prompt was left for silence, not answered
    reply,      \* what it returned: the prompts that its text belongs to
    ctxDone,    \* asks whose context has ended
    closing     \* the clients ClosePersistentACP has yet to stop

clientVars == <<proc, isRunning, askMu, pending, current, text, touched, open>>
askVars == <<pc, key, client, resume, answer, seenText, idled, reply>>
vars == <<pool, clientVars, askVars, ctxDone, closing>>

Waiting == {"initialize", "session/new", "session/prompt"}
PC == Waiting \cup {"idle", "spawn", "unpool", "lock", "drop", "kill",
                    "done", "failed"}

Init ==
    /\ pool = [k \in Keys |-> None]
    /\ proc = [c \in Asks |-> "none"]
    /\ isRunning = {}
    /\ askMu = [c \in Asks |-> None]
    /\ pending = [c \in Asks |-> {}]
    /\ current = [c \in Asks |-> None]
    /\ text = [c \in Asks |-> {}]
    /\ touched = {}
    /\ open = [c \in Asks |-> {}]
    /\ pc = [n \in Asks |-> "idle"]
    /\ key \in [Asks -> Keys]
    /\ client = [n \in Asks |-> None]
    /\ resume \in Resumes
    /\ answer = [n \in Asks |-> "none"]
    /\ seenText = {}
    /\ idled = {}
    /\ reply = [n \in Asks |-> {}]
    /\ ctxDone = {}
    /\ closing = {}

Returned(n) == pc[n] \in {"done", "failed"}

-----------------------------------------------------------------------------
(* acpClientFor *)

(* The section under the pool's lock: the running client of this key, or a *)
(* new one, which is in the pool before it runs.                           *)
Lookup(n) ==
    /\ pc[n] = "idle"
    /\ IF pool[key[n]] \in isRunning
       THEN /\ client' = [client EXCEPT ![n] = pool[key[n]]]
            /\ pc' = [pc EXCEPT ![n] = "lock"]
            /\ UNCHANGED pool
       ELSE /\ client' = [client EXCEPT ![n] = n]
            /\ pool' = [pool EXCEPT ![key[n]] = n]
            /\ pc' = [pc EXCEPT ![n] = "spawn"]
    /\ UNCHANGED <<clientVars, key, resume, answer, seenText, idled, reply,
                   ctxDone, closing>>

(* start: the process is launched in the ask's own context, marked running *)
(* and sent "initialize".                                                  *)
Spawn(n) ==
    /\ pc[n] = "spawn" /\ n \notin ctxDone
    /\ proc' = [proc EXCEPT ![n] = "alive"]
    /\ isRunning' = isRunning \cup {n}
    /\ pending' = [pending EXCEPT ![n] = @ \cup {<<n, "initialize">>}]
    /\ open' = [open EXCEPT ![n] = @ \cup {<<n, "initialize">>}]
    /\ pc' = [pc EXCEPT ![n] = "initialize"]
    /\ UNCHANGED <<pool, askMu, current, text, touched, key, client, resume,
                   answer, seenText, idled, reply, ctxDone, closing>>

(* The process ends before "initialize" can be written to it. *)
SpawnUnwritten(n) ==
    /\ pc[n] = "spawn" /\ n \notin ctxDone /\ "crash" \in Disturbances
    /\ proc' = [proc EXCEPT ![n] = "dying"]
    /\ isRunning' = isRunning \cup {n}
    /\ pc' = [pc EXCEPT ![n] = "unpool"]
    /\ UNCHANGED <<pool, askMu, pending, current, text, touched, open, key,
                   client, resume, answer, seenText, idled, reply, ctxDone,
                   closing>>

(* The launch fails; it must when the context has already ended. *)
SpawnFails(n) ==
    /\ pc[n] = "spawn"
    /\ pc' = [pc EXCEPT ![n] = "unpool"]
    /\ UNCHANGED <<pool, clientVars, key, client, resume, answer, seenText,
                   idled, reply, ctxDone, closing>>

(* stop: the flag is cleared and the process, if there is one, is killed. *)
StopClients(C) ==
    /\ isRunning' = isRunning \ C
    /\ proc' = [c \in Asks |-> IF c \in C /\ proc[c] = "alive"
                               THEN "dying" ELSE proc[c]]

Initialized(n) ==
    /\ pc[n] = "initialize" /\ answer[n] = "result"
    /\ answer' = [answer EXCEPT ![n] = "none"]
    /\ pc' = [pc EXCEPT ![n] = "lock"]
    /\ UNCHANGED <<pool, clientVars, key, client, resume, seenText, idled,
                   reply, ctxDone, closing>>

(* An error response to "initialize": the process is not stopped. *)
InitializeFails(n) ==
    /\ pc[n] = "initialize" /\ answer[n] = "error"
    /\ answer' = [answer EXCEPT ![n] = "none"]
    /\ pc' = [pc EXCEPT ![n] = "unpool"]
    /\ UNCHANGED <<pool, clientVars, key, client, resume, seenText, idled,
                   reply, ctxDone, closing>>

(* callWithIDOrText's ctx.Done branch during "initialize". *)
InitializeTimesOut(n) ==
    /\ pc[n] = "initialize" /\ n \in ctxDone
    /\ StopClients({n})
    /\ pending' = [pending EXCEPT ![n] = @ \ {<<n, "initialize">>}]
    /\ answer' = [answer EXCEPT ![n] = "none"]
    /\ pc' = [pc EXCEPT ![n] = "unpool"]
    /\ UNCHANGED <<pool, askMu, current, text, touched, open, key, client,
                   resume, seenText, idled, reply, ctxDone, closing>>

(* acpClientFor's error path; the ask fails without having had a client. *)
Unpool(n) ==
    /\ pc[n] = "unpool"
    /\ pool' = [pool EXCEPT ![key[n]] = IF @ = n THEN None ELSE @]
    /\ pc' = [pc EXCEPT ![n] = "failed"]
    /\ UNCHANGED <<clientVars, key, client, resume, answer, seenText, idled,
                   reply, ctxDone, closing>>

-----------------------------------------------------------------------------
(* ask, under the client's askMu *)

(* callWithIDOrText writes a call to the process and waits.  Writing fails *)
(* once the process is gone or its stdin was closed, and may fail from the *)
(* moment it is dying.                                                     *)
Written(n, method) ==
    LET c == client[n] IN
      /\ proc[c] # "gone" /\ c \in isRunning
      /\ pending' = [pending EXCEPT ![c] = @ \cup {<<n, method>>}]
      /\ open' = [open EXCEPT ![c] = @ \cup {<<n, method>>}]
      /\ pc' = [pc EXCEPT ![n] = method]

(* The prompt becomes the client's current one, with no text yet. *)
BeginPrompt(n) ==
    LET c == client[n] IN
      /\ Written(n, "session/prompt")
      /\ current' = [current EXCEPT ![c] = n]
      /\ text' = [text EXCEPT ![c] = {}]
      /\ touched' = touched \ {c}

(* A faulty variant of LockAndCall: askMu is not waited for. *)
CallWithoutLock(n) ==
    /\ pc[n] = "lock"
    /\ askMu' = [askMu EXCEPT ![client[n]] = n]
    /\ IF n \in resume
       THEN BeginPrompt(n)
       ELSE Written(n, "session/new") /\ UNCHANGED <<current, text, touched>>
    /\ UNCHANGED <<pool, proc, isRunning, key, client, resume, answer,
                   seenText, idled, reply, ctxDone, closing>>

(* askMu.Lock, and the first call of the ask. *)
LockAndCall(n) ==
    /\ pc[n] = "lock" /\ askMu[client[n]] = None
    /\ askMu' = [askMu EXCEPT ![client[n]] = n]
    /\ IF n \in resume
       THEN BeginPrompt(n)
       ELSE Written(n, "session/new") /\ UNCHANGED <<current, text, touched>>
    /\ UNCHANGED <<pool, proc, isRunning, key, client, resume, answer,
                   seenText, idled, reply, ctxDone, closing>>

(* The lock is free but the call cannot be written. *)
LockAndFail(n) ==
    /\ pc[n] = "lock" /\ askMu[client[n]] = None
    /\ proc[client[n]] # "alive" \/ client[n] \notin isRunning
    /\ pc' = [pc EXCEPT ![n] = "drop"]
    /\ UNCHANGED <<pool, clientVars, key, client, resume, answer, seenText,
                   idled, reply, ctxDone, closing>>

(* newSession returns and the prompt is written. *)
SessionCreated(n) ==
    /\ pc[n] = "session/new" /\ answer[n] = "result"
    /\ answer' = [answer EXCEPT ![n] = "none"]
    /\ BeginPrompt(n)
    /\ UNCHANGED <<pool, proc, isRunning, askMu, key, client, resume,
                   seenText, idled, reply, ctxDone, closing>>

(* ask returns: what was current is cleared, and askMu is released. *)
Leave(n, where) ==
    LET c == client[n] IN
      /\ current' = [current EXCEPT ![c] = None]
      /\ text' = [text EXCEPT ![c] = {}]
      /\ touched' = touched \ {c}
      /\ askMu' = [askMu EXCEPT ![c] = None]
      /\ answer' = [answer EXCEPT ![n] = "none"]
      /\ seenText' = seenText \ {n}
      /\ pc' = [pc EXCEPT ![n] = where]

(* An error response, or a prompt that cannot be written, or a result with *)
(* no text anywhere.                                                       *)
AskFails(n) ==
    /\ \/ pc[n] \in {"session/new", "session/prompt"} /\ answer[n] = "error"
       \/ /\ pc[n] = "session/new" /\ answer[n] = "result"
          /\ proc[client[n]] # "alive" \/ client[n] \notin isRunning
       \/ /\ pc[n] = "session/prompt" /\ answer[n] = "result"
          /\ text[client[n]] = {}
    /\ Leave(n, "drop")
    /\ UNCHANGED <<pool, proc, isRunning, pending, open, key, client, resume,
                   idled, reply, ctxDone, closing>>

(* A faulty variant of AskTimesOut: askMu is not released. *)
TimesOutLocked(n) ==
    /\ pc[n] \in {"session/new", "session/prompt"} /\ n \in ctxDone
    /\ StopClients({client[n]})
    /\ pending' = [pending EXCEPT ![client[n]] = @ \ {<<n, pc[n]>>}]
    /\ pc' = [pc EXCEPT ![n] = "drop"]
    /\ UNCHANGED <<pool, askMu, current, text, touched, open, key, client,
                   resume, answer, seenText, idled, reply, ctxDone, closing>>

(* callWithIDOrText's and waitForResponseOrIdle's ctx.Done branches, which *)
(* kill the process that other asks may be using.                          *)
AskTimesOut(n) ==
    /\ pc[n] \in {"session/new", "session/prompt"} /\ n \in ctxDone
    /\ StopClients({client[n]})
    /\ pending' = [pending EXCEPT ![client[n]] = @ \ {<<n, pc[n]>>}]
    /\ Leave(n, "drop")
    /\ UNCHANGED <<pool, open, key, client, resume, idled, reply,
                   ctxDone, closing>>

(* The touch branch: from now on silence ends the wait. *)
SeeText(n) ==
    /\ pc[n] = "session/prompt" /\ client[n] \in touched
    /\ touched' = touched \ {client[n]}
    /\ seenText' = seenText \cup {n}
    /\ UNCHANGED <<pool, proc, isRunning, askMu, pending, current, text, open,
                   pc, key, client, resume, answer, idled, reply, ctxDone,
                   closing>>

(* The prompt's response came.  Its text is what was streamed, or, when    *)
(* nothing was, what the response itself holds.                            *)
PromptAnswered(n) ==
    /\ pc[n] = "session/prompt" /\ answer[n] = "result"
    /\ reply' = [reply EXCEPT ![n] = IF text[client[n]] = {} THEN {n}
                                     ELSE text[client[n]]]
    /\ Leave(n, "done")
    /\ UNCHANGED <<pool, proc, isRunning, pending, open, key, client, resume,
                   idled, ctxDone, closing>>

(* A faulty variant of PromptIdles: the call stays in the pending map. *)
IdleKeepsPending(n) ==
    /\ pc[n] = "session/prompt" /\ n \in seenText
    /\ reply' = [reply EXCEPT ![n] = text[client[n]]]
    /\ idled' = idled \cup {n}
    /\ Leave(n, "done")
    /\ UNCHANGED <<pool, proc, isRunning, pending, open, key, client, resume,
                   ctxDone, closing>>

(* The idle timer fired: there was text and then 1.2 seconds of silence.   *)
(* What was streamed is returned although Hermes has not answered.         *)
PromptIdles(n) ==
    /\ pc[n] = "session/prompt" /\ n \in seenText
    /\ reply' = [reply EXCEPT ![n] = text[client[n]]]
    /\ idled' = idled \cup {n}
    /\ pending' = [pending EXCEPT ![client[n]] = @ \ {<<n, "session/prompt">>}]
    /\ Leave(n, "done")
    /\ UNCHANGED <<pool, proc, isRunning, open, key, client, resume,
                   ctxDone, closing>>

(* dropACPClient, after a failed ask. *)
Drop(n) ==
    /\ pc[n] = "drop"
    /\ pool' = [pool EXCEPT ![key[n]] = IF @ = client[n] THEN None ELSE @]
    /\ pc' = [pc EXCEPT ![n] = "kill"]
    /\ UNCHANGED <<clientVars, key, client, resume, answer, seenText, idled,
                   reply, ctxDone, closing>>

(* A faulty variant of Kill: the process is left to whoever has it. *)
KillNothing(n) ==
    /\ pc[n] = "kill"
    /\ pc' = [pc EXCEPT ![n] = "failed"]
    /\ UNCHANGED <<pool, clientVars, key, client, resume, answer, seenText,
                   idled, reply, ctxDone, closing>>

(* client.stop, after a failed ask; by now another ask may use the client. *)
Kill(n) ==
    /\ pc[n] = "kill"
    /\ StopClients({client[n]})
    /\ pc' = [pc EXCEPT ![n] = "failed"]
    /\ UNCHANGED <<pool, askMu, pending, current, text, touched, open, key,
                   client, resume, answer, seenText, idled, reply, ctxDone,
                   closing>>

-----------------------------------------------------------------------------
(* readStdout, the process and the contexts. *)

(* The client's stdout can be read: buffered output outlives the process   *)
(* until cmd.Wait closes the pipe.                                         *)
Readable(c) == proc[c] \in {"alive", "dying"}

(* A response is matched with the pending map by its id. *)
ReadResponse(c, call) ==
    /\ Readable(c) /\ call \in open[c]
    /\ open' = [open EXCEPT ![c] = @ \ {call}]
    /\ pending' = [pending EXCEPT ![c] = @ \ {call}]
    /\ IF call \in pending[c]
       THEN \E res \in {"result", "error"} :
                answer' = [answer EXCEPT ![call[1]] = res]
       ELSE UNCHANGED answer
    /\ UNCHANGED <<pool, proc, isRunning, askMu, current, text, touched, pc,
                   key, client, resume, seenText, idled, reply, ctxDone,
                   closing>>

(* A faulty variant of ReadText: whether a prompt is current is not asked. *)
ReadAnyText(c, call) ==
    /\ Readable(c) /\ call \in open[c] /\ call[2] = "session/prompt"
    /\ text' = [text EXCEPT ![c] = @ \cup {call[1]}]
    /\ touched' = touched \cup {c}
    /\ UNCHANGED <<pool, proc, isRunning, askMu, pending, current, open,
                   askVars, ctxDone, closing>>

(* handleSessionUpdate adds a piece of text to the current prompt, whatever *)
(* prompt or session it was streamed for.                                  *)
ReadText(c, call) ==
    /\ Readable(c) /\ call \in open[c] /\ call[2] = "session/prompt"
    /\ current[c] # None
    /\ text' = [text EXCEPT ![c] = @ \cup {call[1]}]
    /\ touched' = touched \cup {c}
    /\ UNCHANGED <<pool, proc, isRunning, askMu, pending, current, open,
                   askVars, ctxDone, closing>>

(* Hermes ends by itself. *)
Crash(c) ==
    /\ proc[c] = "alive" /\ "crash" \in Disturbances
    /\ proc' = [proc EXCEPT ![c] = "dying"]
    /\ UNCHANGED <<pool, isRunning, askMu, pending, current, text, touched,
                   open, askVars, ctxDone, closing>>

(* A faulty variant of KillByContext: exec.Command, without the context. *)
NeverKill(c) == c \notin Asks /\ UNCHANGED vars

(* exec.CommandContext kills the process when the context of the ask that  *)
(* launched it ends.                                                       *)
KillByContext(c) ==
    /\ proc[c] = "alive" /\ c \in ctxDone
    /\ proc' = [proc EXCEPT ![c] = "dying"]
    /\ UNCHANGED <<pool, isRunning, askMu, pending, current, text, touched,
                   open, askVars, ctxDone, closing>>

(* The goroutine in cmd.Wait clears the flag.  Nobody tells the pool or    *)
(* the callers who wait for a response.                                    *)
Reap(c) ==
    /\ proc[c] = "dying"
    /\ proc' = [proc EXCEPT ![c] = "gone"]
    /\ isRunning' = isRunning \ {c}
    /\ open' = [open EXCEPT ![c] = {}]
    /\ UNCHANGED <<pool, askMu, pending, current, text, touched, askVars,
                   ctxDone, closing>>

(* The deadline of the ask's context passes. *)
Deadline(n) ==
    /\ pc[n] # "idle" /\ n \notin ctxDone /\ "deadline" \in Disturbances
    /\ ctxDone' = ctxDone \cup {n}
    /\ UNCHANGED <<pool, clientVars, askVars, closing>>

(* The function that made the context returns and cancels it: handleMessage, *)
(* runRoutedHermes, the identity normaliser or checkHermes.                *)
CancelContext(n) ==
    /\ Returned(n) /\ n \notin ctxDone
    /\ ctxDone' = ctxDone \cup {n}
    /\ UNCHANGED <<pool, clientVars, askVars, closing>>

(* ClosePersistentACP: the pool is emptied under its lock, *)
CloseTake ==
    /\ closing = {}
    /\ closing' = {pool[k] : k \in Keys} \ {None}
    /\ closing' # {}
    /\ pool' = [k \in Keys |-> None]
    /\ UNCHANGED <<clientVars, askVars, ctxDone>>

(* and then each client is stopped. *)
CloseStop(c) ==
    /\ c \in closing
    /\ closing' = closing \ {c}
    /\ StopClients({c})
    /\ UNCHANGED <<pool, askMu, pending, current, text, touched, open,
                   askVars, ctxDone>>

(* Every ask has returned and every context has ended. *)
Finished ==
    /\ \A n \in Asks : Returned(n) /\ n \in ctxDone
    /\ \A c \in Asks : proc[c] \in {"none", "gone"}
    /\ UNCHANGED vars

AskSteps(n) ==
    \/ Spawn(n) \/ SpawnUnwritten(n) \/ SpawnFails(n)
    \/ Initialized(n) \/ InitializeFails(n) \/ InitializeTimesOut(n) \/ Unpool(n)
    \/ LockAndCall(n) \/ LockAndFail(n) \/ SessionCreated(n)
    \/ PromptAnswered(n) \/ AskFails(n) \/ AskTimesOut(n)
    \/ Drop(n) \/ Kill(n)

ClientSteps(c) == KillByContext(c) \/ Reap(c) \/ CloseStop(c)

Next ==
    \/ \E n \in Asks : \/ Lookup(n) \/ AskSteps(n)
                       \/ SeeText(n) \/ PromptIdles(n)
                       \/ Deadline(n) \/ CancelContext(n)
    \/ \E c \in Asks : \/ \E call \in open[c] : ReadResponse(c, call)
                                               \/ ReadText(c, call)
                       \/ Crash(c) \/ ClientSteps(c)
    \/ CloseTake \/ Finished

Spec == Init /\ [][Next]_vars

(* Goroutines that can run do run, every context has a deadline, and a     *)
(* killed process is reaped.  Hermes owes nothing: it may never answer.    *)
(* askMu need not be fair, because a finite number of asks overtake.       *)
Fairness ==
    /\ \A n \in Asks : /\ WF_vars(AskSteps(n))
                       /\ WF_vars(Deadline(n) \/ CancelContext(n))
    /\ \A c \in Asks : WF_vars(ClientSteps(c))

FairSpec == Spec /\ Fairness

-----------------------------------------------------------------------------
(* Properties. *)

(* Types; and text is only kept for a current prompt. *)
TypeOK ==
    /\ pool \in [Keys -> Asks \cup {None}]
    /\ proc \in [Asks -> {"none", "alive", "dying", "gone"}]
    /\ isRunning \in SUBSET Asks
    /\ askMu \in [Asks -> Asks \cup {None}]
    /\ pending \in [Asks -> SUBSET (Asks \X Waiting)]
    /\ current \in [Asks -> Asks \cup {None}]
    /\ text \in [Asks -> SUBSET Asks]
    /\ touched \in SUBSET Asks
    /\ open \in [Asks -> SUBSET (Asks \X Waiting)]
    /\ pc \in [Asks -> PC]
    /\ key \in [Asks -> Keys]
    /\ client \in [Asks -> Asks \cup {None}]
    /\ resume \in SUBSET Asks
    /\ answer \in [Asks -> {"none", "result", "error"}]
    /\ seenText \in SUBSET Asks /\ idled \in SUBSET Asks
    /\ reply \in [Asks -> SUBSET Asks]
    /\ \A c \in Asks : current[c] = None => text[c] = {} /\ c \notin touched
    /\ ctxDone \in SUBSET Asks /\ closing \in SUBSET Asks

(* A client's pending map holds no call that nobody waits for: whichever   *)
(* of response, silence, timeout and failure comes first, the others find  *)
(* nothing left to complete.                                               *)
PendingIsAwaited ==
    \A c, n \in Asks : \A m \in Waiting :
        <<n, m>> \in pending[c] =>
            client[n] = c /\ pc[n] = m /\ answer[n] = "none"

(* Asks that share a process take turns: only the holder of askMu has a    *)
(* prompt or a new session under way, and currentText is its own.          *)
OneConversation ==
    \A n \in Asks :
        /\ pc[n] \in {"session/new", "session/prompt"} => askMu[client[n]] = n
        /\ pc[n] = "session/prompt" => current[client[n]] = n

(* The same from both sides: askMu and the current prompt belong to an ask *)
(* that is in its conversation with that client, on whichever path the     *)
(* others have left theirs.  Those who wait for askMu do so without a      *)
(* context, and would wait for ever for one that was left locked.          *)
ConversationGuarded ==
    \A n, c \in Asks :
        /\ askMu[c] = n
             <=> client[n] = c /\ pc[n] \in {"session/new", "session/prompt"}
        /\ client[n] = c /\ pc[n] = "session/prompt" => current[c] = n
        /\ current[c] = n => askMu[c] = n

(* What the callers are promised, whatever pool, locks, pending calls and  *)
(* timers do beneath: the asks and processes behave as HermesService says. *)
Phase(where) ==
    IF where \in {"spawn", "initialize", "lock"} THEN "waiting"
    ELSE IF where \in {"session/new", "session/prompt"} THEN "talking"
    ELSE IF where \in {"unpool", "drop", "kill"} THEN "failing"
    ELSE where
Ended == {c \in Asks : proc[c] # "none" /\ c \notin isRunning}
Promise == INSTANCE HermesService
    WITH phase <- [n \in Asks |-> Phase(pc[n])], home <- client,
         gone <- Ended, left <- idled
ImplementsHermesService == Promise!Spec

(* Three parts of that promise, in the terms of Acp. *)

(* The process that answers an ask was launched for the ask's own pool     *)
(* key: a sandboxed request never runs in a full-access process, nor the   *)
(* other way round, whatever was dropped, replaced or closed meanwhile.    *)
ModeIsolation == \A n \in Asks : client[n] # None => key[client[n]] = key[n]

(* A reply has another ask's text in it only when that other ask was left  *)
(* for silence before Hermes had answered it (session updates carry no     *)
(* prompt id).                                                             *)
ForeignTextOnlyAfterIdle ==
    \A n \in Asks : reply[n] \subseteq {n} \cup idled

(* An ask that failed leaves no trace: its client is out of the pool and   *)
(* will not be handed out again, unless a start has yet to fail.           *)
FailedClientNotPooled ==
    \A n \in Asks :
        pc[n] = "failed" => \A k \in Keys : pool[k] # client[n]

(* Every ask returns once its context ends, although Hermes may be silent  *)
(* or dead and askMu is waited for without a context.                      *)
EveryAskReturns == \A n \in Asks : pc[n] # "idle" ~> Returned(n)

(* Nobody can reach the process of client c any more. *)
Orphan(c) ==
    /\ \A k \in Keys : pool[k] # c
    /\ \A n \in Asks : client[n] = c => Returned(n)

(* A Hermes process that nobody can reach ends, also when its place in the *)
(* pool was taken by another, "initialize" failed or ClosePersistentACP    *)
(* stopped the client before it was launched.                              *)
NoOrphanProcess ==
    \A c \in Asks : proc[c] = "alive" /\ Orphan(c) ~> proc[c] = "gone"

(* README.md promises a backend kept warm between messages: a process that *)
(* served an ask well is not killed because that ask's request is over.    *)
KeptWarm ==
    [][\A c \in Asks : KillByContext(c) => pc[c] # "done"]_<<vars>>
=============================================================================
