------------------------------- MODULE Answer -------------------------------
(***************************************************************************)
(* What one message goes through once its handler has its session          *)
(* (handleMessage, internal/bridge/service.go): the built-in commands, the *)
(* security policy (internal/security/policy.go), the configured commands  *)
(* (internal/commands/router.go), the routing between base and strong      *)
(* model, Hermes itself (AskWithSession, internal/hermes/runner.go), the   *)
(* progress notices beside it and the delivery of the answer.              *)
(*                                                                         *)
(* The one-shot Hermes is that of module OneShot, step by step; the        *)
(* persistent one is module Acp's and here only answers or fails.  What    *)
(* saving a configuration and recording a session do is in modules         *)
(* Settings and Sessions.                                                  *)
(***************************************************************************)
EXTENDS OneShot

CONSTANTS
    Messages,   \* what a message may be
    Configs     \* the configurations its handler may find

Builtins == {"help", "identity", "mode", "shell"}
Customs == {"unknown", "prompt", "exec", "badType"}

(* kind: a built-in or a configured command, or text; ownerOnly, unasked:  *)
(* that command is for owners, or wants an @ that the message lacks.       *)
Message == [kind : Builtins \cup Customs \cup {"text"}, owner : BOOLEAN,
            ownerOnly : BOOLEAN, unasked : BOOLEAN, claims : BOOLEAN,
            sensitive : BOOLEAN]
(* "other" is any text but the two that the code compares the mode with. *)
Modes == {"sandbox", "full", "other"}
Config == [mode : Modes, fullForOwnersOnly : BOOLEAN,
           allowSensitive : BOOLEAN, routed : BOOLEAN,
           persistent : BOOLEAN, requirePersistent : BOOLEAN]

ASSUME InputAssumption == Messages \subseteq Message /\ Configs \subseteq Config

VARIABLES
    msg, cfg,
    pc,        \* where the handler is
    mode,      \* cfg.Security.Mode, after the downgrade
    asking,    \* whom it asks
    deadline,  \* the message's context
    command,   \* the process of /shell or of an exec command
    reply,     \* what is to be sent
    source,    \* who produced it
    recorded,  \* the turn, as runWithSession put it into the store
    finals,    \* answers sent
    progress,  \* where the goroutine of startProgress is
    stop,      \* its channel done is closed
    tick       \* its ticker has ticked

inputVars == <<msg, cfg>>
askVars == <<mode, asking>>
answerVars == <<reply, source, recorded, finals>>
progressVars == <<progress, stop, tick>>
handlerVars == <<inputVars, pc, askVars, deadline, command, answerVars,
                 progressVars>>
vars == <<handlerVars, oneShotVars>>

Init ==
    /\ msg \in Messages /\ cfg \in Configs
    /\ pc = "received" /\ mode = cfg.mode /\ asking = "none"
    /\ deadline = "none" /\ command = "none"
    /\ reply = "none" /\ source = "none" /\ recorded = "no" /\ finals = 0
    /\ progress = "none" /\ stop = FALSE /\ tick = FALSE
    /\ OneShotInit

Goto(from, to) == pc = from /\ pc' = to

(* The handler has something to send: at once, or when the notices have    *)
(* been stopped.                                                           *)
Say(r, who) == pc' = "deliver" /\ reply' = r /\ source' = who
Reply(r, who) == pc' = "answered" /\ reply' = r /\ source' = who

-----------------------------------------------------------------------------
(* Asking Hermes: runHermes, AskWithSession. *)

(* A call of its own, with a fresh process, buffer and timer. *)
BeginAsk(who, context) ==
    /\ asking' = who
    /\ pc' = IF cfg.persistent THEN "acp" ELSE "oneShot"
    /\ NewCall(context)

(* A faulty variant of BaseSession: the base model's session is kept. *)
BaseKeepsSession(o) == IF o.session THEN "new" ELSE "same"

(* The base model's own session is forgotten, the chat keeps the one it    *)
(* has.                                                                    *)
BaseSession(o) == "same"

(* What the caller of runHermes does with the outcome. *)
Failed == [ok |-> FALSE, text |-> "empty", session |-> FALSE]
Conclude(o, who) ==
    \/ /\ asking = "normalise"
       /\ Say(IF o.ok /\ o.text # "empty" THEN "text" ELSE "error", who)
       /\ UNCHANGED <<recorded, asking, oneShotVars>>
    \/ /\ asking = "base" /\ o.ok /\ o.text # "marker"
       /\ Reply(o.text, who) /\ recorded' = BaseSession(o)
       /\ UNCHANGED <<asking, oneShotVars>>
    \/ /\ asking = "base" /\ (~o.ok \/ o.text = "marker")
       /\ BeginAsk("strong", deadline)
       /\ UNCHANGED <<reply, source, recorded>>
    \/ /\ asking \in {"plain", "strong"} /\ o.ok
       /\ Reply(IF o.text = "empty" THEN "empty" ELSE "text", who)
       /\ recorded' = IF o.session THEN "new" ELSE "same"
       /\ UNCHANGED <<asking, oneShotVars>>
    \/ /\ asking \in {"plain", "strong"} /\ ~o.ok
       /\ Reply("error", who)
       /\ UNCHANGED <<recorded, asking, oneShotVars>>

askRest == <<inputVars, mode, deadline, command, finals, progressVars>>

(* askPersistentACP answers, or fails: then one-shot, unless forbidden. *)
AcpAnswers ==
    /\ pc = "acp"
    /\ \E t \in {"empty", "marker", "text"}, s \in BOOLEAN :
          Conclude([ok |-> TRUE, text |-> t, session |-> s], "acp")
    /\ UNCHANGED askRest

AcpFails ==
    /\ pc = "acp"
    /\ IF cfg.requirePersistent
       THEN Conclude(Failed, "acp")
       ELSE /\ pc' = "oneShot"
            /\ UNCHANGED <<asking, reply, source, recorded, oneShotVars>>
    /\ UNCHANGED askRest

OneShotBegins ==
    /\ pc = "oneShot" /\ (Launch \/ LaunchFails)
    /\ UNCHANGED handlerVars

Outcome ==
    [ok |-> result.ok, session |-> result.session,
     text |-> CASE result.text = <<>> -> "empty"
                [] result.text = <<"marker">> -> "marker"
                [] OTHER -> "text"]

OneShotReturns ==
    /\ pc = "oneShot" /\ call = "returned"
    /\ Conclude(Outcome, "oneShot")
    /\ UNCHANGED askRest

-----------------------------------------------------------------------------
(* handleAdminCommand: built-in commands, before any policy. *)

commandRest == <<inputVars, askVars, deadline, recorded, finals, progressVars,
                 oneShotVars>>

(* /help, a command that its sender may not use, and what needs neither    *)
(* Hermes nor a process: showing a text, switching the mode, a usage line. *)
Builtin ==
    /\ pc = "received" /\ msg.kind \in Builtins
    /\ Say("text", "bridge")
    /\ UNCHANGED <<command, commandRest>>

(* normalizePromptText: a new text for /identity or /style, made by Hermes *)
(* in 60 seconds of its own.                                               *)
Normalise ==
    /\ pc = "received" /\ msg.kind = "identity" /\ msg.owner
    /\ BeginAsk("normalise", "live")
    /\ UNCHANGED <<inputVars, mode, deadline, command, answerVars,
                   progressVars>>

(* runAdminShell *)
RunShell ==
    /\ pc = "received" /\ msg.kind = "shell" /\ msg.owner
    /\ pc' = "command" /\ command' = "running"
    /\ UNCHANGED <<reply, source, commandRest>>

-----------------------------------------------------------------------------
(* The policy, and configured commands. *)

(* CanHandleSensitiveRequest *)
Allowed ==
    /\ ~msg.claims
    /\ msg.sensitive => cfg.allowSensitive \/ msg.owner

Refuse ==
    /\ pc = "received" /\ msg.kind \notin Builtins /\ ~Allowed
    /\ Say("text", "bridge")
    /\ UNCHANGED <<command, commandRest>>

(* A faulty variant of Effective: no downgrade. *)
AsConfigured == cfg.mode

(* Non-owners are downgraded to sandbox. *)
Effective ==
    IF cfg.mode = "full" /\ cfg.fullForOwnersOnly /\ ~msg.owner
    THEN "sandbox" ELSE cfg.mode

(* The message's context and its notices begin. *)
Admit ==
    /\ pc = "received" /\ msg.kind \notin Builtins /\ Allowed
    /\ pc' = "handle"
    /\ mode' = Effective
    /\ deadline' = "live" /\ progress' = "delay"
    /\ UNCHANGED <<inputVars, asking, command, answerVars, stop, tick,
                   oneShotVars>>

(* commands.Handle: unknown, unasked, forbidden or of no known type. *)
TurnedAway ==
    \/ msg.kind \in {"unknown", "badType"}
    \/ msg.kind \in Customs /\ msg.unasked
    \/ /\ msg.kind \in Customs /\ ~msg.owner
       /\ msg.ownerOnly \/ msg.kind = "exec"

TurnAway ==
    /\ pc = "handle" /\ TurnedAway
    /\ Reply("text", "bridge")
    /\ UNCHANGED <<command, commandRest>>

(* runExec: the configured argv, or an error when that is empty. *)
RunExec ==
    /\ pc = "handle" /\ msg.kind = "exec" /\ ~TurnedAway
    /\ \/ /\ pc' = "command" /\ command' = "running"
          /\ UNCHANGED <<reply, source>>
       \/ Reply("error", "bridge") /\ UNCHANGED command
    /\ UNCHANGED commandRest

(* A prompt command that is configured without a prompt says nothing. *)
EmptyPrompt ==
    /\ pc = "handle" /\ msg.kind = "prompt" /\ ~TurnedAway
    /\ Reply("empty", "command")
    /\ UNCHANGED <<command, commandRest>>

(* Text and prompt commands go to Hermes: runWithSession and its routing. *)
Run ==
    /\ pc = "handle" /\ msg.kind \in {"text", "prompt"} /\ ~TurnedAway
    /\ BeginAsk(IF cfg.routed THEN "base" ELSE "plain", deadline)
    /\ UNCHANGED <<inputVars, mode, deadline, command, answerVars,
                   progressVars>>

-----------------------------------------------------------------------------
(* The process of /shell or of an exec command, in 60 seconds or its own   *)
(* timeout.                                                                *)

(* It ends, or is killed at its timeout.  CombinedOutput goes on waiting   *)
(* while a child of it holds the output open.                              *)
CommandEnds ==
    /\ command = "running" /\ command' \in {"ended", "held"}
    /\ UNCHANGED <<pc, reply, source, commandRest>>

ChildEnds ==
    /\ command = "held" /\ command' = "ended"
    /\ UNCHANGED <<pc, reply, source, commandRest>>

(* A silent /shell is answered OK; a silent exec command is not answered. *)
CommandReturns ==
    /\ pc = "command" /\ command = "ended"
    /\ \/ msg.kind = "shell" /\ Say("text", "command")
       \/ msg.kind = "exec" /\ \E r \in {"text", "empty"} : Reply(r, "command")
    /\ UNCHANGED <<command, commandRest>>

-----------------------------------------------------------------------------
(* startProgress: its goroutine. *)

progressRest == <<inputVars, pc, askVars, deadline, command, answerVars, stop,
                  oneShotVars>>

(* The delay is over: the notice that reasoning has begun. *)
StartNotice ==
    /\ progress = "delay" /\ progress' = "sending"
    /\ UNCHANGED <<tick, progressRest>>

NoticeSent ==
    /\ progress = "sending" /\ progress' = "wait"
    /\ UNCHANGED <<tick, progressRest>>

(* The ticker's channel holds one tick, and is filled during a Send too. *)
Tick ==
    /\ progress \in {"wait", "sending"} /\ ~tick /\ tick' = TRUE
    /\ UNCHANGED <<progress, progressRest>>

Notice ==
    /\ progress = "wait" /\ tick
    /\ tick' = FALSE /\ progress' = "sending"
    /\ UNCHANGED progressRest

(* A faulty variant of Over: only the first select looks at the channels. *)
OverEarly == progress = "delay" /\ (stop \/ deadline = "done")

Over == progress \in {"delay", "wait"} /\ (stop \/ deadline = "done")

ProgressEnds ==
    /\ Over /\ progress' = "ended"
    /\ UNCHANGED <<tick, progressRest>>

-----------------------------------------------------------------------------
(* Delivery. *)

deliveryRest == <<inputVars, askVars, command, reply, source, recorded,
                  progress, tick, oneShotVars>>

(* progressDone() *)
StopNotices ==
    /\ Goto("answered", "deliver") /\ stop' = TRUE
    /\ UNCHANGED <<deadline, finals, deliveryRest>>

(* The handler returns, and with it its context is cancelled. *)
Finish ==
    /\ pc' = "done"
    /\ deadline' = IF deadline = "live" THEN "done" ELSE deadline

SayNothing ==
    /\ pc = "deliver" /\ reply = "empty"
    /\ Finish
    /\ UNCHANGED <<finals, stop, deliveryRest>>

(* sendGeneratedFileIfRequested: the message wants a file and the reply    *)
(* has one; it is written to the outbox and sent, or something fails.      *)
SendFile ==
    /\ Goto("deliver", "notice") /\ reply # "empty" /\ stop
    /\ UNCHANGED <<finals, deadline, stop, deliveryRest>>

(* conn.Send of the reply, or of what became of the file. *)
Send ==
    /\ \/ pc = "deliver" /\ reply # "empty"
       \/ pc = "notice"
    /\ finals' = finals + 1
    /\ Finish
    /\ UNCHANGED <<stop, deliveryRest>>

-----------------------------------------------------------------------------
(* Time: the message's own context, and those made for one call. *)

Waiting == pc \in {"acp", "oneShot"} /\ ctx = "live"

MessageDeadline ==
    /\ deadline = "live" /\ deadline' = "done"
    /\ IF Waiting THEN Expire ELSE UNCHANGED oneShotVars
    /\ UNCHANGED <<inputVars, pc, askVars, command, answerVars, progressVars>>

CallDeadline ==
    /\ Waiting /\ asking \in {"normalise", "base"}
    /\ Expire
    /\ UNCHANGED handlerVars

HermesRuns == OneShotNext /\ UNCHANGED handlerVars

AskSteps == AcpAnswers \/ AcpFails \/ OneShotBegins \/ OneShotReturns
HandlerSteps ==
    \/ Builtin \/ Normalise \/ RunShell \/ Refuse \/ Admit \/ TurnAway
    \/ RunExec \/ EmptyPrompt \/ Run \/ AskSteps \/ CommandReturns
    \/ StopNotices \/ SayNothing \/ SendFile \/ Send
ProgressSteps == StartNotice \/ NoticeSent \/ Tick \/ Notice \/ ProgressEnds

Finished ==
    /\ pc = "done" /\ progress \in {"none", "ended"}
    /\ UNCHANGED vars

Next ==
    \/ HandlerSteps \/ ProgressSteps
    \/ CommandEnds \/ ChildEnds
    \/ MessageDeadline \/ CallDeadline
    \/ HermesRuns
    \/ Finished

Spec == Init /\ [][Next]_vars

(* Goroutines are scheduled, sends return, contexts and timeouts run out,  *)
(* and a select takes one of its ready cases at random.  No process, and   *)
(* no child of one, has to end.                                            *)
Fairness ==
    /\ WF_vars(HandlerSteps)
    /\ WF_vars(NoticeSent) /\ SF_vars(ProgressEnds)
    /\ WF_vars(CommandEnds)
    /\ WF_vars(MessageDeadline) /\ WF_vars(CallDeadline)
    /\ OneShotFairness

FairSpec == Spec /\ Fairness

-----------------------------------------------------------------------------
(* Properties. *)

TypeOK ==
    /\ msg \in Messages /\ cfg \in Configs
    /\ pc \in {"received", "acp", "oneShot", "handle", "command", "answered",
               "deliver", "notice", "done"}
    /\ mode \in Modes
    /\ asking \in {"none", "normalise", "base", "plain", "strong"}
    /\ deadline \in {"none", "live", "done"}
    /\ command \in {"none", "running", "ended", "held"}
    /\ reply \in {"none", "empty", "text", "error"}
    /\ recorded \in {"no", "same", "new"}
    /\ progress \in {"none", "delay", "sending", "wait", "ended"}
    /\ stop \in BOOLEAN /\ tick \in BOOLEAN
    /\ OneShotTypeOK

(* A one-shot Hermes outlives neither the call that started it nor, if its *)
(* context ran out, the routing that goes on to the strong model.          *)
NoHermesLeft ==
    /\ call = "returned" => Reaped
    /\ pc # "oneShot" => proc # "running"

(* CanUseFullEnvironment (internal/security/policy.go:19) says who may     *)
(* have the full environment.  Through all ways to Hermes and to a process *)
(* of the host: Hermes runs outside of the sandbox only for those, or for  *)
(* everybody if the mode is a text that neither policy nor downgrade know; *)
(* /shell and exec commands run only for owners; and a text that claims an *)
(* identity gets no further than an owner's own command does.              *)
CanUseFullEnvironment ==
    cfg.mode = "full" /\ (cfg.fullForOwnersOnly => msg.owner)
PrivilegesKept ==
    /\ asking # "none" /\ mode # "sandbox" =>
           CanUseFullEnvironment \/ cfg.mode \notin {"sandbox", "full"}
    /\ command # "none" => msg.owner
    /\ msg.claims /\ (asking # "none" \/ command # "none") =>
           msg.owner /\ msg.kind \in Builtins

(* A message gets one answer.  It gets none only after a silent exec       *)
(* command, a prompt command without a prompt, a persistent Hermes that    *)
(* had nothing to say, or a one-shot Hermes that ended by itself and well, *)
(* of whose output nothing, or nothing before the pipes were closed, was   *)
(* an answer.                                                              *)
AnsweredOnce ==
    /\ finals <= 1
    /\ pc = "done" /\ finals = 0 =>
           \/ source \in {"command", "acp"}
           \/ source = "oneShot" /\ proc = "exited" /\ result.ok

(* The turn is recorded if and only if Hermes' own answer is what is sent, *)
(* and a new session only if it is the one that answer came from: not the  *)
(* base model's, not that of a call that failed.                           *)
RecordedFromAnswer ==
    pc = "done" =>
        /\ recorded # "no" <=>
              asking \in {"base", "plain", "strong"} /\ reply # "error"
        /\ recorded = "new" => asking \in {"plain", "strong"}

(* Whatever Hermes does or fails to do, the handler comes to its end; only *)
(* a child that holds a command's output open can keep it.                 *)
MessageSettles == pc = "received" ~> pc = "done" \/ command = "held"

(* The notices end when the answer is there.                               *)
NoticesEnd == stop ~> progress = "ended"
=============================================================================
