---------------------------- MODULE AnswerProofs ----------------------------
(***************************************************************************)
(* Theorems about Answer for any messages, configurations and number of    *)
(* lines that a one-shot Hermes prints.                                    *)
(*                                                                         *)
(* Four invariants, the others inductive on top of the first: what the     *)
(* handler's place says about whom it asks and about the one-shot call;    *)
(* with which privileges; what is sent and recorded in the end; and the    *)
(* types.                                                                  *)
(***************************************************************************)
EXTENDS Answer, OneShotProofs

Asks == {"normalise", "base", "plain", "strong"}
Early == {"received", "handle", "command"}
Asking == {"acp", "oneShot"}
Late == {"answered", "deliver", "notice", "done"}

-----------------------------------------------------------------------------
(* The one-shot call.  It is only at work while the handler waits for it,  *)
(* a result of cmd.Wait tells how the process ended, and a call that has   *)
(* returned has waited for the process.                                    *)
CallInv ==
    /\ pc \in Early \cup Asking \cup Late
    /\ pc \in Early => asking = "none"
    /\ pc \in Asking => asking \in Asks
    /\ asking \in Asks \cup {"none"}
    /\ call \in {"idle", "loop", "idleKill", "contextKill", "returned"}
    /\ pc # "oneShot" => call \in {"idle", "returned"}
    /\ pc = "acp" => call = "idle"
    /\ call = "idle" => proc = "none"
    /\ proc = "none" => done = "none"
    /\ proc \in {"none", "running", "exited", "failed", "killed"}
    /\ done \in {"none", "ok", "error", "taken"}
    /\ done # "none" => proc # "running"
    /\ done = "ok" => proc = "exited"
    /\ call = "returned" => Reaped

LEMMA OneShotKeeps ==
  CallInv /\ (OneShotNext \/ OneShotBegins) /\ pc' = pc /\ asking' = asking =>
      CallInv'
<1> SUFFICES ASSUME CallInv, OneShotNext \/ OneShotBegins,
                    pc' = pc, asking' = asking
             PROVE  CallInv'
  OBVIOUS
<1> USE DEF CallInv, Reaped, Early, Asking, Late, Asks, Waited, Kill, Return,
            loopVars, outputVars
<1>1. CASE OneShotBegins
  BY <1>1 DEF OneShotBegins, Launch, LaunchFails
<1>2. CASE TakeDone
  BY <1>2 DEF TakeDone
<1>3. CASE TakeTouch \/ TakeIdle \/ TakeContext
  BY <1>3 DEF TakeTouch, TakeIdle, TakeContext
<1>4. CASE AfterKill
  BY <1>4 DEF AfterKill
<1>5. CASE Wait \/ WatchContext \/ Exit
  BY <1>5 DEF Wait, WatchContext, Exit
<1>6. CASE \E s \in Streams : Copy(s) \/ \E l \in Lines : Emit(s, l)
  BY <1>6 DEF Copy, Emit
<1> QED
  BY <1>1, <1>2, <1>3, <1>4, <1>5, <1>6 DEF OneShotNext

(* What becomes of the outcome: an answer, or another call.                *)
LEMMA ConcludeKeeps ==
  ASSUME NEW o, NEW who, CallInv, pc \in Asking, Conclude(o, who),
         call \in {"idle", "returned"}
  PROVE  CallInv'
<1> USE DEF CallInv, Reaped, Early, Asking, Late, Asks, Conclude, Say, Reply,
            BeginAsk, NewCall, oneShotVars, loopVars, outputVars
<1>1. CASE asking = "normalise"
  BY <1>1
<1>2. CASE asking = "base"
  BY <1>2
<1>3. CASE asking \in {"plain", "strong"}
  BY <1>3
<1> QED
  BY <1>1, <1>2, <1>3

LEMMA CallNext == CallInv /\ [Next]_vars => CallInv'
<1> SUFFICES ASSUME CallInv, [Next]_vars PROVE CallInv'
  OBVIOUS
<1> USE DEF oneShotVars, loopVars, outputVars, handlerVars, inputVars, askVars,
            answerVars, progressVars, askRest, commandRest, progressRest,
            deliveryRest
<1>1. CASE AcpAnswers
  BY <1>1, ConcludeKeeps DEF AcpAnswers, CallInv, Asking
<1>2. CASE AcpFails
  <2>1. CASE cfg.requirePersistent
    BY <1>2, <2>1, ConcludeKeeps DEF AcpFails, CallInv, Asking
  <2>2. CASE ~cfg.requirePersistent
    BY <1>2, <2>2 DEF AcpFails, CallInv, Asking, Early, Late, Reaped
  <2> QED
    BY <2>1, <2>2
<1>3. CASE OneShotBegins
  BY <1>3, OneShotKeeps DEF OneShotBegins
<1>4. CASE OneShotReturns
  BY <1>4, ConcludeKeeps DEF OneShotReturns, Asking
<1>5. CASE Builtin \/ RunShell \/ Refuse \/ TurnAway \/ RunExec \/ EmptyPrompt
           \/ CommandReturns
  BY <1>5 DEF Builtin, RunShell, Refuse, TurnAway, RunExec, EmptyPrompt,
     CommandReturns, Say, Reply, CallInv, Reaped, Early, Asking, Late
<1>6. CASE Normalise \/ Run
  BY <1>6 DEF Normalise, Run, BeginAsk, NewCall, CallInv, Reaped, Early, Asking,
     Late, Asks
<1>7. CASE Admit
  BY <1>7 DEF Admit, CallInv, Reaped, Early, Asking, Late
<1>8. CASE StopNotices \/ SayNothing \/ SendFile \/ Send
  BY <1>8 DEF StopNotices, SayNothing, SendFile, Send, Goto, Finish, CallInv,
     Reaped, Early, Asking, Late
<1>9. CASE ProgressSteps
  BY <1>9 DEF ProgressSteps, StartNotice, NoticeSent, Tick, Notice,
     ProgressEnds, CallInv, Reaped
<1>10. CASE CommandEnds \/ ChildEnds
  BY <1>10 DEF CommandEnds, ChildEnds, CallInv, Reaped
<1>11. CASE MessageDeadline \/ CallDeadline
  BY <1>11 DEF MessageDeadline, CallDeadline, Expire, CallInv, Reaped
<1>12. CASE HermesRuns
  BY <1>12, OneShotKeeps DEF HermesRuns
<1>13. CASE Finished \/ UNCHANGED vars
  BY <1>13 DEF Finished, vars, CallInv, Reaped
<1> QED
  BY <1>1, <1>2, <1>3, <1>4, <1>5, <1>6, <1>7, <1>8, <1>9, <1>10, <1>11, <1>12,
     <1>13 DEF Next, HandlerSteps, AskSteps

LEMMA CallAlways == Spec => []CallInv
<1>1. Init => CallInv
  BY DEF Init, OneShotInit, CallInv, Reaped, Early, Asking, Late
<1> QED
  BY <1>1, CallNext, PTL DEF Spec

(* Whatever ends the call, and whatever its context and the process do     *)
(* meanwhile, no one-shot Hermes is alive when the handler goes on.        *)
THEOREM NoHermesIsLeft == Spec => []NoHermesLeft
<1>1. CallInv => NoHermesLeft
  BY DEF CallInv, NoHermesLeft, Reaped
<1> QED
  BY <1>1, CallAlways, PTL

-----------------------------------------------------------------------------
(* The privileges.  An owner's text for /identity is normalised in the     *)
(* configured mode; whatever else asks Hermes comes after the downgrade    *)
(* and the policy; a command's process was started for an owner.           *)
Answers == {"base", "plain", "strong"}
PrivilegeInv ==
    /\ pc = "received" => mode = cfg.mode /\ command = "none"
    /\ pc = "handle" \/ asking \in Answers =>
           mode = Effective /\ ~msg.claims /\ msg.kind \notin Builtins
    /\ pc = "handle" => command = "none"
    /\ asking = "normalise" =>
           mode = cfg.mode /\ msg.owner /\ msg.kind \in Builtins
    /\ command # "none" => msg.owner /\ (msg.claims => msg.kind \in Builtins)

LEMMA PrivilegeNext ==
  CallInv /\ PrivilegeInv /\ [Next]_vars => PrivilegeInv'
<1> SUFFICES ASSUME CallInv, PrivilegeInv, [Next]_vars PROVE PrivilegeInv'
  OBVIOUS
<1> USE DEF CallInv, PrivilegeInv, Answers, Early, Asking, Late, Asks,
            Effective, handlerVars, inputVars, askVars, answerVars, progressVars,
            askRest, commandRest, progressRest, deliveryRest
<1>1. ASSUME NEW o, NEW who, pc \in Asking, Conclude(o, who),
             UNCHANGED askRest
      PROVE  PrivilegeInv'
  BY <1>1 DEF Conclude, Say, Reply, BeginAsk
<1>2. CASE AcpAnswers
  BY <1>1, <1>2 DEF AcpAnswers
<1>3. CASE AcpFails
  BY <1>1, <1>3 DEF AcpFails
<1>4. CASE OneShotReturns
  BY <1>1, <1>4 DEF OneShotReturns
<1>5. CASE Builtin \/ Refuse \/ TurnAway \/ EmptyPrompt \/ CommandReturns
  BY <1>5 DEF Builtin, Refuse, TurnAway, EmptyPrompt, CommandReturns, Say, Reply
<1>6. CASE RunShell
  BY <1>6 DEF RunShell, Builtins
<1>7. CASE RunExec
  BY <1>7 DEF RunExec, TurnedAway, Customs, Reply
<1>8. CASE Normalise
  BY <1>8 DEF Normalise, BeginAsk, Builtins
<1>9. CASE Admit
  BY <1>9 DEF Admit, Allowed
<1>10. CASE Run
  BY <1>10 DEF Run, BeginAsk
<1>11. CASE StopNotices \/ SayNothing \/ SendFile \/ Send
  BY <1>11 DEF StopNotices, SayNothing, SendFile, Send, Goto, Finish
<1>12. CASE ProgressSteps
  BY <1>12 DEF ProgressSteps, StartNotice, NoticeSent, Tick, Notice,
     ProgressEnds
<1>13. CASE CommandEnds \/ ChildEnds
  BY <1>13 DEF CommandEnds, ChildEnds
<1>14. CASE OneShotBegins \/ MessageDeadline \/ CallDeadline \/ HermesRuns
  BY <1>14 DEF OneShotBegins, MessageDeadline, CallDeadline, HermesRuns
<1>15. CASE Finished \/ UNCHANGED vars
  BY <1>15 DEF Finished, vars
<1> QED
  BY <1>2, <1>3, <1>4, <1>5, <1>6, <1>7, <1>8, <1>9, <1>10, <1>11, <1>12,
     <1>13, <1>14, <1>15 DEF Next, HandlerSteps, AskSteps

(* On none of the ways from a message to Hermes or to a process of the     *)
(* host does anybody get more than CanUseFullEnvironment and the owners'   *)
(* list grant, nor does a text that claims an identity; but for Hermes     *)
(* where the mode is a text that the policy does not know.                 *)
THEOREM PrivilegesAreKept == Spec => []PrivilegesKept
<1>1. Init => PrivilegeInv
  BY DEF Init, PrivilegeInv, Answers
<1>2. CallInv /\ PrivilegeInv => PrivilegesKept
  BY DEF CallInv, PrivilegeInv, PrivilegesKept, Answers, Asks, Effective,
         CanUseFullEnvironment
<1> QED
  BY <1>1, <1>2, PrivilegeNext, CallAlways, PTL DEF Spec

-----------------------------------------------------------------------------
(* The answer.  A one-shot Hermes that gave a good but empty result ended  *)
(* by itself; and from the moment there is a reply, what was recorded and  *)
(* who may have been silent are settled.                                   *)
Silent ==
    \/ source \in {"command", "acp"}
    \/ source = "oneShot" /\ proc = "exited" /\ result.ok
ReplyInv ==
    /\ call = "idleKill" => result.text # <<>>
    /\ call = "returned" /\ result.ok /\ result.text = <<>> => proc = "exited"
    /\ pc \notin Late => recorded = "no"
    /\ pc \in Late =>
           /\ recorded # "no" <=> asking \in Answers /\ reply # "error"
           /\ recorded = "new" => asking \in {"plain", "strong"}
           /\ reply = "empty" => Silent
    /\ finals \in {0, 1}
    /\ pc # "done" => finals = 0
    /\ pc = "done" /\ finals = 0 => reply = "empty"

LEMMA OutcomeText ==
  /\ Outcome.text \in {"empty", "marker", "text"}
  /\ Outcome.text = "empty" => result.text = <<>>
  BY DEF Outcome

(* Every answer that Conclude accepts is recorded as it should be.         *)
LEMMA ConcludeReplies ==
  ASSUME NEW o, NEW who, CallInv, ReplyInv, pc \in Asking, Conclude(o, who),
         o.text # "error",
         o.ok /\ o.text = "empty" =>
             who = "acp" \/ (who = "oneShot" /\ proc = "exited" /\ result.ok),
         finals' = finals
  PROVE  ReplyInv'
<1> USE DEF CallInv, ReplyInv, Silent, Answers, Early, Asking, Late, Asks,
            Conclude, Say, Reply, BeginAsk, NewCall, BaseSession,
            oneShotVars, loopVars
<1>1. CASE asking = "normalise"
  BY <1>1
<1>2. CASE asking = "base"
  BY <1>2
<1>3. CASE asking \in {"plain", "strong"}
  BY <1>3
<1> QED
  BY <1>1, <1>2, <1>3

(* The steps of the one-shot call, which end in good results only as       *)
(* described, and leave a settled answer alone.                            *)
LEMMA OneShotReplies ==
  CallInv /\ ReplyInv /\ (OneShotNext \/ OneShotBegins)
  /\ UNCHANGED handlerVars => ReplyInv'
<1> SUFFICES ASSUME CallInv, ReplyInv, OneShotNext \/ OneShotBegins,
                    UNCHANGED handlerVars
             PROVE  ReplyInv'
  OBVIOUS
<1> USE DEF CallInv, ReplyInv, Silent, Reaped, Early, Asking, Late, Waited,
            Kill, Return, Cleaned, NoResult, handlerVars, askVars, answerVars,
            loopVars, outputVars
<1>1. CASE OneShotBegins
  BY <1>1 DEF OneShotBegins, Launch, LaunchFails
<1>2. CASE TakeDone
  BY <1>2 DEF TakeDone
<1>3. CASE TakeTouch \/ TakeIdle \/ TakeContext
  BY <1>3 DEF TakeTouch, TakeIdle, TakeContext
<1>4. CASE AfterKill
  BY <1>4 DEF AfterKill
<1>5. CASE Wait \/ WatchContext \/ Exit
  BY <1>5 DEF Wait, WatchContext, Exit
<1>6. CASE \E s \in Streams : Copy(s) \/ \E l \in Lines : Emit(s, l)
  BY <1>6 DEF Copy, Emit
<1> QED
  BY <1>1, <1>2, <1>3, <1>4, <1>5, <1>6 DEF OneShotNext

LEMMA ReplyNext == CallInv /\ ReplyInv /\ [Next]_vars => ReplyInv'
<1> SUFFICES ASSUME CallInv, ReplyInv, [Next]_vars PROVE ReplyInv'
  OBVIOUS
<1> USE DEF handlerVars, inputVars, askVars, answerVars, progressVars, askRest,
            commandRest, progressRest, deliveryRest, oneShotVars, loopVars,
            outputVars, Early, Asking, Late, Answers, Silent
<1>1. CASE AcpAnswers
  BY <1>1, ConcludeReplies DEF AcpAnswers
<1>2. CASE AcpFails
  <2>1. CASE cfg.requirePersistent
    BY <1>2, <2>1, ConcludeReplies DEF AcpFails, Failed
  <2>2. CASE ~cfg.requirePersistent
    BY <1>2, <2>2 DEF AcpFails, ReplyInv
  <2> QED
    BY <2>1, <2>2
<1>3. CASE OneShotBegins \/ HermesRuns
  BY <1>3, OneShotReplies DEF OneShotBegins, HermesRuns
<1>4. CASE OneShotReturns
  <2>1. Outcome.ok = result.ok
    BY DEF Outcome
  <2>2. Outcome.ok /\ Outcome.text = "empty" => proc = "exited" /\ result.ok
    BY <1>4, <2>1, OutcomeText DEF OneShotReturns, ReplyInv
  <2> QED
    BY <1>4, <2>2, OutcomeText, ConcludeReplies DEF OneShotReturns
<1>5. CASE Builtin \/ Refuse \/ TurnAway \/ EmptyPrompt
  BY <1>5 DEF Builtin, Refuse, TurnAway, EmptyPrompt, Say, Reply, ReplyInv,
              CallInv
<1>6. CASE RunExec \/ RunShell \/ CommandReturns
  BY <1>6 DEF RunExec, RunShell, CommandReturns, Say, Reply, ReplyInv, CallInv
<1>7. CASE Normalise \/ Run
  BY <1>7 DEF Normalise, Run, BeginAsk, NewCall, NoResult, ReplyInv
<1>8. CASE Admit
  BY <1>8 DEF Admit, ReplyInv
<1>9. CASE StopNotices \/ SayNothing \/ SendFile \/ Send
  BY <1>9 DEF StopNotices, SayNothing, SendFile, Send, Goto, Finish, ReplyInv
<1>10. CASE ProgressSteps
  BY <1>10 DEF ProgressSteps, StartNotice, NoticeSent, Tick, Notice,
     ProgressEnds, ReplyInv
<1>11. CASE CommandEnds \/ ChildEnds
  BY <1>11 DEF CommandEnds, ChildEnds, ReplyInv
<1>12. CASE MessageDeadline \/ CallDeadline
  BY <1>12 DEF MessageDeadline, CallDeadline, Expire, ReplyInv
<1>13. CASE Finished \/ UNCHANGED vars
  BY <1>13 DEF Finished, vars, ReplyInv
<1> QED
  BY <1>1, <1>2, <1>3, <1>4, <1>5, <1>6, <1>7, <1>8, <1>9, <1>10, <1>11, <1>12,
     <1>13 DEF Next, HandlerSteps, AskSteps

LEMMA ReplyAlways == Spec => []ReplyInv
<1>1. Init => ReplyInv
  BY DEF Init, OneShotInit, NoResult, ReplyInv, Late
<1> QED
  BY <1>1, ReplyNext, CallAlways, PTL DEF Spec

(* A message is answered at most once, and left without an answer only if  *)
(* who was to give it ended well and said nothing.                         *)
THEOREM IsAnsweredOnce == Spec => []AnsweredOnce
<1>1. ReplyInv => AnsweredOnce
  BY DEF ReplyInv, AnsweredOnce, Silent, Late
<1> QED
  BY <1>1, ReplyAlways, PTL

(* The chat's record follows the answer that was sent, whichever models    *)
(* were asked for it and however they failed.                              *)
THEOREM RecordFollowsAnswer == Spec => []RecordedFromAnswer
<1>1. ReplyInv => RecordedFromAnswer
  BY DEF ReplyInv, RecordedFromAnswer, Late, Answers
<1> QED
  BY <1>1, ReplyAlways, PTL

-----------------------------------------------------------------------------
(* The types.  Whoever asks on the message's behalf has been admitted: the *)
(* message's context exists, and is the one that the call gets.            *)
Admitted == pc = "handle" \/ asking \in Answers => deadline # "none"
TypeInv == TypeOK /\ Admitted

OutcomeType == [ok : BOOLEAN, text : {"empty", "marker", "text"},
                session : BOOLEAN]

LEMMA NewCallType ==
  ASSUME NEW context \in {"live", "done"}, NewCall(context)
  PROVE  OneShotTypeOK'
<1>1. 0 \in 0 .. MaxLines
  BY MaxLinesAssumption
<1>2. Kept(out', pipe') <= printed'
  <2>1. Kept(<<>>, Nothing) = 0 /\ 0 <= 0
    BY KeptTypes, NothingType
  <2> QED
    BY <2>1 DEF NewCall
<1> QED
  BY <1>1, <1>2, NothingType DEF NewCall, OneShotTypeOK, Kept

LEMMA OneShotTypeStutters ==
  OneShotTypeOK /\ UNCHANGED oneShotVars => OneShotTypeOK'
  BY DEF OneShotTypeOK, oneShotVars, loopVars, outputVars

(* The handler's part of TypeOK. *)
HandlerTypeOK ==
    /\ msg \in Messages /\ cfg \in Configs
    /\ pc \in {"received", "acp", "oneShot", "handle", "command", "answered",
               "deliver", "notice", "done"}
    /\ mode \in Modes
    /\ asking \in {"none", "normalise", "base", "plain", "strong"}
    /\ deadline \in {"none", "live", "done"}
    /\ command \in {"none", "running", "ended", "held"}
    /\ reply \in {"none", "empty", "text", "error"}
    /\ recorded \in {"no", "same", "new"}
    /\ progress \in {"none", "delay", "sending", "wait", "ended"}
    /\ stop \in BOOLEAN /\ tick \in BOOLEAN

LEMMA TypeParts == TypeOK <=> HandlerTypeOK /\ OneShotTypeOK
  BY DEF TypeOK, HandlerTypeOK

LEMMA ConcludeType ==
  ASSUME NEW o \in OutcomeType, NEW who, HandlerTypeOK, OneShotTypeOK, Admitted,
         CallInv, pc \in Asking, Conclude(o, who), UNCHANGED askRest
  PROVE  HandlerTypeOK' /\ OneShotTypeOK' /\ Admitted'
<1> USE DEF HandlerTypeOK, Admitted, Conclude, Say, Reply, BaseSession,
            OutcomeType, askRest, inputVars, progressVars, CallInv, Asks, Early,
            Asking, Late, Answers
<1>1. CASE asking = "normalise"
  BY <1>1, OneShotTypeStutters
<1>2. CASE asking = "base" /\ o.ok /\ o.text # "marker"
  BY <1>2, OneShotTypeStutters
<1>3. CASE asking = "base" /\ ~(o.ok /\ o.text # "marker")
  <2>1. BeginAsk("strong", deadline) /\ UNCHANGED <<reply, source, recorded>>
    BY <1>3
  <2>2. deadline \in {"live", "done"}
    BY <1>3
  <2>3. OneShotTypeOK'
    BY <2>1, <2>2, NewCallType DEF BeginAsk
  <2> QED
    BY <2>1, <2>2, <2>3 DEF BeginAsk
<1>4. CASE asking \in {"plain", "strong"}
  BY <1>4, OneShotTypeStutters
<1> QED
  BY <1>1, <1>2, <1>3, <1>4

LEMMA TypeNext == CallInv /\ TypeInv /\ [Next]_vars => TypeInv'
<1> SUFFICES ASSUME CallInv, HandlerTypeOK, OneShotTypeOK, Admitted, [Next]_vars
             PROVE  HandlerTypeOK' /\ OneShotTypeOK' /\ Admitted'
  BY TypeParts, PTL DEF TypeInv
<1> USE DEF handlerVars, inputVars, askVars, answerVars, progressVars, askRest,
            commandRest, progressRest, deliveryRest
<1>1. ASSUME UNCHANGED oneShotVars PROVE OneShotTypeOK'
  BY <1>1, OneShotTypeStutters
<1>2. ASSUME OneShotNext \/ Launch \/ LaunchFails PROVE OneShotTypeOK'
  BY <1>2, OneShotTypeNext
<1>3. CASE AcpAnswers
  BY <1>3, ConcludeType DEF AcpAnswers, Asking, OutcomeType
<1>4. CASE AcpFails
  <2>1. CASE cfg.requirePersistent
    BY <1>4, <2>1, ConcludeType DEF AcpFails, Asking, Failed, OutcomeType
  <2>2. CASE ~cfg.requirePersistent
    BY <1>1, <1>4, <2>2 DEF AcpFails, HandlerTypeOK, Admitted
  <2> QED
    BY <2>1, <2>2
<1>5. CASE OneShotBegins
  BY <1>2, <1>5 DEF OneShotBegins, HandlerTypeOK, Admitted
<1>6. CASE OneShotReturns
  <2>1. Outcome \in OutcomeType
    BY DEF OneShotTypeOK, Outcome, OutcomeType
  <2> QED
    BY <1>6, <2>1, ConcludeType DEF OneShotReturns, Asking
<1>7. CASE Builtin \/ RunShell \/ Refuse \/ TurnAway \/ RunExec \/ EmptyPrompt
           \/ CommandReturns
  BY <1>1, <1>7 DEF Builtin, RunShell, Refuse, TurnAway, RunExec, EmptyPrompt,
     CommandReturns, Say, Reply, HandlerTypeOK, Admitted
<1>8. CASE Normalise
  <2>1. OneShotTypeOK'
    BY <1>8, NewCallType DEF Normalise, BeginAsk
  <2> QED
    BY <1>8, <2>1 DEF Normalise, BeginAsk, HandlerTypeOK, Admitted, Answers
<1>9. CASE Run
  <2>1. deadline \in {"live", "done"}
    BY <1>9 DEF Run, Admitted, HandlerTypeOK
  <2>2. OneShotTypeOK'
    BY <1>9, <2>1, NewCallType DEF Run, BeginAsk
  <2> QED
    BY <1>9, <2>1, <2>2 DEF Run, BeginAsk, HandlerTypeOK, Admitted
<1>10. CASE Admit
  <2>1. cfg.mode \in Modes
    BY InputAssumption DEF HandlerTypeOK, Config
  <2> QED
    BY <1>1, <1>10, <2>1 DEF Admit, Effective, HandlerTypeOK, Admitted, Modes
<1>11. CASE StopNotices \/ SayNothing \/ SendFile \/ Send
  BY <1>1, <1>11 DEF StopNotices, SayNothing, SendFile, Send, Goto, Finish,
     HandlerTypeOK, Admitted
<1>12. CASE ProgressSteps
  BY <1>1, <1>12 DEF ProgressSteps, StartNotice, NoticeSent, Tick, Notice,
     ProgressEnds, HandlerTypeOK, Admitted
<1>13. CASE CommandEnds \/ ChildEnds
  BY <1>1, <1>13 DEF CommandEnds, ChildEnds, HandlerTypeOK, Admitted
<1>14. ASSUME Expire PROVE OneShotTypeOK'
  BY <1>14 DEF Expire, OneShotTypeOK, loopVars, outputVars
<1>15. CASE MessageDeadline \/ CallDeadline
  BY <1>1, <1>14, <1>15 DEF MessageDeadline, CallDeadline, HandlerTypeOK, Admitted
<1>16. CASE HermesRuns
  BY <1>2, <1>16 DEF HermesRuns, HandlerTypeOK, Admitted
<1>17. CASE Finished \/ UNCHANGED vars
  BY <1>1, <1>17 DEF Finished, vars, HandlerTypeOK, Admitted
<1> QED
  BY <1>3, <1>4, <1>5, <1>6, <1>7, <1>8, <1>9, <1>10, <1>11, <1>12, <1>13,
     <1>15, <1>16, <1>17 DEF Next, HandlerSteps, AskSteps

(* Every variable of the handler, of its notices and of the one-shot call  *)
(* keeps its type; and of the lines that a process prints at most as many  *)
(* are copied or wait in a pipe, however long it prints.                   *)
THEOREM TypeCorrect == Spec => []TypeOK
<1>1. Init => TypeInv
  <2>1. 0 \in 0 .. MaxLines
    BY MaxLinesAssumption
  <2>2. Init => OneShotTypeOK
    <3>1. Kept(<<>>, Nothing) = 0 /\ 0 <= 0
      BY KeptTypes, NothingType
    <3> QED
      BY <2>1, <3>1, NothingType DEF Init, OneShotInit, OneShotTypeOK, Kept
  <2>3. Init => HandlerTypeOK /\ Admitted
    BY InputAssumption DEF Init, Config, HandlerTypeOK, Admitted, Answers
  <2> QED
    BY <2>2, <2>3, TypeParts DEF TypeInv
<1>2. TypeInv => TypeOK
  BY DEF TypeInv
<1> QED
  BY <1>1, <1>2, TypeNext, CallAlways, PTL DEF Spec
=============================================================================
