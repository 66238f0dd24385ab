------------------------------ MODULE OneShot -------------------------------
(***************************************************************************)
(* The one-shot Hermes (internal/hermes/runner.go, runWithIdleOutput): a   *)
(* process is started for one prompt, two goroutines copy its output, one  *)
(* waits for its end, and the caller's loop selects between that end, new  *)
(* output, an idle timer and the context.                                  *)
(*                                                                         *)
(* The process is killed when it has been quiet for the idle time after    *)
(* something visible, because Hermes may hang after its answer.  cmd.Wait  *)
(* runs beside the copying goroutines and closes the pipes under them.     *)
(*                                                                         *)
(* A line of output is one of Lines: text, the routing marker, the line    *)
(* that gives the session id, or another status line.  It is taken to be   *)
(* printed and copied whole; a line that a goroutine has read but not yet  *)
(* appended counts as unread, for it is lost in the same way.  Time is     *)
(* left out: the timer may have fired whenever the loop looks at it.       *)
(***************************************************************************)
EXTENDS Naturals, Sequences

CONSTANT MaxLines   \* bound: lines a process prints

ASSUME MaxLinesAssumption == MaxLines \in Nat

VARIABLES
    call,        \* where runWithIdleOutput is
    proc,        \* the process, and how it ended
    printed,     \* lines it printed
    pipe,        \* what is unread in each pipe
    out,         \* the buffer
    touch,       \* a token in the channel of that name
    seenOutput,
    done,        \* cmd.Wait's result: none yet, in the channel, or taken
    ctx,         \* the context of the call
    result       \* what the call returned

outputVars == <<printed, pipe, out, touch>>
loopVars == <<call, seenOutput, result>>
oneShotVars == <<loopVars, proc, outputVars, done, ctx>>

Streams == {"stdout", "stderr"}
Lines == {"text", "marker", "session", "status"}

(* cleanOutput: the lines that are for the user, and whether one of the    *)
(* others gave a session id.                                               *)
VisibleLines == {"text", "marker"}
VisibleUpTo(o) ==
    LET shown[i \in 0 .. Len(o)] ==
            IF i = 0 THEN <<>>
            ELSE IF o[i] \in VisibleLines THEN Append(shown[i - 1], o[i])
            ELSE shown[i - 1]
    IN shown
Visible(o) == VisibleUpTo(o)[Len(o)]
HasSession(o) == \E i \in DOMAIN o : o[i] = "session"
Cleaned(o, ok) == [text |-> Visible(o), session |-> HasSession(o), ok |-> ok]

NoResult == [text |-> <<>>, session |-> FALSE, ok |-> FALSE]
Nothing == [s \in Streams |-> <<>>]

OneShotInit ==
    /\ call = "idle" /\ seenOutput = FALSE /\ result = NoResult
    /\ proc = "none" /\ done = "none" /\ ctx = "live"
    /\ printed = 0 /\ pipe = Nothing /\ out = <<>> /\ touch = FALSE

(* The locals of a new call, under a given context. *)
NewCall(context) ==
    /\ call' = "idle" /\ seenOutput' = FALSE /\ result' = NoResult
    /\ proc' = "none" /\ done' = "none" /\ ctx' = context
    /\ printed' = 0 /\ pipe' = Nothing /\ out' = <<>> /\ touch' = FALSE

-----------------------------------------------------------------------------
(* The call begins and, sooner or later, returns. *)

(* The pipes are made and the process is started. *)
Launch ==
    /\ call = "idle" /\ ctx = "live"
    /\ call' = "loop" /\ proc' = "running"
    /\ UNCHANGED <<outputVars, seenOutput, done, ctx, result>>

(* The call returns: its locals are garbage, and so is what a goroutine    *)
(* that still copies will do with them.                                    *)
Return(r) ==
    /\ call' = "returned" /\ result' = r
    /\ seenOutput' = FALSE
    /\ printed' = 0 /\ pipe' = Nothing /\ out' = <<>> /\ touch' = FALSE
    /\ UNCHANGED ctx

(* cmd.Start fails, as it does when the context is already done. *)
LaunchFails ==
    /\ call = "idle" /\ Return(NoResult)
    /\ UNCHANGED <<proc, done>>

(* killProcess *)
Kill == proc' = IF proc = "running" THEN "killed" ELSE proc

Waited == done \in {"ok", "error"}

(* case <-done *)
TakeDone ==
    /\ call = "loop" /\ Waited
    /\ done' = "taken"
    /\ Return(Cleaned(out, done = "ok"))
    /\ UNCHANGED proc

(* case <-touch *)
TakeTouch ==
    /\ call = "loop" /\ touch
    /\ touch' = FALSE /\ seenOutput' = TRUE
    /\ UNCHANGED <<call, proc, printed, pipe, out, done, ctx, result>>

(* A faulty variant of TakeIdle: status lines count as an answer. *)
TakeIdleBlank ==
    /\ call = "loop" /\ seenOutput
    /\ Kill /\ call' = "idleKill" /\ result' = Cleaned(out, TRUE)
    /\ UNCHANGED <<outputVars, seenOutput, done, ctx>>

(* A faulty variant of TakeIdle: nobody kills the process or waits for it. *)
TakeIdleUnwaited ==
    /\ call = "loop" /\ seenOutput /\ Visible(out) # <<>>
    /\ Return(Cleaned(out, TRUE))
    /\ UNCHANGED <<proc, done>>

(* case <-timer.C: quiet after visible output is taken for the end; else   *)
(* the timer is set again.                                                 *)
TakeIdle ==
    /\ call = "loop" /\ seenOutput /\ Visible(out) # <<>>
    /\ Kill /\ call' = "idleKill" /\ result' = Cleaned(out, TRUE)
    /\ UNCHANGED <<outputVars, seenOutput, done, ctx>>

(* case <-ctx.Done() *)
TakeContext ==
    /\ call = "loop" /\ ctx = "done"
    /\ Kill /\ call' = "contextKill"
    /\ UNCHANGED <<outputVars, seenOutput, done, ctx, result>>

(* After either kill the call waits for cmd.Wait.  After an idle time the  *)
(* answer was fixed before the kill; after the context's end it is read    *)
(* now, and what is visible counts as an answer.                           *)
AfterKill ==
    /\ call \in {"idleKill", "contextKill"} /\ Waited
    /\ done' = "taken"
    /\ Return(IF call = "idleKill" THEN result
              ELSE IF Visible(out) # <<>> THEN Cleaned(out, TRUE)
              ELSE NoResult)
    /\ UNCHANGED proc

-----------------------------------------------------------------------------
(* The goroutines beside it. *)

(* A faulty variant of Copy: the buffer read last is appended again. *)
CopyTwice(s) ==
    /\ pipe[s] # <<>>
    /\ out' = out \o pipe[s] \o pipe[s]
    /\ pipe' = [pipe EXCEPT ![s] = <<>>]
    /\ touch' = TRUE
    /\ UNCHANGED <<loopVars, proc, printed, done, ctx>>

(* copyOutput: read, append and touch. *)
Copy(s) ==
    /\ pipe[s] # <<>>
    /\ out' = out \o pipe[s]
    /\ pipe' = [pipe EXCEPT ![s] = <<>>]
    /\ touch' = TRUE
    /\ UNCHANGED <<loopVars, proc, printed, done, ctx>>

(* cmd.Wait returns and has closed both pipes, read or not. *)
Wait ==
    /\ proc \in {"exited", "failed", "killed"} /\ done = "none"
    /\ done' = IF proc = "exited" THEN "ok" ELSE "error"
    /\ pipe' = Nothing
    /\ UNCHANGED <<loopVars, proc, printed, out, touch, ctx>>

(* exec.CommandContext kills the process when the context is done. *)
WatchContext ==
    /\ ctx = "done" /\ proc = "running"
    /\ proc' = "killed"
    /\ UNCHANGED <<loopVars, outputVars, done, ctx>>

-----------------------------------------------------------------------------
(* The process and time. *)

Emit(s, l) ==
    /\ proc = "running" /\ printed < MaxLines
    /\ printed' = printed + 1
    /\ pipe' = [pipe EXCEPT ![s] = Append(@, l)]
    /\ UNCHANGED <<loopVars, proc, out, touch, done, ctx>>

Exit ==
    /\ proc = "running" /\ proc' \in {"exited", "failed"}
    /\ UNCHANGED <<loopVars, outputVars, done, ctx>>

(* A faulty variant of Expire: a context without a deadline. *)
NeverExpires == UNCHANGED oneShotVars

(* The context's time is up. *)
Expire ==
    /\ ctx' = "done"
    /\ UNCHANGED <<loopVars, proc, outputVars, done>>

-----------------------------------------------------------------------------
(* Everything but the beginning of the call and the end of its time. *)
OneShotNext ==
    \/ TakeDone \/ TakeTouch \/ TakeIdle \/ TakeContext \/ AfterKill
    \/ Wait \/ WatchContext \/ Exit
    \/ \E s \in Streams : Copy(s) \/ \E l \in Lines : Emit(s, l)

(* A select takes one of its ready cases at random: one that stays ready   *)
(* is taken at last.  Nothing makes the process print or end.              *)
OneShotFairness ==
    /\ WF_oneShotVars(TakeDone) /\ WF_oneShotVars(TakeContext)
    /\ WF_oneShotVars(AfterKill)
    /\ WF_oneShotVars(Wait) /\ WF_oneShotVars(WatchContext)

(* Of what was printed, nothing is copied twice. *)
OneShotTypeOK ==
    /\ call \in {"idle", "loop", "idleKill", "contextKill", "returned"}
    /\ proc \in {"none", "running", "exited", "failed", "killed"}
    /\ done \in {"none", "ok", "error", "taken"}
    /\ ctx \in {"live", "done"}
    /\ touch \in BOOLEAN /\ seenOutput \in BOOLEAN
    /\ out \in Seq(Lines) /\ pipe \in [Streams -> Seq(Lines)]
    /\ result \in [text : Seq(Lines), session : BOOLEAN, ok : BOOLEAN]
    /\ printed \in 0 .. MaxLines
    /\ Len(out) + Len(pipe["stdout"]) + Len(pipe["stderr"]) <= printed

(* The process of a call is dead and waited for. *)
Reaped == proc = "none" \/ (proc # "running" /\ done = "taken")
=============================================================================
