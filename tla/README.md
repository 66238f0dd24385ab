# A TLA+ model of BillBot

BillBot connects a QQ account, through NapCat's OneBot WebSocket and HTTP
interfaces, to the Hermes agent. This directory models the parts of it that
are concurrent or stateful, model-checks them with TLC and proves their safety
properties with TLAPS.

## The system

| Component | Source | State | Operations | Modelled in |
|---|---|---|---|---|
| Bridge: life cycle | `internal/bridge/service.go` | `running`, `conn`, `messageQueue`, `workerCancel`, `sessionLocks` | `Start`, `Stop`, `enqueueMessage`, `messageWorker` | `Bridge`, `Startup` |
| Bridge: answering | `internal/bridge/service.go` | the locals of a handler, its context, the progress goroutine | `handleMessage`, `handleAdminCommand`, `runWithSession`, `runRoutedHermes`, `startProgress`, delivery | `Answer`, with `OneShot` |
| Bridge: sessions, settings | `internal/bridge/service.go` | `cfg`, `sessions` | `UpdateConfig`, `saveRuntimeConfig...` | `Sessions`, `Settings` |
| NapCat connector | `internal/connector/napcat/napcat.go` | `conn`, `cancel` under its own mutex | `Start` (dial), `Stop`, `readLoop`, `Send` | `Bridge` |
| NapCat discovery | `internal/connector/napcat/discovery.go` | none | `Detect` | `Startup` |
| Persistent Hermes | `internal/hermes/acp.go` | pool of clients; per client the process, `pending`, `askMu`, current prompt and text | `askPersistentACP`, `ClosePersistentACP`, `readStdout` | `Acp` |
| One-shot Hermes | `internal/hermes/runner.go` | a process, its pipes and buffer, a timer | `AskWithSession`, `runWithIdleOutput` | `OneShot`, driven by `Answer` |
| Session store | `internal/state/session.go` | a map per store object, `sessions.json` | `Load`, `Get`, `Put`, `Clear` | `Sessions` |
| NapCat process manager | `internal/process/manager.go` | `processes`, `exec.Cmd` objects | `StartNapCat`, `StopNapCat`, waiting goroutine | `NapCatProcess`, driven by `Startup` |
| Prompt | `cmd/billbot/main.go` | its own copy of the configuration | `start`, `stop`, `quit`, `set` | `Bridge`, `Startup`, `Sessions`, `Settings` |
| Configuration | `internal/config/types.go` | the file | `Load`, `Save`, `Normalize` | `Settings` |
| Commands, policy | `internal/commands`, `internal/security` | none | decisions over a message; exec commands | `Answer` |
| Diagnostics, packaging | `internal/diagnostics`, `container`, `deploy` | none | | no |

How they interact: the operator's prompt calls `Start` and `Stop`. `Start`
looks for a reachable NapCat, clears the Hermes profile if it is told to, has the
process manager launch NapCat, and makes a connector, a queue and a worker. The
connector's `readLoop` calls back `enqueueMessage`; the worker takes messages from
the queue, locks the chat's session, checks policy and commands, asks Hermes
through the pool or in a process of its own while a goroutine sends notices of
progress, records the session in the store, and sends the answer through the
connector it noted at the beginning. Admin commands in a chat and the operator's
`set` replace configuration and store under the feet of the others.

What is hard: a worker outlives the `Stop` that cancelled it and runs beside
the next one's; `Start` and `Stop` work in several sections with error paths
between them; the connector is closed from two sides; Hermes processes are
shared by asks whose contexts end at different times; text of an abandoned
prompt arrives late; a one-shot Hermes may be silent, hang after its answer, or
have its pipes closed under the goroutines that read them; three different
places ask Hermes, each with privileges of its own; clearing a profile may fail
half way; the store is loaded outside the lock that installs it; files are
truncated before they are written. `PROJECT.json` lists each such hazard with its
line and the properties aimed at it.

What makes each component correct: a message has its chat's session for
itself, is over at most once, and is answered with its sender's privileges and
nobody else's; nothing that was opened is forgotten; what is cancelled ends. A
request runs only in a process of its own security mode, its reply is its own,
and it returns, leaving no process behind. A Hermes session stays with its chat,
ends after `max_turns` and does not survive an acknowledged reset. The file and
the service hold the same configuration, and a command changes only what it
names. At most one NapCat process runs and it is known; a profile that is to be
fresh is, and a directory that is not BillBot's is left alone.

## The modules

**`ChatService`** is the abstract promise about messages: a message waits, is
active alone in its chat, and is over, answered at most once.

**`HermesService`** is the abstract promise about persistent Hermes: an ask is
given a process of its own key that has not ended and that no failed ask used,
waits for it, talks in it alone, and is done with an answer or fails. It knows no
pool, no lock, no pending call and no timer.

**`SessionLedger`** is the abstract promise about Hermes sessions: each turn of a
chat continues the very session its last turn left, is on disk or lost there
before the next, and a crash goes back to the disk, until an update of the
configuration overlaps other work.

**`Bridge`** is the life cycle and message path. Each `Start` that gets past its
readiness check is a *generation* `g`: connector, WebSocket, queue and worker
`g`. Every action is a step of the operator's command (`prompt` is its program
counter), of a `readLoop` (`reader`), of a worker (`worker`) or of the
environment. `StartNotReady`, `StartNapCatFails` and `StartConnFails` are the
three error paths of `Start` (the last resets only `running` and `conn`), the
`Stop...` actions its sections in order; `StopClose` goes back to the prompt
when closing fails. `EnqueueLookup` and `EnqueueSend` are the two halves of
`enqueueMessage`. `HandleHeld` is a handler in `CombinedOutput` whose child keeps the
output open, which no timeout and no `Stop` ends. `Bridge` implements `ChatService` under the mapping `Phase`.
How a message is answered is left to `Answer`. `fate` and `readBy` are history
variables.

**`Startup`** is what `Start` and `Stop` do outside the bridge: `StartBeginsDetect`,
`Probe` and `NotReady` are `Detect`; `SkipReset` to `Mark` are
`resetHermesProfileOnStart`, with `os.RemoveAll` removing entry by entry and possibly
stopping half way; `StartNapCat`, its steps and its return are the manager's call;
`StopConn`, `StopNapCat`, `StopNapCatKills` and `CloseACP` are `Stop`, which gives up
at the first error. Beside them run the manager's waiting goroutines, NapCat, a
persistent Hermes that writes to the profile, and the operator's `set`.
`Startup` extends `NapCatProcess`, whose specification it implements. `unmarked`,
what `Start` last found in a directory without BillBot's marker, and `leftover`
are history variables.

**`NapCatProcess`** is the process manager: one caller, one waiting goroutine per
launched process, and the readiness endpoint, which a NapCat that somebody else
started may serve as well.

**`OneShot`** is `runWithIdleOutput`: the caller's `select` over the end of the process,
new output, the idle timer and the context; two goroutines that copy, one in
`cmd.Wait`, which closes the pipes whether they are read or not, and the
context's own kill. Output is a sequence of lines of four kinds, each printed and
copied whole.

**`Answer`** is one message in its handler, from the admin commands to the delivery.
`Builtin`, `Normalise`, `RunShell` are `handleAdminCommand`; `Refuse`, `Admit` and
`Effective` the policy; `TurnAway`, `RunExec`, `EmptyPrompt` the command router.
`BeginAsk` starts a call to Hermes, persistent (which only answers or fails here;
see `Acp`) or one-shot, and `Conclude` is what each of its callers makes of the
outcome: the base model's marker or failure leads to a second call to the
strong model. `StartNotice` to `ProgressEnds` are the progress goroutine. A message
is given with what the policy reads from its text. The mode is one of the two the
code knows or another text, which is taken for neither (see `Settings`).

**`Acp`** is the pool and the JSON-RPC conversation. A client is named after the
ask that launched it. `pc` says which call an ask waits for; `pending` and
`open` are the calls as the client and as Hermes know them; `text` keeps of the
streamed text which prompt it belongs to. `Lookup`, `Unpool`, `Drop`,
`CloseTake` are the sections under the pool's lock. The idle timer is
`PromptIdles`, possible once text was seen. `Acp` implements `HermesService`:
`Phase` puts the program counters together, `home` is `client`, and a process is
`gone` when it was launched and is not running any more. Left out: the contents of
messages, attachments, and the stdin pipe, which is taken to accept every write
at once.

**`Sessions`** has store *objects*: `sessions` names the one in service, a
handler keeps using the one of its snapshot. `AdminLoad`/`AdminSwap` and
`SetLoad`/`SetSwap` are the two halves of `UpdateConfig`; `Truncate` and `Write`
those of `os.WriteFile`; a store overtaken between the two may leave a mixture. I/O
errors are left out, crashes are not. `since`, `bornIn`, `owner`, `uses` and
`overlapped` are history variables: the last says that an update of the
configuration has overlapped other work, which is the only way to lose a reset,
a count or an agreement with the file. Up to then `Sessions` implements
`SessionLedger`, whose `ledger` is the store in service and whose `disk` is the
file.

**`Settings`** has the copies of the configuration: `file`, `svc` (`s.cfg`), `prompt`
(`cliState.cfg`), and per handler `snap` and `next`. `Admin` and `Set` make a new
one from the handler's or the prompt's copy; `Truncate`, `Write`, `Install` save and
install it, the same steps for both. Kept are the fields that are changed in
several places: identity (for style too), mode, its restriction to owners,
owners, and the detected NapCat. `set security.mode` stores what was typed: `full`,
`sandbox`, any other text (`"other"`, one value, since the code only compares it
with the two), or nothing, which `Normalize` repairs. A file half written is taken for an empty one,
which TOML decodes to the defaults; that a text may also fail to parse, which
ends the program at its next start, and errors after the truncation are left out.
`opened` and `overlapped` are history variables.

`MCBridge`, `MCAcp`, `MCSessions`, `MCSettings`, `MCStartup` and `MCAnswer` are the
instances for TLC. Definitions introduced as "a faulty variant of" an action are
plausible bugs; each property is shown to fail when one of them takes the
action's place.

## The runs

| Run | Configuration | Question |
|---|---|---|
| `bridge` | `MCBridge.cfg` | safety, mutexes held by who is inside, no message lost, refinement of `ChatService`, with one restart |
| `bridge_live` | `BridgeLive.cfg` | cancelled workers and detached readers end, messages settle, though a handler may be held for ever |
| `bridge_stop_on_exit` | `BridgeStopOnExit.cfg` | violation: the NapCat child survives an early `Stop` |
| `acp` | `MCAcp.cfg` | one conversation at a time, no leftover calls or locks, refinement of `HermesService`: isolation, no foreign text |
| `acp_live` | `AcpLive.cfg` | every ask returns, no process is orphaned |
| `acp_kept_warm` | `AcpKeptWarm.cfg` | violation: a process that served well is killed |
| `sessions` | `MCSessions.cfg` | chats apart; resets, turn limits, the file and refinement of `SessionLedger`, unless updates overlap |
| `sessions_reset` | `SessionsReset.cfg` | violation: `set` undoes an acknowledged reset |
| `settings` | `MCSettings.cfg` | copies of the configuration agree, only the operator lets others than owners out of the sandbox |
| `settings_kept` | `SettingsKept.cfg` | violation: `set` takes back an admin's `/identity` |
| `startup` | `MCStartup.cfg` | best NapCat, fresh profile, one tracked process, calls return |
| `answer` | `MCAnswer.cfg` | one answer, own privileges, no process left, notices end |

### Bounds, and why they are enough

- `Bridge`: two generations are a restart, with old and new worker and reader
  side by side; two messages of one chat contend for the one session; a queue
  of one fills up. With one chat and two messages every pair of handlers that
  could conflict does. One of the messages may be held (`Holding`), so that the
  other is behind it in the queue, waits for its session, or is in a worker of
  its own.
- `Acp`: two asks share a client, replace each other's, or live under two
  keys; which of them bring a session id is varied.
- `Sessions` (3.2 million states): two workers, as a restart can leave them, and
  two chats; two turns per session; three stores, so that one is replaced while
  another is captured. Each property is about one Hermes session, so one id is
  enough; of a reset, a `set` and a crash any two happen (`TwoDisturbances`). The
  view drops what nobody reads again, the handlers are symmetric. The violation
  run has two ids.
- `Settings`: two handlers and the prompt, so that any two overlap and a third
  comes after; two admin commands, one `set` and one crash; one user who may be
  named as an owner and one who never is. The handlers are symmetric. `FirstModes`
  are the modes at first; the third comes in by `set`.
- `Startup` (415,000 states): two launches leave a waiter behind the current one;
  the configured address is one of its own, none, or one of the defaults, which
  are the three shapes of the candidate list; the profile directory is foreign,
  empty, or BillBot's with contents.
- `Answer` (326,000 states): 20 messages, each kind from an owner and from a user
  where that matters; four configurations for both modes and all ways to ask;
  two lines per process, so that an answer comes with a status line or in two
  parts, on either pipe.

### Fairness

Weak fairness of goroutines that can take a step and of commands and calls that
have begun: a handler's model call and `Send` have timeouts, and each context
has a deadline or is cancelled by the function that made it. Nothing is assumed
of a handler that a child of its command holds (`worker[g] = "held"`), nothing
of the operator, of NapCat, of arriving messages or of Hermes, which may never
answer. Mutexes need no strong fairness because only finitely many messages or
asks overtake. Where a `select` has several ready cases, Go takes one at random:
a case that stays ready is taken at last. The progress goroutine's end is ready
again and again, interrupted by its own sends, and has strong fairness
(`ProgressEnds`): a random choice made infinitely often takes each case. No
process has to end by itself; a killed one does.

Where the code makes no promise, the property says so with an antecedent about
what goes on for ever, and is the whole promise in every other behaviour.
`Returns` excepts behaviours in which a Hermes is there again and again while `Start`
clears the profile. `CancelledWorkerExits` excepts those in which the worker
is, from some time on, held or waiting for the session of one that is held
(`HeldUp`), `LiveMessageSettles` those in which that is so of the worker that has the
message or has it in its queue (`Stuck`): a held handler keeps no `readLoop` and no
other worker. `MessageSettles` excepts a child that holds the command's output.

`CHECK_DEADLOCK FALSE` stands where the bounds end every behaviour
(`Sessions`), and in `acp_kept_warm`, where no deadline is in play and an ask may
wait for ever.

## What the violation runs show

1. **A warm process is not kept** (`acp.go:147`). The process lives in the
   context of the ask that launched it, which `handleMessage` cancels on
   return, although the README advertises a backend that stays warm.
2. **An acknowledged reset can be undone** (`service.go:79`). `UpdateConfig` loads
   the file before it takes the lock; a `set` that loaded before the reset
   installs the old sessions after it.
3. **`stop_on_exit` can fail** (`service.go:172`). When the `readLoop` closes the
   WebSocket first, `Stop` returns that error before it stops NapCat.
4. **`set` takes back what an admin changed** (`main.go:308`). The prompt keeps a copy
   of the configuration that no admin command updates, and `set` saves and
   installs all of it: after `/identity`, any `set` restores the old identity.

Behaviour that the models have and their properties had to allow for:

- `cmd.Wait` runs beside the goroutines that read the pipes and closes them
  (`runner.go:299`): what a Hermes printed last may be lost and, when that was its
  whole answer, the message is not answered. `AnsweredOnce` excepts this case.
- `CombinedOutput` waits for the output to close: a child of an exec command or of
  `/shell` holds the handler, and with it the chat's session and the worker's
  queue, beyond any timeout.
- Any text is stored as `security.mode` (`main.go:581`); the downgrade knows only `full`
  (`service.go:303`), the sandbox only `sandbox` (`runner.go:231`). With any other text
  everybody runs outside of the sandbox, although `src/README.md:216` keeps that to
  owners when `allow_full_for_owners_only` is true. `NonOwnersStaySandboxed`, which speaks
  of everything that is not `sandbox`, therefore counts such a mode as a choice of
  the operator's that opens the bridge (`Open`), and says that nothing else does;
  `PrivilegesKept` excepts who asks under such a mode.
- A clearing of the profile that fails may have removed the marker; every later
  `Start` then refuses the directory as not BillBot's, which `UnmarkedKept` checks.
- A `Stop` that gave up leaves its persistent Hermes alive, and the next `Start`
  clears the profile under it.
- `Start` requires a reachable NapCat before it would launch one, and what it
  found replaces the configured address until the next `set`.
- A progress notice whose `Send` is under way is delivered after the final reply.
- After a broken connection `running` stays true and `start` does nothing
  (`napcat.go:185`, `service.go:86`); no document says otherwise.

## What is proved

Every safety property that a passing run checks, each refinement included, is
also a theorem for all values of the constants. What follows from such a property,
or is a part of it, is a theorem of its own and not checked again by a run:
`SessionExclusive` (of `ChatService`, and of `SessionGuarded`), `OneConversation` (of
`ConversationGuarded`), `ModeIsolation`, `ForeignTextOnlyAfterIdle` and, as far as
callers can tell, `FailedClientNotPooled` (of `HermesService`), and `AtMostOne` (of
`RunningIsTracked`, with `TakenAlone`). Constants are only assumed to be what the
`ASSUME`s of the modules say.

`BridgeProofs`, for all sets of messages and chats, all queue capacities and any
number of restarts:

- `TypeCorrect`: `TypeOK` alone is not inductive, because for instance the message
  that a reader appends is only typed where it holds one. `Typed` adds what
  each goroutine holds at each program counter.
- `SessionsAreExclusive`: `SessionExclusive` follows from `LockHeld`, that a worker
  inside a session holds that session's mutex. That is inductive, since the
  mutexes do not belong to a generation.
- `SessionsAreGuarded`: `SessionGuarded` is `LockHeld` and its converse `MutexIsInUse`,
  that a locked mutex belongs to a worker in that very session. That is inductive
  too, given `Unmade`; every way out of the handler is a step of its proof.
- `RunningIsServed`: `InService` adds that cancel functions in circulation belong
  to generations already made, so that a new generation is not cancelled at
  birth, and that `Stop` only cancels when the bridge is marked as stopped.
- `NoConnectionIsForgotten` and `LeaksOnlyAfterFailedDial`: `Connected` says of each
  generation that it has nothing before its dial, that one whose `readLoop` has
  run is in service, stopped or being stopped, and that a WebSocket which is
  not closed has somebody who will close it.
- `OnlyStopTurnsAway`: `Placed` puts each message into one place only, and `Turned`
  adds that one that was read was read by a `readLoop`, so `Connected` applies.
- `NothingIsLost`: `Followed` adds `AllManned`, that a queue which is in service, or
  which a reader noted and has yet to send to, has a worker, and that a worker
  only ends when it was cancelled. A message then passes from reader to queue to
  worker without a gap.
- `KeepsItsPromise`: every step of `Bridge` maps to a step of `ChatService` or to a
  stutter. `LockHeld` gives that a message becomes active alone in its chat,
  `Placed` that only one worker has it, `Unmade` that a generation not yet made
  has no worker.

`AcpProofs`, for all sets of asks and keys:

- `TypeCorrect`, strengthened with: an ask that has been to the pool has a client.
- `ModesAreIsolated`: strengthened with the same statement about the clients in
  the pool (`Pooled`), since that is where later asks get theirs.
- `ConversationsTakeTurns`: `OneConversation` is inductive given the types. Its
  proof has a step for every way to take or give back `askMu`.
- `NothingPendingIsForgotten`: `Awaited` adds that an answer is only kept for who
  still waits, and that who launches a client uses its own.
- `FailedClientsStayOut`: `Dropped` says the same from the moment of the kill on.
- `TextIsForeignOnlyAfterIdle`: `Heard` follows the text back: a prompt that Hermes
  still works on is awaited, or was left for silence, or its client is dead.
- `ConversationsAreGuarded`: `ConversationGuarded` is `OneConversation` and its converse
  `LockIsInUse`, that `askMu` and the current prompt of a client belong to an ask that
  is talking in it, which is inductive beside it.
- `KeepsItsPromise`: every step of `Acp` maps to a step of `HermesService` or to a
  stutter. `Served` collects what the mapping rests on: the invariants above,
  `Launched`, that an ask beyond its launch has a process that was launched, and
  `SeenHasText`, that an ask which may take silence for the end has text.

`SessionsProofs`, for all sets of handlers and chats and any number of stores,
resets, `set` commands and crashes:

- `TypeCorrect`: strengthened with `Resumable`, that a session about to be resumed,
  from a store or from the file, has turns left.
- `ChatsStayApart`: `ChatsApart` speaks of stores and the file, but a session also
  travels in a handler; `Captured` says the same there. An id in circulation has
  been given out, so that one Hermes creates is nobody's yet.
- `ResetsLast`, `TurnsAreCounted`, `FileFollowsStore`, together in `Alone`. `Mutexes`
  holds always: one handler saves a store, one serves a chat. `OneStore`: without
  an overlap who is at work uses the store in service, and that is what the file
  holds unless it is being saved. `Cleared` counts the resets that are made and
  not yet announced (with a cardinality, `Counted`): what is left from before them
  is at most in the file. `Used` says how far a stored count can be behind: by
  the turn being recorded, and by one for each crash.
- `KeepsItsPromise`: every step of `Sessions` maps to a step of `SessionLedger` or to a
  stutter. `Sequence` says that the session a handler runs with is still the one
  its chat has, and that the one it is about to record is that one after a turn
  more: this is what the chat's mutex is for. `LeftTorn` says that a save which is
  half done finds the file torn.

`SettingsProofs`, for all sets of handlers, users and texts:

- `TypeCorrect`, and `OnlyTheOperatorOpens`: `NonOwnersStaySandboxed` is about
  handlers that run, but what they run with may come from any copy, by way of
  the file even through a crash. `Closed` says of all copies that only `Set` can
  make them `Open`, be it by the mode, by its restriction to owners or by a mode of
  another name, and `RunsDowngraded` that a handler has applied the downgrade.
- `FileAndServiceAgree`: `SavedAlone` says what holds while somebody saves: without
  an overlap it is one only, and once it has written, the file is what it
  installs.

`NapCatProofs` and `StartupProofs`, for any number of launches, any configured
addresses and any first contents of the profile:

- `TypeCorrect` and `RunningAreTracked`: `RunningIsTracked` is inductive given the
  types. `AtMostOneRuns` (`AtMostOne`) needs `TakenAlone` besides, that nothing enters the table
  while `StopNapCat` holds the process it took out.
- `ImplementsManager`: each step of `Startup` is one of `NapCatProcess` or leaves it
  alone, so that the above holds under `Start` and `Stop`: `RunningStaysTracked`, `OneNapCatRuns`.
- `DetectsTheBest`: `DetectionInv` says that `best` is the first of the best so far,
  and that none before the last answered on both.
- `ProfileIsFresh` and `UnmarkedIsKept`: `ProfileInv` says that what is being cleared
  or marked was BillBot's or empty when `Start` read it, and is empty when it is
  marked unless a Hermes was there.
- `StartupTypeCorrect`: `TypesInv` bounds the results by the candidates, so that the
  best of them is one.

`AnswerProofs` and `OneShotProofs`, for any messages and configurations and any
number of lines:

- `TypeCorrect`: the result of a call is typed when `Visible`, what `cleanOutput` leaves
  of a buffer, is a sequence of visible lines, and empty only if there was none
  (`VisibleProperties`). `Visible` is a
  recursive function, so that this is an induction over the buffer. It is made
  without the library's induction theorem: `LeastElement` takes the least
  element of a set of numbers from the well-founded inclusion of finite sets, and
  `SetInduction` is induction over the set of the numbers for which a fact holds.
  `Counted` bounds what is in the pipes and the buffer by what was printed.
- `NoHermesIsLeft`: `CallInv` relates the call, the process and `cmd.Wait`'s result.
- `PrivilegesAreKept`: `PrivilegeInv` says with which mode and for whom each of the
  three ways to Hermes is taken.
- `IsAnsweredOnce` and `RecordFollowsAnswer`: `ReplyInv` says that a call that was
  killed for its silence has an answer, so that a good but empty result
  means a process that ended by itself; and that from the reply on what was
  recorded is settled.

Each step lemma has one step per action, or per group of actions that leave the
invariant's variables alone.

Model-checked only: the liveness properties (`CancelledWorkerExits`,
`DetachedReaderExits`, `LiveMessageSettles`, `EveryAskReturns`, `NoOrphanProcess`,
`Returns`, `DeadIsUntracked`, `MessageSettles`, `NoticesEnd`), which are beyond
the prover under fairness.

## Not modelled

Whole components: diagnostics, which only reads (its chat probe is one of the
asks of `Acp`), and packaging. Within the others: event parsing, message
segments and formatting; the wording of prompts and replies, and how a text is
recognised as a command, as sensitive or as a claim of identity; the arguments,
environment and sandbox wrapper of a Hermes command; `Normalize` but for the mode,
and the preservation of unknown YAML fields; `lastError`, `Status`, `diag`, `logs` and
the prompt's history. Time is left out everywhere: a timer may fire whenever it is
looked at. Not reached either: writes that block on a full pipe (`acp.go:319`),
data races on single fields (`service.go:176`), I/O errors of the session file, and
what Hermes makes of a session id it no longer knows (`service.go:763`).

## Plan

1. Done: all modules above, three of them abstract promises that others refine, and
   a theorem for each safety property.
2. Bounded stdin and stdout pipes for `Acp`, with `writeMu` held during a write: the
   deadlock of `acp.go:319`.
3. `Normalize` and the policy's reading of a text as pure operators, checked
   against a reference definition over small inputs.
4. A composition of `Sessions` with `Startup`: session ids that outlive a cleared
   profile; of `Answer` with `Sessions`: the routed answer's record in the store.
