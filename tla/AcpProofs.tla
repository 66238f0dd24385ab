------------------------------ MODULE AcpProofs ------------------------------
(***************************************************************************)
(* Theorems about Acp for any number of asks and pool keys, and any        *)
(* interleaving of them with crashes, deadlines and ClosePersistentACP.    *)
(*                                                                         *)
(* TypeOK becomes inductive with HasClient; ModeIsolation with the same    *)
(* statement about the clients in the pool; OneConversation already is,    *)
(* given the types, and LockIsInUse given both.  Others build on these:    *)
(* Awaited, Dropped, Heard, Launched and SeenHasText say what holds of     *)
(* calls, asks, text and processes between the steps.  With all of them    *)
(* each step of the backend is a step of HermesService.                    *)
(***************************************************************************)
EXTENDS Acp, TLAPS

(* An ask that has been to the pool has a client. *)
HasClient == \A n \in Asks : pc[n] # "idle" => client[n] \in Asks

Typed == TypeOK /\ HasClient

LEMMA TypedInit == Init => Typed
  BY NoneAssumption DEF Init, Typed, TypeOK, HasClient, PC, Waiting

(* Every action keeps the types, and no ask gets past the pool without a   *)
(* client.                                                                 *)
LEMMA TypedNext == Typed /\ [Next]_vars => Typed'
<1> SUFFICES ASSUME Typed, [Next]_vars PROVE Typed'
  OBVIOUS
<1> USE NoneAssumption DEF Typed, TypeOK, HasClient, PC, Waiting,
                          clientVars, askVars
<1>1. ASSUME NEW n \in Asks, Lookup(n) PROVE Typed'
  <2>1. CASE pool[key[n]] \in isRunning
    <3>1. pool' = pool /\ client' = [client EXCEPT ![n] = pool[key[n]]]
      BY <1>1, <2>1 DEF Lookup
    <3>2. pc' = [pc EXCEPT ![n] = "lock"] /\ pool[key[n]] \in Asks
      BY <1>1, <2>1 DEF Lookup
    <3>3. UNCHANGED <<clientVars, key, resume, answer, seenText, idled, reply,
                      ctxDone, closing>>
      BY <1>1 DEF Lookup
    <3>4. QED
      BY <3>1, <3>2, <3>3
  <2>2. CASE pool[key[n]] \notin isRunning
    <3>1. /\ pool' = [pool EXCEPT ![key[n]] = n]
          /\ client' = [client EXCEPT ![n] = n]
          /\ pc' = [pc EXCEPT ![n] = "spawn"]
      BY <1>1, <2>2 DEF Lookup
    <3>2. UNCHANGED <<clientVars, key, resume, answer, seenText, idled, reply,
                      ctxDone, closing>>
      BY <1>1 DEF Lookup
    <3>3. QED
      BY <3>1, <3>2
  <2>3. QED
    BY <2>1, <2>2
<1>2. ASSUME NEW n \in Asks, Spawn(n) PROVE Typed'
  BY <1>2 DEF Spawn
<1>3. ASSUME NEW n \in Asks, SpawnUnwritten(n) PROVE Typed'
  BY <1>3 DEF SpawnUnwritten
<1>4. ASSUME NEW n \in Asks, SpawnFails(n) PROVE Typed'
  BY <1>4 DEF SpawnFails
<1>5. ASSUME NEW n \in Asks, Initialized(n) PROVE Typed'
  BY <1>5 DEF Initialized
<1>6. ASSUME NEW n \in Asks, InitializeFails(n) PROVE Typed'
  BY <1>6 DEF InitializeFails
<1>7. ASSUME NEW n \in Asks, InitializeTimesOut(n) PROVE Typed'
  BY <1>7 DEF InitializeTimesOut, StopClients
<1>8. ASSUME NEW n \in Asks, Unpool(n) PROVE Typed'
  BY <1>8 DEF Unpool
<1>9. ASSUME NEW n \in Asks, LockAndCall(n) PROVE Typed'
  <2>1. CASE n \in resume
    <3>1. /\ askMu' = [askMu EXCEPT ![client[n]] = n]
          /\ current' = [current EXCEPT ![client[n]] = n]
          /\ text' = [text EXCEPT ![client[n]] = {}]
          /\ touched' = touched \ {client[n]}
          /\ pc' = [pc EXCEPT ![n] = "session/prompt"]
          /\ UNCHANGED <<pool, proc, isRunning, key, client, resume, answer,
                         seenText, idled, reply, ctxDone, closing>>
      BY <1>9, <2>1 DEF LockAndCall, BeginPrompt, Written
    <3>2. pending' \in [Asks -> SUBSET (Asks \X Waiting)]
      BY <1>9, <2>1 DEF LockAndCall, BeginPrompt, Written
    <3>3. open' \in [Asks -> SUBSET (Asks \X Waiting)]
      BY <1>9, <2>1 DEF LockAndCall, BeginPrompt, Written
    <3>4. client[n] \in Asks
      BY <1>9 DEF LockAndCall
    <3>5. \A c \in Asks : current'[c] = None => text'[c] = {} /\ c \notin touched'
      BY <3>1, <3>4
    <3>6. /\ text' \in [Asks -> SUBSET Asks] /\ touched' \in SUBSET Asks
          /\ current' \in [Asks -> Asks \cup {None}]
          /\ askMu' \in [Asks -> Asks \cup {None}]
      BY <3>1
    <3>7. QED
      BY <1>9, <3>1, <3>2, <3>3, <3>5, <3>6
  <2>2. CASE n \notin resume
    BY <1>9, <2>2 DEF LockAndCall, Written
  <2>3. QED
    BY <2>1, <2>2
<1>10. ASSUME NEW n \in Asks, LockAndFail(n) PROVE Typed'
  BY <1>10 DEF LockAndFail
<1>11. ASSUME NEW n \in Asks, SessionCreated(n) PROVE Typed'
  BY <1>11 DEF SessionCreated, BeginPrompt, Written
<1>12. ASSUME NEW n \in Asks, PromptAnswered(n) PROVE Typed'
  BY <1>12 DEF PromptAnswered, Leave
<1>13. ASSUME NEW n \in Asks, AskFails(n) PROVE Typed'
  BY <1>13 DEF AskFails, Leave
<1>14. ASSUME NEW n \in Asks, AskTimesOut(n) PROVE Typed'
  BY <1>14 DEF AskTimesOut, Leave, StopClients
<1>15. ASSUME NEW n \in Asks, Drop(n) PROVE Typed'
  BY <1>15 DEF Drop
<1>16. ASSUME NEW n \in Asks, Kill(n) PROVE Typed'
  BY <1>16 DEF Kill, StopClients
<1>17. ASSUME NEW n \in Asks, SeeText(n) PROVE Typed'
  BY <1>17 DEF SeeText
<1>18. ASSUME NEW n \in Asks, PromptIdles(n) PROVE Typed'
  BY <1>18 DEF PromptIdles, Leave
<1>19. ASSUME NEW n \in Asks, Deadline(n) PROVE Typed'
  BY <1>19 DEF Deadline
<1>20. ASSUME NEW n \in Asks, CancelContext(n) PROVE Typed'
  BY <1>20 DEF CancelContext
<1>21. ASSUME NEW c \in Asks, NEW call \in open[c], ReadResponse(c, call)
      PROVE  Typed'
  BY <1>21 DEF ReadResponse
<1>22. ASSUME NEW c \in Asks, NEW call \in open[c], ReadText(c, call)
      PROVE  Typed'
  BY <1>22 DEF ReadText
<1>23. ASSUME NEW c \in Asks, Crash(c) PROVE Typed'
  BY <1>23 DEF Crash
<1>24. ASSUME NEW c \in Asks, KillByContext(c) PROVE Typed'
  BY <1>24 DEF KillByContext
<1>25. ASSUME NEW c \in Asks, Reap(c) PROVE Typed'
  BY <1>25 DEF Reap
<1>26. ASSUME NEW c \in Asks, CloseStop(c) PROVE Typed'
  BY <1>26 DEF CloseStop, StopClients
<1>27. CASE CloseTake
  BY <1>27 DEF CloseTake
<1>28. CASE Finished
  BY <1>28 DEF Finished, vars
<1>29. CASE UNCHANGED vars
  BY <1>29 DEF vars
<1>30. QED
  BY <1>1, <1>2, <1>3, <1>4, <1>5, <1>6, <1>7, <1>8, <1>9, <1>10, <1>11, <1>12, <1>13, <1>14, <1>15, <1>16, <1>17, <1>18, <1>19, <1>20, <1>21, <1>22, <1>23, <1>24, <1>25, <1>26, <1>27, <1>28, <1>29
     DEF Next, AskSteps, ClientSteps

(* The types; and streamed text is only kept for a current prompt (ask,     *)
(* handleSessionUpdate).                                                   *)
THEOREM TypeCorrect == Spec => []TypeOK
<1>1. Typed => TypeOK
  BY DEF Typed
<1>2. QED
  BY <1>1, TypedInit, TypedNext, PTL DEF Spec

LEMMA TypedAlways == Spec => []Typed
  BY TypedInit, TypedNext, PTL DEF Spec

-----------------------------------------------------------------------------
(* Pool keys.  A client in the pool is there under the key of the ask that *)
(* launched it, whatever was dropped, replaced or closed meanwhile.        *)

Pooled == \A k \in Keys : pool[k] # None => key[pool[k]] = k

Isolated == Pooled /\ ModeIsolation

LEMMA IsolatedInit == Init => Isolated
  BY DEF Init, Isolated, Pooled, ModeIsolation

(* Only Lookup hands clients out, and only it fills the pool. *)
LEMMA IsolatedNext == Typed /\ Isolated /\ [Next]_vars => Isolated'
<1> SUFFICES ASSUME Typed, Isolated, [Next]_vars PROVE Isolated'
  OBVIOUS
<1> USE NoneAssumption
<1>1. ASSUME key' = key, client' = client,
             \A k \in Keys : pool'[k] \in {pool[k], None}
      PROVE  Isolated'
  BY <1>1 DEF Isolated, Pooled, ModeIsolation
<1>2. ASSUME NEW n \in Asks, Lookup(n) PROVE Isolated'
  <2>1. /\ key[n] \in Keys /\ key' = key
        /\ pool \in [Keys -> Asks \cup {None}] /\ isRunning \subseteq Asks
        /\ client \in [Asks -> Asks \cup {None}]
    BY <1>2 DEF Lookup, Typed, TypeOK
  <2>2. CASE pool[key[n]] \in isRunning
    <3>1. /\ pool' = pool /\ client' = [client EXCEPT ![n] = pool[key[n]]]
          /\ pool[key[n]] # None
      BY <1>2, <2>1, <2>2 DEF Lookup
    <3>2. QED
      BY <2>1, <3>1 DEF Isolated, Pooled, ModeIsolation
  <2>3. CASE pool[key[n]] \notin isRunning
    <3>1. pool' = [pool EXCEPT ![key[n]] = n] /\ client' = [client EXCEPT ![n] = n]
      BY <1>2, <2>3 DEF Lookup
    <3>2. QED
      BY <2>1, <3>1 DEF Isolated, Pooled, ModeIsolation
  <2>4. QED
    BY <2>2, <2>3
<1>3. ASSUME NEW n \in Asks, Unpool(n) \/ Drop(n) PROVE Isolated'
  BY <1>1, <1>3 DEF Unpool, Drop, Typed, TypeOK
<1>4. CASE CloseTake
  BY <1>1, <1>4 DEF CloseTake, askVars
<1>5. UNCHANGED <<pool, key, client>> => Isolated'
  BY <1>1
<1>6. ASSUME NEW n \in Asks,
             \/ AskSteps(n) /\ ~Unpool(n) /\ ~Drop(n)
             \/ SeeText(n) \/ PromptIdles(n) \/ Deadline(n) \/ CancelContext(n)
      PROVE  Isolated'
  BY <1>5, <1>6
     DEF AskSteps, Spawn, SpawnUnwritten, SpawnFails, Initialized,
         InitializeFails, InitializeTimesOut, LockAndCall, LockAndFail,
         SessionCreated, PromptAnswered, AskFails, AskTimesOut, Kill, SeeText,
         PromptIdles, Deadline, CancelContext, askVars
<1>7. ASSUME NEW c \in Asks,
             \/ \E call \in open[c] : ReadResponse(c, call) \/ ReadText(c, call)
             \/ Crash(c) \/ ClientSteps(c)
      PROVE  Isolated'
  BY <1>5, <1>7
     DEF ReadResponse, ReadText, Crash, ClientSteps, KillByContext, Reap,
         CloseStop, askVars
<1>8. CASE Finished \/ UNCHANGED vars
  BY <1>5, <1>8 DEF Finished, vars, askVars
<1>9. QED
  BY <1>2, <1>3, <1>4, <1>6, <1>7, <1>8 DEF Next

(* A request never runs in a process that was launched for another pool    *)
(* key, in particular for another security mode (acpClientFor).            *)
THEOREM ModesAreIsolated == Spec => []ModeIsolation
<1>1. Isolated => ModeIsolation
  BY DEF Isolated
<1>2. QED
  BY <1>1, TypedAlways, IsolatedInit, IsolatedNext, PTL DEF Spec

-----------------------------------------------------------------------------
(* Conversations.  askMu is held from the first call of an ask until it    *)
(* leaves, on every path.                                                  *)

Conversing == {"session/new", "session/prompt"}

LEMMA OneConversationInit == Init => OneConversation
  BY DEF Init, OneConversation

(* One step per action that takes or releases askMu, or changes the prompt *)
(* that is current.                                                        *)
LEMMA OneConversationNext == Typed /\ OneConversation /\ [Next]_vars => OneConversation'
<1> SUFFICES ASSUME Typed, OneConversation, [Next]_vars PROVE OneConversation'
  OBVIOUS
<1>1. /\ pc \in [Asks -> PC] /\ client \in [Asks -> Asks \cup {None}]
      /\ askMu \in [Asks -> Asks \cup {None}] /\ None \notin Asks
      /\ current \in [Asks -> Asks \cup {None}]
      /\ \A n \in Asks : pc[n] # "idle" => client[n] \in Asks
  BY NoneAssumption DEF Typed, TypeOK, HasClient
<1>2. ASSUME askMu' = askMu, current' = current,
             \A n \in Asks : pc'[n] \in Conversing =>
                                 pc'[n] = pc[n] /\ client'[n] = client[n]
      PROVE  OneConversation'
  BY <1>2 DEF OneConversation, Conversing
<1>3. ASSUME NEW n \in Asks, NEW where \in {"drop", "done"},
             pc[n] \in Conversing, Leave(n, where), client' = client
      PROVE  OneConversation'
  <2>1. /\ current' = [current EXCEPT ![client[n]] = None]
        /\ askMu' = [askMu EXCEPT ![client[n]] = None]
        /\ pc' = [pc EXCEPT ![n] = where]
    BY <1>3 DEF Leave
  <2>2. ASSUME NEW m \in Asks, m # n, pc[m] \in Conversing
        PROVE  client[m] # client[n]
    BY <1>3, <2>2 DEF OneConversation, Conversing
  <2>3. QED
    BY <1>1, <1>3, <2>1, <2>2 DEF OneConversation, Conversing
<1>4. ASSUME NEW n \in Asks, LockAndCall(n) PROVE OneConversation'
  <2>1. ASSUME NEW m \in Asks, pc[m] \in Conversing PROVE client[m] # client[n]
    BY <1>1, <1>4, <2>1 DEF LockAndCall, OneConversation, Conversing
  <2>2. /\ askMu' = [askMu EXCEPT ![client[n]] = n] /\ client' = client
        /\ client[n] \in Asks
    BY <1>1, <1>4 DEF LockAndCall
  <2>3. CASE n \in resume
    <3>1. /\ pc' = [pc EXCEPT ![n] = "session/prompt"]
          /\ current' = [current EXCEPT ![client[n]] = n]
      BY <1>4, <2>3 DEF LockAndCall, BeginPrompt, Written
    <3>2. QED
      BY <1>1, <2>1, <2>2, <3>1 DEF OneConversation, Conversing
  <2>4. CASE n \notin resume
    <3>1. pc' = [pc EXCEPT ![n] = "session/new"] /\ current' = current
      BY <1>4, <2>4 DEF LockAndCall, Written
    <3>2. QED
      BY <1>1, <2>1, <2>2, <3>1 DEF OneConversation, Conversing
  <2>5. QED
    BY <2>3, <2>4
<1>5. ASSUME NEW n \in Asks, SessionCreated(n) PROVE OneConversation'
  <2>1. /\ pc[n] = "session/new" /\ client' = client /\ askMu' = askMu
        /\ pc' = [pc EXCEPT ![n] = "session/prompt"]
        /\ current' = [current EXCEPT ![client[n]] = n]
        /\ client[n] \in Asks
    BY <1>1, <1>5 DEF SessionCreated, BeginPrompt, Written
  <2>2. ASSUME NEW m \in Asks, m # n, pc[m] \in Conversing
        PROVE  client[m] # client[n]
    BY <2>1, <2>2 DEF OneConversation, Conversing
  <2>3. QED
    BY <1>1, <2>1, <2>2 DEF OneConversation, Conversing
<1>6. ASSUME NEW n \in Asks,
             PromptAnswered(n) \/ AskFails(n) \/ AskTimesOut(n) \/ PromptIdles(n)
      PROVE  OneConversation'
  BY <1>3, <1>6
     DEF PromptAnswered, AskFails, AskTimesOut, PromptIdles, Conversing
<1>7. ASSUME NEW n \in Asks, Lookup(n) PROVE OneConversation'
  <2>1. /\ askMu' = askMu /\ current' = current
        /\ \A m \in Asks \ {n} : pc'[m] = pc[m] /\ client'[m] = client[m]
        /\ pc'[n] \in {"lock", "spawn"}
    BY <1>1, <1>7 DEF Lookup, clientVars
  <2>2. QED
    BY <1>2, <2>1 DEF Conversing
<1>8. ASSUME NEW n \in Asks,
             \/ Spawn(n) \/ SpawnUnwritten(n) \/ SpawnFails(n) \/ Initialized(n)
             \/ InitializeFails(n) \/ InitializeTimesOut(n) \/ Unpool(n)
             \/ LockAndFail(n) \/ Drop(n) \/ Kill(n)
      PROVE  OneConversation'
  <2>1. /\ askMu' = askMu /\ current' = current /\ client' = client
        /\ \E where \in PC \ Conversing : pc' = [pc EXCEPT ![n] = where]
    BY <1>8
       DEF Spawn, SpawnUnwritten, SpawnFails, Initialized, InitializeFails,
           InitializeTimesOut, Unpool, LockAndFail, Drop, Kill, clientVars, PC,
           Waiting, Conversing
  <2>2. QED
    BY <1>1, <1>2, <2>1
<1>9. ASSUME UNCHANGED <<askMu, current, pc, client>> PROVE OneConversation'
  BY <1>2, <1>9
<1>10. ASSUME NEW n \in Asks, SeeText(n) \/ Deadline(n) \/ CancelContext(n)
       PROVE  OneConversation'
  BY <1>9, <1>10 DEF SeeText, Deadline, CancelContext, clientVars, askVars
<1>11. ASSUME NEW c \in Asks,
              \/ \E call \in open[c] : ReadResponse(c, call) \/ ReadText(c, call)
              \/ Crash(c) \/ ClientSteps(c)
       PROVE  OneConversation'
  BY <1>9, <1>11
     DEF ReadResponse, ReadText, Crash, ClientSteps, KillByContext, Reap,
         CloseStop, clientVars, askVars
<1>12. CASE CloseTake \/ Finished \/ UNCHANGED vars
  BY <1>9, <1>12 DEF CloseTake, Finished, vars, clientVars, askVars
<1>13. QED
  BY <1>4, <1>5, <1>6, <1>7, <1>8, <1>10, <1>11, <1>12 DEF Next, AskSteps

(* Asks that share a Hermes process take turns in it, however they fail,   *)
(* time out or fall silent (askMu in ask).                                 *)
THEOREM ConversationsTakeTurns == Spec => []OneConversation
  BY TypedAlways, OneConversationInit, OneConversationNext, PTL DEF Spec

-----------------------------------------------------------------------------
(* Pending calls.  An answer is only there for an ask that waits for one,  *)
(* and an ask that launches a process is that process's first caller.      *)

AnswersAwaited == \A n \in Asks : answer[n] # "none" => pc[n] \in Waiting

OwnClient ==
    \A n \in Asks : pc[n] \in {"spawn", "initialize", "unpool"} => client[n] = n

Awaited == PendingIsAwaited /\ AnswersAwaited /\ OwnClient

LEMMA AwaitedInit == Init => Awaited
  BY DEF Init, Awaited, PendingIsAwaited, AnswersAwaited, OwnClient

(* One step per action that changes pending, the answers, the clients or   *)
(* where an ask is.                                                        *)
LEMMA AwaitedNext == Typed /\ Awaited /\ [Next]_vars => Awaited'
<1> SUFFICES ASSUME Typed, Awaited, [Next]_vars PROVE Awaited'
  OBVIOUS
<1> USE DEF Awaited, PendingIsAwaited, AnswersAwaited, OwnClient, Waiting
<1>1. /\ pc \in [Asks -> PC] /\ client \in [Asks -> Asks \cup {None}]
      /\ answer \in [Asks -> {"none", "result", "error"}]
      /\ pending \in [Asks -> SUBSET (Asks \X Waiting)]
      /\ pool \in [Keys -> Asks \cup {None}] /\ key \in [Asks -> Keys]
      /\ open \in [Asks -> SUBSET (Asks \X Waiting)]
      /\ \A n \in Asks : pc[n] # "idle" => client[n] \in Asks
  BY DEF Typed, TypeOK, HasClient
<1>2. ASSUME NEW n \in Asks, Lookup(n) PROVE Awaited'
  <2>1. /\ pc[n] = "idle" /\ pending' = pending /\ answer' = answer
        /\ \A m \in Asks \ {n} : pc'[m] = pc[m] /\ client'[m] = client[m]
        /\ pc'[n] \in {"lock", "spawn"}
        /\ pc'[n] = "spawn" => client'[n] = n
    BY <1>1, <1>2 DEF Lookup, clientVars
  <2>2. QED
    BY <1>1, <2>1
<1>3. ASSUME NEW n \in Asks, Spawn(n) PROVE Awaited'
  BY <1>1, <1>3 DEF Spawn
<1>4. ASSUME NEW n \in Asks, client' = client, answer' = answer,
             pending' = pending, pc[n] \notin Waiting,
             \E where \in PC \ (Waiting \cup {"spawn"}) :
                 /\ pc' = [pc EXCEPT ![n] = where]
                 /\ where = "unpool" => pc[n] = "spawn"
      PROVE  Awaited'
  BY <1>1, <1>4
<1>5. ASSUME NEW n \in Asks,
             \/ SpawnUnwritten(n) \/ SpawnFails(n) \/ Unpool(n)
             \/ LockAndFail(n) \/ Drop(n) \/ Kill(n)
      PROVE  Awaited'
  BY <1>4, <1>5
     DEF SpawnUnwritten, SpawnFails, Unpool, LockAndFail, Drop, Kill,
         clientVars, PC
<1>6. ASSUME NEW n \in Asks, NEW where \in PC \ {"spawn", "initialize"},
              where = "unpool" => client[n] = n,
              answer' = [answer EXCEPT ![n] = "none"],
              pc' = [pc EXCEPT ![n] = where],
              client' = client,
              \A c \in Asks : pending'[c] \subseteq pending[c],
              \A c \in Asks, m \in Waiting : <<n, m>> \notin pending'[c]
       PROVE  Awaited'
  <2>1. ASSUME NEW c \in Asks, NEW l \in Asks, NEW m \in Waiting,
               <<l, m>> \in pending'[c]
        PROVE  client'[l] = c /\ pc'[l] = m /\ answer'[l] = "none"
    <3>1. l # n /\ <<l, m>> \in pending[c]
      BY <1>6, <2>1
    <3>2. client[l] = c /\ pc[l] = m /\ answer[l] = "none"
      BY <3>1
    <3>3. QED
      BY <1>1, <1>6, <3>1, <3>2
  <2>2. AnswersAwaited' /\ OwnClient'
    BY <1>1, <1>6
  <2>3. QED
    BY <2>1, <2>2
<1>7. ASSUME NEW n \in Asks,
             Initialized(n) \/ InitializeFails(n) \/ InitializeTimesOut(n)
      PROVE  Awaited'
  <2>1. /\ pc[n] = "initialize" /\ client[n] = n /\ client' = client
        /\ answer' = [answer EXCEPT ![n] = "none"]
        /\ \E where \in {"lock", "unpool"} : pc' = [pc EXCEPT ![n] = where]
    BY <1>7 DEF Initialized, InitializeFails, InitializeTimesOut
  <2>2. \/ pending' = pending /\ answer[n] # "none"
        \/ pending' = [pending EXCEPT ![n] = @ \ {<<n, "initialize">>}]
    BY <1>7
       DEF Initialized, InitializeFails, InitializeTimesOut, clientVars
  <2>3. \A c \in Asks : pending'[c] \subseteq pending[c]
    BY <1>1, <2>2
  <2>4. ASSUME NEW c \in Asks, NEW m \in Waiting, <<n, m>> \in pending'[c]
        PROVE  FALSE
    <3>1. c = n /\ m = "initialize" /\ answer[n] = "none"
      BY <2>1, <2>3, <2>4
    <3>2. QED
      BY <1>1, <2>2, <2>4, <3>1
  <2>5. PICK where \in {"lock", "unpool"} : pc' = [pc EXCEPT ![n] = where]
    BY <2>1
  <2>6. QED
    BY <1>6, <2>1, <2>3, <2>4, <2>5 DEF PC
<1>8. ASSUME NEW n \in Asks, LockAndCall(n) PROVE Awaited'
  <2>1. /\ pc[n] = "lock" /\ client' = client /\ answer' = answer
        /\ \E method \in {"session/new", "session/prompt"} :
               /\ pc' = [pc EXCEPT ![n] = method]
               /\ pending' = [pending EXCEPT ![client[n]] =
                                  @ \cup {<<n, method>>}]
    BY <1>8 DEF LockAndCall, BeginPrompt, Written
  <2>2. QED
    BY <1>1, <2>1
<1>9. ASSUME NEW n \in Asks, SessionCreated(n) PROVE Awaited'
  <2>1. /\ pc[n] = "session/new" /\ answer[n] = "result" /\ client' = client
        /\ answer' = [answer EXCEPT ![n] = "none"]
        /\ pc' = [pc EXCEPT ![n] = "session/prompt"]
        /\ pending' = [pending EXCEPT ![client[n]] =
                           @ \cup {<<n, "session/prompt">>}]
    BY <1>9 DEF SessionCreated, BeginPrompt, Written
  <2>2. \A c \in Asks, m \in Waiting : <<n, m>> \notin pending[c]
    BY <2>1
  <2>3. QED
    BY <1>1, <2>1, <2>2
<1>10. ASSUME NEW n \in Asks, NEW where \in {"drop", "done"}, Leave(n, where),
             client' = client,
             \A c \in Asks : pending'[c] \subseteq pending[c],
             \A c \in Asks, m \in Waiting : <<n, m>> \notin pending'[c]
      PROVE  Awaited'
  BY <1>6, <1>10 DEF Leave, PC
<1>11. ASSUME NEW n \in Asks, AskTimesOut(n) \/ PromptIdles(n) PROVE Awaited'
  <2>1. /\ pending' = [pending EXCEPT ![client[n]] = @ \ {<<n, pc[n]>>}]
        /\ pc[n] \in Waiting /\ client' = client
        /\ Leave(n, "drop") \/ Leave(n, "done")
    BY <1>11 DEF AskTimesOut, PromptIdles
  <2>2. \A c \in Asks : pending'[c] \subseteq pending[c]
    BY <1>1, <2>1
  <2>3. \A c \in Asks, m \in Waiting : <<n, m>> \notin pending'[c]
    BY <1>1, <2>1
  <2>4. QED
    BY <1>10, <2>1, <2>2, <2>3
<1>12. ASSUME NEW n \in Asks, PromptAnswered(n) \/ AskFails(n) PROVE Awaited'
  <2>1. /\ pending' = pending /\ answer[n] # "none" /\ client' = client
        /\ Leave(n, "drop") \/ Leave(n, "done")
    BY <1>12 DEF PromptAnswered, AskFails
  <2>2. \A c \in Asks, m \in Waiting : <<n, m>> \notin pending'[c]
    BY <2>1
  <2>3. QED
    BY <1>10, <2>1, <2>2
<1>13. ASSUME UNCHANGED <<pc, client, pending, answer>> PROVE Awaited'
  BY <1>13
<1>14. ASSUME NEW n \in Asks, SeeText(n) \/ Deadline(n) \/ CancelContext(n)
       PROVE  Awaited'
  BY <1>13, <1>14 DEF SeeText, Deadline, CancelContext, clientVars, askVars
<1>15. ASSUME NEW c \in Asks, NEW call \in open[c], ReadResponse(c, call)
       PROVE  Awaited'
  <2>1. /\ client' = client /\ pc' = pc
        /\ pending' = [pending EXCEPT ![c] = @ \ {call}]
    BY <1>15 DEF ReadResponse
  <2>2. CASE call \in pending[c]
    <3>1. \E res \in {"result", "error"} :
              answer' = [answer EXCEPT ![call[1]] = res]
      BY <1>15, <2>2 DEF ReadResponse
    <3>2. PICK n \in Asks, m \in Waiting : call = <<n, m>>
      BY <1>1, <2>2
    <3>3. client[n] = c /\ pc[n] = m
      BY <2>2, <3>2
    <3>5. \A d \in Asks : pending'[d] \subseteq pending[d]
      BY <1>1, <2>1
    <3>4. ASSUME NEW d \in Asks, NEW l \in Waiting, <<n, l>> \in pending'[d]
          PROVE  FALSE
      <4>1. <<n, l>> \in pending[d]
        BY <3>4, <3>5
      <4>2. client[n] = d /\ pc[n] = l
        BY <4>1
      <4>3. d = c /\ <<n, l>> = call
        BY <3>2, <3>3, <4>2
      <4> QED
        BY <1>1, <2>1, <3>4, <4>3
    <3>6. /\ \A o \in Asks \ {n} : answer'[o] = answer[o]
          /\ pc[n] \in Waiting
      BY <1>1, <3>1, <3>2, <3>3
    <3>7. PendingIsAwaited'
      <4>1. ASSUME NEW d \in Asks, NEW o \in Asks, NEW l \in Waiting,
                   <<o, l>> \in pending'[d]
            PROVE  client'[o] = d /\ pc'[o] = l /\ answer'[o] = "none"
        <5>1. o # n /\ <<o, l>> \in pending[d]
          BY <3>4, <3>5, <4>1
        <5>2. client[o] = d /\ pc[o] = l /\ answer[o] = "none"
          BY <5>1
        <5> QED
          BY <2>1, <3>6, <5>1, <5>2
      <4> QED
        BY <4>1
    <3>8. AnswersAwaited'
      BY <2>1, <3>6
    <3>9. QED
      BY <2>1, <3>7, <3>8
  <2>3. CASE call \notin pending[c]
    BY <1>1, <1>15, <2>1, <2>3 DEF ReadResponse
  <2>4. QED
    BY <2>2, <2>3
<1>16. ASSUME NEW c \in Asks,
              \/ \E call \in open[c] : ReadText(c, call)
              \/ Crash(c) \/ ClientSteps(c)
       PROVE  Awaited'
  BY <1>13, <1>16
     DEF ReadText, Crash, ClientSteps, KillByContext, Reap, CloseStop, askVars
<1>17. CASE CloseTake \/ Finished \/ UNCHANGED vars
  BY <1>13, <1>17 DEF CloseTake, Finished, vars, clientVars, askVars
<1>18. QED
  BY <1>2, <1>3, <1>5, <1>7, <1>8, <1>9, <1>11, <1>12, <1>14, <1>15, <1>16,
     <1>17
     DEF Next, AskSteps

(* Whichever of response, silence, timeout and failure comes first, the    *)
(* pending map keeps no call that nobody waits for (readStdout, ask).      *)
THEOREM NothingPendingIsForgotten == Spec => []PendingIsAwaited
<1>1. Awaited => PendingIsAwaited
  BY DEF Awaited
<1>2. QED
  BY <1>1, TypedAlways, AwaitedInit, AwaitedNext, PTL DEF Spec

-----------------------------------------------------------------------------
(* Failed asks.  A client enters the pool only by the ask it is named      *)
(* after, whose first step that is, so one that was taken out stays out.   *)

UsedHasBegun ==
    /\ \A n \in Asks : client[n] # None => pc[client[n]] # "idle"
    /\ \A k \in Keys : pool[k] # None => pc[pool[k]] # "idle"

LeftNotPooled ==
    \A n \in Asks :
        pc[n] \in {"kill", "failed"} => \A k \in Keys : pool[k] # client[n]

Dropped == UsedHasBegun /\ LeftNotPooled

LEMMA DroppedInit == Init => Dropped
  BY DEF Init, Dropped, UsedHasBegun, LeftNotPooled

(* One step per action that changes the pool, or marks an ask as failed.   *)
LEMMA DroppedNext ==
    Typed /\ Isolated /\ Awaited /\ Dropped /\ [Next]_vars => Dropped'
<1> SUFFICES ASSUME Typed, Isolated, Awaited, Dropped, [Next]_vars
             PROVE  Dropped'
  OBVIOUS
<1> USE NoneAssumption DEF Dropped, UsedHasBegun, LeftNotPooled
<1>1. /\ pc \in [Asks -> PC] /\ client \in [Asks -> Asks \cup {None}]
      /\ pool \in [Keys -> Asks \cup {None}] /\ key \in [Asks -> Keys]
      /\ \A n \in Asks : pc[n] # "idle" => client[n] \in Asks
  BY DEF Typed, TypeOK, HasClient
<1>2. \A k \in Keys : pool[k] # None => key[pool[k]] = k
  BY DEF Isolated, Pooled
<1>3. \A n \in Asks : client[n] # None => key[client[n]] = key[n]
  BY DEF Isolated, ModeIsolation
<1>4. ASSUME NEW n \in Asks, Lookup(n) PROVE Dropped'
  <2>1. /\ pc[n] = "idle" /\ key[n] \in Keys
        /\ \E where \in {"lock", "spawn"} : pc' = [pc EXCEPT ![n] = where]
    BY <1>1, <1>4 DEF Lookup
  <2>2. CASE pool[key[n]] \in isRunning
    <3>1. pool' = pool /\ client' = [client EXCEPT ![n] = pool[key[n]]]
      BY <1>4, <2>2 DEF Lookup
    <3>2. QED
      BY <1>1, <2>1, <3>1 DEF PC, Waiting
  <2>3. CASE pool[key[n]] \notin isRunning
    <3>1. /\ pool' = [pool EXCEPT ![key[n]] = n]
          /\ client' = [client EXCEPT ![n] = n]
      BY <1>4, <2>3 DEF Lookup
    <3>2. QED
      BY <1>1, <2>1, <3>1 DEF PC, Waiting
  <2>4. QED
    BY <2>2, <2>3
<1>5. ASSUME NEW n \in Asks, pc[n] # "idle", client' = client,
             \A k \in Keys : pool'[k] \in {pool[k], None},
             \E where \in PC \ {"idle"} :
                 /\ pc' = [pc EXCEPT ![n] = where]
                 /\ where \in {"kill", "failed"} =>
                        \/ pc[n] \in {"kill", "failed"}
                        \/ \A k \in Keys : pool'[k] # client[n]
      PROVE  Dropped'
  BY <1>1, <1>5
<1>6. ASSUME NEW n \in Asks, Unpool(n) \/ Drop(n) PROVE Dropped'
  <2>1. /\ pc[n] # "idle" /\ client' = client
        /\ pool' = [pool EXCEPT ![key[n]] = IF @ = client[n] THEN None ELSE @]
        /\ \E where \in {"kill", "failed"} : pc' = [pc EXCEPT ![n] = where]
    BY <1>6 DEF Unpool, Drop, Awaited, OwnClient
  <2>2. \A k \in Keys : pool'[k] # client[n]
    BY <1>1, <1>2, <1>3, <2>1
  <2>3. \A k \in Keys : pool'[k] \in {pool[k], None}
    BY <1>1, <2>1
  <2>4. QED
    BY <1>5, <2>1, <2>2, <2>3 DEF PC
<1>7. ASSUME NEW n \in Asks,
             \/ AskSteps(n) /\ ~Unpool(n) /\ ~Drop(n)
             \/ PromptIdles(n)
      PROVE  Dropped'
  <2>1. /\ pc[n] # "idle" /\ client' = client /\ pool' = pool
        /\ \E where \in PC \ {"idle"} :
               /\ pc' = [pc EXCEPT ![n] = where]
               /\ where \in {"kill", "failed"} => pc[n] = "kill"
    BY <1>7
       DEF AskSteps, Spawn, SpawnUnwritten, SpawnFails, Initialized,
           InitializeFails, InitializeTimesOut, LockAndCall, LockAndFail,
           BeginPrompt, Written, SessionCreated, PromptAnswered, AskFails,
           AskTimesOut, Leave, Kill, PromptIdles, PC, Waiting
  <2>2. QED
    BY <1>5, <2>1
<1>8. ASSUME pc' = pc, client' = client,
             \A k \in Keys : pool'[k] \in {pool[k], None}
      PROVE  Dropped'
  BY <1>1, <1>8
<1>9. ASSUME NEW n \in Asks, SeeText(n) \/ Deadline(n) \/ CancelContext(n)
      PROVE  Dropped'
  BY <1>8, <1>9 DEF SeeText, Deadline, CancelContext, askVars
<1>10. ASSUME NEW c \in Asks,
              \/ \E call \in open[c] : ReadResponse(c, call) \/ ReadText(c, call)
              \/ Crash(c) \/ ClientSteps(c)
       PROVE  Dropped'
  BY <1>8, <1>10
     DEF ReadResponse, ReadText, Crash, ClientSteps, KillByContext, Reap,
         CloseStop, askVars
<1>11. CASE CloseTake \/ Finished \/ UNCHANGED vars
  BY <1>8, <1>11 DEF CloseTake, Finished, vars, askVars
<1>12. QED
  BY <1>4, <1>6, <1>7, <1>9, <1>10, <1>11 DEF Next

(* The client of an ask that failed is out of the pool and stays out       *)
(* (dropACPClient, and acpClientFor's error path).                         *)
THEOREM FailedClientsStayOut == Spec => []FailedClientNotPooled
<1>1. Dropped => FailedClientNotPooled
  BY DEF Dropped, LeftNotPooled, FailedClientNotPooled
<1>2. QED
  BY <1>1, TypedAlways, IsolatedInit, IsolatedNext, AwaitedInit, AwaitedNext,
     DroppedInit, DroppedNext, PTL DEF Spec

-----------------------------------------------------------------------------
(* Streamed text.  A prompt that Hermes may still send text for is waited  *)
(* for, was left for silence, or is in a client that was stopped: there    *)
(* nothing is current, and no later prompt can be written.                 *)

RunningIsSpawned == \A c \in isRunning : pc[c] \notin {"idle", "spawn"}

OpenIsSpawned == \A c \in Asks : pc[c] \in {"idle", "spawn"} => open[c] = {}

PromptsHeard ==
    \A c, m \in Asks :
        <<m, "session/prompt">> \in open[c] =>
            \/ m \in idled
            \/ client[m] = c /\ pc[m] = "session/prompt" /\ answer[m] = "none"
            \/ c \notin isRunning /\ current[c] = None

TextIsOwn == \A c \in Asks : text[c] \subseteq {current[c]} \cup idled

Heard ==
    /\ RunningIsSpawned /\ OpenIsSpawned /\ PromptsHeard /\ TextIsOwn
    /\ ForeignTextOnlyAfterIdle

LEMMA HeardInit == Init => Heard
  BY DEF Init, Heard, RunningIsSpawned, OpenIsSpawned, PromptsHeard, TextIsOwn,
         ForeignTextOnlyAfterIdle

(* Which processes run and what they have been asked.                      *)
LEMMA SpawnedNext ==
    ASSUME Typed, Awaited, RunningIsSpawned, OpenIsSpawned, [Next]_vars
    PROVE  RunningIsSpawned' /\ OpenIsSpawned'
<1> USE DEF RunningIsSpawned, OpenIsSpawned
<1>1. /\ pc \in [Asks -> PC] /\ client \in [Asks -> Asks \cup {None}]
      /\ open \in [Asks -> SUBSET (Asks \X Waiting)] /\ isRunning \subseteq Asks
      /\ \A n \in Asks : pc[n] # "idle" => client[n] \in Asks
  BY DEF Typed, TypeOK, HasClient
<1>2. ASSUME isRunning' \subseteq isRunning,
             \A c \in Asks : open'[c] \subseteq open[c],
             \A c \in Asks : pc'[c] \in {"idle", "spawn"} =>
                                 pc[c] \in {"idle", "spawn"}
      PROVE  RunningIsSpawned' /\ OpenIsSpawned'
  BY <1>1, <1>2
<1>3. ASSUME NEW n \in Asks, Lookup(n)
      PROVE  RunningIsSpawned' /\ OpenIsSpawned'
  <2>1. /\ isRunning' = isRunning /\ open' = open /\ pc[n] = "idle"
        /\ \E where \in {"lock", "spawn"} : pc' = [pc EXCEPT ![n] = where]
    BY <1>3 DEF Lookup, clientVars
  <2>2. QED
    BY <1>1, <1>2, <2>1
<1>4. ASSUME NEW n \in Asks, Spawn(n) \/ SpawnUnwritten(n)
      PROVE  RunningIsSpawned' /\ OpenIsSpawned'
  <2>1. /\ isRunning' = isRunning \cup {n}
        /\ \A c \in Asks \ {n} : open'[c] = open[c]
        /\ \E where \in {"initialize", "unpool"} :
               pc' = [pc EXCEPT ![n] = where]
    BY <1>1, <1>4 DEF Spawn, SpawnUnwritten
  <2>2. QED
    BY <1>1, <2>1
<1>5. ASSUME NEW n \in Asks, LockAndCall(n) \/ SessionCreated(n)
      PROVE  RunningIsSpawned' /\ OpenIsSpawned'
  <2>1. /\ isRunning' = isRunning /\ client[n] \in isRunning
        /\ \A c \in Asks \ {client[n]} : open'[c] = open[c]
        /\ \E where \in {"session/new", "session/prompt"} :
               pc' = [pc EXCEPT ![n] = where]
    BY <1>1, <1>5 DEF LockAndCall, SessionCreated, BeginPrompt, Written
  <2>2. QED
    BY <1>1, <2>1
<1>6. ASSUME NEW n \in Asks,
             isRunning' \subseteq isRunning, open' = open,
             \E where \in PC \ {"idle", "spawn"} : pc' = [pc EXCEPT ![n] = where]
      PROVE  RunningIsSpawned' /\ OpenIsSpawned'
  BY <1>1, <1>2, <1>6
<1>7. ASSUME NEW n \in Asks,
             \/ SpawnFails(n) \/ Initialized(n) \/ InitializeFails(n)
             \/ InitializeTimesOut(n) \/ Unpool(n) \/ LockAndFail(n)
             \/ PromptAnswered(n) \/ AskFails(n) \/ AskTimesOut(n)
             \/ Drop(n) \/ Kill(n) \/ PromptIdles(n)
      PROVE  RunningIsSpawned' /\ OpenIsSpawned'
  BY <1>6, <1>7
     DEF SpawnFails, Initialized, InitializeFails, InitializeTimesOut, Unpool,
         LockAndFail, PromptAnswered, AskFails, AskTimesOut, Leave, Drop, Kill,
         PromptIdles, StopClients, clientVars, PC
<1>8. ASSUME NEW n \in Asks, SeeText(n) \/ Deadline(n) \/ CancelContext(n)
      PROVE  RunningIsSpawned' /\ OpenIsSpawned'
  BY <1>2, <1>8 DEF SeeText, Deadline, CancelContext, clientVars, askVars
<1>9. ASSUME NEW c \in Asks,
             \/ \E call \in open[c] : ReadResponse(c, call) \/ ReadText(c, call)
             \/ Crash(c) \/ ClientSteps(c)
      PROVE  RunningIsSpawned' /\ OpenIsSpawned'
  <2>1. /\ pc' = pc /\ isRunning' \subseteq isRunning
        /\ \A d \in Asks : open'[d] \subseteq open[d]
    BY <1>1, <1>9
       DEF ReadResponse, ReadText, Crash, ClientSteps, KillByContext, Reap,
           CloseStop, StopClients, askVars
  <2>2. QED
    BY <1>2, <2>1
<1>10. CASE CloseTake \/ Finished \/ UNCHANGED vars
  BY <1>2, <1>10 DEF CloseTake, Finished, vars, clientVars, askVars
<1>11. QED
  BY <1>3, <1>4, <1>5, <1>7, <1>8, <1>9, <1>10 DEF Next, AskSteps

(* One step per action that begins or leaves a prompt, or stops a client.  *)
LEMMA HeardNext ==
    Typed /\ OneConversation /\ Awaited /\ Heard /\ [Next]_vars => Heard'
<1> SUFFICES ASSUME Typed, OneConversation, Awaited, Heard, [Next]_vars
             PROVE  Heard'
  OBVIOUS
<1>1. /\ pc \in [Asks -> PC] /\ client \in [Asks -> Asks \cup {None}]
      /\ open \in [Asks -> SUBSET (Asks \X Waiting)] /\ isRunning \subseteq Asks
      /\ current \in [Asks -> Asks \cup {None}] /\ text \in [Asks -> SUBSET Asks]
      /\ answer \in [Asks -> {"none", "result", "error"}]
      /\ reply \in [Asks -> SUBSET Asks] /\ idled \subseteq Asks
      /\ askMu \in [Asks -> Asks \cup {None}] /\ None \notin Asks
      /\ \A n \in Asks : pc[n] # "idle" => client[n] \in Asks
      /\ \A c \in Asks : current[c] = None => text[c] = {}
  BY NoneAssumption DEF Typed, TypeOK, HasClient
<1>2. RunningIsSpawned' /\ OpenIsSpawned'
  BY SpawnedNext DEF Heard
<1> DEFINE Rest == PromptsHeard /\ TextIsOwn /\ ForeignTextOnlyAfterIdle
<1> SUFFICES Rest'
  BY <1>2 DEF Heard
<1> USE DEF PromptsHeard, TextIsOwn, ForeignTextOnlyAfterIdle
<1>3. Rest
  BY DEF Heard
<1>4. ASSUME idled' = idled, reply' = reply, text' = text, current' = current,
             isRunning' \subseteq isRunning,
             \A c \in Asks : open'[c] \subseteq open[c],
             \A m \in Asks :
                 pc[m] = "session/prompt" /\ answer[m] = "none" =>
                     UNCHANGED <<client[m], pc[m], answer[m]>>
      PROVE  Rest'
  BY <1>3, <1>4
<1>5. ASSUME NEW n \in Asks, Lookup(n) PROVE Rest'
  <2>1. /\ UNCHANGED <<clientVars, answer, idled, reply>> /\ pc[n] = "idle"
        /\ \A m \in Asks \ {n} : UNCHANGED <<client[m], pc[m]>>
    BY <1>1, <1>5 DEF Lookup
  <2>2. QED
    BY <1>4, <2>1 DEF clientVars
<1>6. ASSUME NEW n \in Asks, Spawn(n) \/ SpawnUnwritten(n) PROVE Rest'
  <2>1. /\ UNCHANGED <<idled, reply, text, current, client, answer>>
        /\ pc[n] = "spawn" /\ isRunning' = isRunning \cup {n}
        /\ \A m \in Asks \ {n} : pc'[m] = pc[m]
        /\ \A c \in Asks \ {n} : open'[c] = open[c]
        /\ open'[n] \subseteq open[n] \cup {<<n, "initialize">>}
    BY <1>1, <1>6 DEF Spawn, SpawnUnwritten
  <2>2. open[n] = {}
    BY <2>1 DEF Heard, OpenIsSpawned
  <2>3. ASSUME NEW c \in Asks, NEW m \in Asks,
               <<m, "session/prompt">> \in open'[c]
        PROVE  c # n /\ <<m, "session/prompt">> \in open[c]
    BY <2>1, <2>2, <2>3
  <2>4. PromptsHeard'
    BY <1>3, <2>1, <2>3
  <2>5. QED
    BY <1>3, <2>1, <2>4
<1>7. ASSUME NEW n \in Asks,
             \/ SpawnFails(n) \/ Initialized(n) \/ InitializeFails(n)
             \/ InitializeTimesOut(n) \/ Unpool(n) \/ LockAndFail(n)
             \/ Drop(n) \/ Kill(n)
      PROVE  Rest'
  <2>1. /\ UNCHANGED <<idled, reply, text, current, client, open>>
        /\ pc[n] # "session/prompt" /\ isRunning' \subseteq isRunning
        /\ \A m \in Asks \ {n} : UNCHANGED <<pc[m], answer[m]>>
    BY <1>1, <1>7
       DEF SpawnFails, Initialized, InitializeFails, InitializeTimesOut, Unpool,
           LockAndFail, Drop, Kill, StopClients, clientVars
  <2>2. QED
    BY <1>4, <2>1
<1>8. ASSUME NEW n \in Asks, BeginPrompt(n), askMu[client[n]] \in {n, None},
             pc[n] # "session/prompt", client[n] \in Asks, client' = client,
             \A m \in Asks \ {n} : answer'[m] = answer[m], answer'[n] = "none",
             UNCHANGED <<isRunning, idled, reply>>
      PROVE  Rest'
  <2>1. /\ client[n] \in isRunning
        /\ open' = [open EXCEPT ![client[n]] = @ \cup {<<n, "session/prompt">>}]
        /\ pc' = [pc EXCEPT ![n] = "session/prompt"]
        /\ current' = [current EXCEPT ![client[n]] = n]
        /\ text' = [text EXCEPT ![client[n]] = {}]
    BY <1>8 DEF BeginPrompt, Written
  <2>2. ASSUME NEW c \in Asks, NEW m \in Asks,
               <<m, "session/prompt">> \in open'[c]
        PROVE  \/ m \in idled'
               \/ /\ client'[m] = c /\ pc'[m] = "session/prompt"
                  /\ answer'[m] = "none"
               \/ c \notin isRunning' /\ current'[c] = None
    <3>1. CASE <<m, "session/prompt">> \in open[c]
      <4>1. \/ m \in idled
            \/ client[m] = c /\ pc[m] = "session/prompt" /\ answer[m] = "none"
            \/ c \notin isRunning /\ current[c] = None
        BY <1>3, <3>1
      <4>2. QED
        BY <1>1, <1>8, <2>1, <4>1
    <3>2. CASE m = n /\ c = client[n]
      BY <1>1, <1>8, <2>1, <3>2
    <3>3. QED
      BY <1>1, <2>1, <2>2, <3>1, <3>2
  <2>3. TextIsOwn'
    BY <1>1, <1>3, <1>8, <2>1
  <2>4. QED
    BY <1>3, <1>8, <2>2, <2>3
<1>9. ASSUME NEW n \in Asks, LockAndCall(n) PROVE Rest'
  <2>1. /\ pc[n] = "lock" /\ answer' = answer /\ answer[n] = "none"
        /\ askMu[client[n]] = None /\ client[n] \in Asks
        /\ UNCHANGED <<isRunning, client, idled, reply>>
    BY <1>1, <1>9 DEF LockAndCall, Awaited, AnswersAwaited, Waiting
  <2>2. CASE n \in resume
    BY <1>8, <1>9, <2>1, <2>2 DEF LockAndCall
  <2>3. CASE n \notin resume
    <3>1. /\ open' = [open EXCEPT ![client[n]] = @ \cup {<<n, "session/new">>}]
          /\ pc' = [pc EXCEPT ![n] = "session/new"]
          /\ UNCHANGED <<current, text>>
      BY <1>9, <2>3 DEF LockAndCall, Written
    <3>2. ASSUME NEW c \in Asks, NEW m \in Asks,
                 <<m, "session/prompt">> \in open'[c]
          PROVE  <<m, "session/prompt">> \in open[c]
      BY <1>1, <3>1, <3>2
    <3>3. PromptsHeard'
      BY <1>1, <1>3, <2>1, <3>1, <3>2
    <3>4. QED
      BY <1>3, <2>1, <3>1, <3>3
  <2>4. QED
    BY <2>2, <2>3
<1>10. ASSUME NEW n \in Asks, SessionCreated(n) PROVE Rest'
  <2>1. /\ pc[n] = "session/new" /\ askMu[client[n]] = n /\ client[n] \in Asks
        /\ answer' = [answer EXCEPT ![n] = "none"] /\ BeginPrompt(n)
        /\ UNCHANGED <<isRunning, client, idled, reply>>
    BY <1>1, <1>10 DEF SessionCreated, OneConversation
  <2>2. QED
    BY <1>1, <1>8, <2>1
<1>11. ASSUME NEW n \in Asks, NEW where \in {"drop", "done"}, Leave(n, where),
              pc[n] \in Conversing, client' = client, open' = open,
              isRunning' \subseteq isRunning,
              \/ n \in idled' \/ answer[n] # "none" \/ pc[n] = "session/new"
              \/ client[n] \notin isRunning',
              idled \subseteq idled',
              \A m \in Asks \ {n} : reply'[m] = reply[m],
              reply'[n] \subseteq {n} \cup idled'
       PROVE  Rest'
  <2>1. /\ current' = [current EXCEPT ![client[n]] = None]
        /\ text' = [text EXCEPT ![client[n]] = {}]
        /\ answer' = [answer EXCEPT ![n] = "none"]
        /\ pc' = [pc EXCEPT ![n] = where]
        /\ client[n] \in Asks
    BY <1>1, <1>11 DEF Leave, Conversing
  <2>2. ASSUME NEW c \in Asks, NEW m \in Asks,
               <<m, "session/prompt">> \in open'[c]
        PROVE  \/ m \in idled'
               \/ /\ client'[m] = c /\ pc'[m] = "session/prompt"
                  /\ answer'[m] = "none"
               \/ c \notin isRunning' /\ current'[c] = None
    <3>1. \/ m \in idled
          \/ client[m] = c /\ pc[m] = "session/prompt" /\ answer[m] = "none"
          \/ c \notin isRunning /\ current[c] = None
      BY <1>3, <1>11, <2>2
    <3>2. QED
      BY <1>1, <1>11, <2>1, <3>1
  <2>3. TextIsOwn'
    BY <1>1, <1>3, <1>11, <2>1
  <2>4. ForeignTextOnlyAfterIdle'
    BY <1>3, <1>11
  <2>5. QED
    BY <2>2, <2>3, <2>4
<1>12. ASSUME NEW n \in Asks, AskFails(n) \/ AskTimesOut(n) PROVE Rest'
  <2>1. /\ Leave(n, "drop") /\ pc[n] \in Conversing /\ isRunning' \subseteq isRunning
        /\ answer[n] # "none" \/ client[n] \notin isRunning'
        /\ UNCHANGED <<client, open, idled, reply>>
    BY <1>12 DEF AskFails, AskTimesOut, StopClients, Conversing
  <2>2. QED
    BY <1>3, <1>11, <2>1
<1>13. ASSUME NEW n \in Asks, PromptAnswered(n) \/ PromptIdles(n) PROVE Rest'
  <2>1. /\ Leave(n, "done") /\ pc[n] = "session/prompt"
        /\ UNCHANGED <<client, open, isRunning>>
        /\ \/ answer[n] # "none" /\ idled' = idled
           \/ idled' = idled \cup {n}
        /\ \A m \in Asks \ {n} : reply'[m] = reply[m]
        /\ reply'[n] \subseteq {n} \cup text[client[n]]
    BY <1>1, <1>13 DEF PromptAnswered, PromptIdles
  <2>2. text[client[n]] \subseteq {n} \cup idled
    BY <1>1, <1>3, <2>1 DEF OneConversation
  <2>3. QED
    BY <1>11, <2>1, <2>2 DEF Conversing
<1>14. ASSUME NEW c \in Asks, NEW call \in open[c], ReadResponse(c, call)
       PROVE  Rest'
  <2>1. /\ open' = [open EXCEPT ![c] = @ \ {call}]
        /\ UNCHANGED <<isRunning, current, text, pc, client, idled, reply>>
    BY <1>14 DEF ReadResponse
  <2>2. ASSUME NEW d \in Asks, NEW m \in Asks,
               <<m, "session/prompt">> \in open'[d]
        PROVE  \/ m \in idled'
               \/ /\ client'[m] = d /\ pc'[m] = "session/prompt"
                  /\ answer'[m] = "none"
               \/ d \notin isRunning' /\ current'[d] = None
    <3>1. <<m, "session/prompt">> \in open[d]
      BY <1>1, <2>1, <2>2
    <3>2. \/ m \in idled
          \/ client[m] = d /\ pc[m] = "session/prompt" /\ answer[m] = "none"
          \/ d \notin isRunning /\ current[d] = None
      BY <1>3, <3>1
    <3>3. ASSUME client[m] = d, pc[m] = "session/prompt"
          PROVE  answer'[m] = answer[m]
      <4>1. CASE call \notin pending[c]
        BY <1>14, <4>1 DEF ReadResponse
      <4>2. CASE call \in pending[c]
        <5>1. PICK l \in Asks, k \in Waiting : call = <<l, k>>
          BY <1>1
        <5>2. client[l] = c /\ pc[l] = k
          BY <4>2, <5>1 DEF Awaited, PendingIsAwaited
        <5>3. l # m
          BY <1>1, <2>1, <2>2, <3>3, <5>1, <5>2
        <5>4. QED
          BY <1>1, <1>14, <4>2, <5>1, <5>3 DEF ReadResponse
      <4>3. QED
        BY <4>1, <4>2
    <3>4. QED
      BY <2>1, <3>2, <3>3
  <2>3. QED
    BY <1>3, <2>1, <2>2
<1>15. ASSUME NEW c \in Asks, NEW call \in open[c], ReadText(c, call)
       PROVE  Rest'
  <2>1. PICK m \in Asks : call = <<m, "session/prompt">>
    BY <1>1, <1>15 DEF ReadText
  <2>2. /\ current[c] # None /\ text' = [text EXCEPT ![c] = @ \cup {m}]
        /\ UNCHANGED <<isRunning, current, open, pc, client, answer, idled,
                       reply>>
    BY <1>15, <2>1 DEF ReadText, askVars
  <2>3. m \in {current[c]} \cup idled
    BY <1>3, <2>1, <2>2 DEF OneConversation
  <2>4. TextIsOwn'
    BY <1>1, <1>3, <2>2, <2>3
  <2>5. QED
    BY <1>3, <2>2, <2>4
<1>16. ASSUME NEW c \in Asks, Crash(c) \/ ClientSteps(c) PROVE Rest'
  <2>1. /\ UNCHANGED <<askVars, current, text>> /\ isRunning' \subseteq isRunning
        /\ \A d \in Asks : open'[d] \subseteq open[d]
    BY <1>1, <1>16
       DEF Crash, ClientSteps, KillByContext, Reap, CloseStop, StopClients
  <2>2. QED
    BY <1>4, <2>1 DEF askVars
<1>17. ASSUME NEW n \in Asks, SeeText(n) \/ Deadline(n) \/ CancelContext(n)
       PROVE  Rest'
  BY <1>4, <1>17 DEF SeeText, Deadline, CancelContext, clientVars, askVars
<1>18. CASE CloseTake \/ Finished \/ UNCHANGED vars
  BY <1>4, <1>18 DEF CloseTake, Finished, vars, clientVars, askVars
<1>19. QED
  BY <1>5, <1>6, <1>7, <1>9, <1>10, <1>12, <1>13, <1>14, <1>15, <1>16, <1>17,
     <1>18
     DEF Next, AskSteps

(* However prompts fail, time out or are left for silence, a reply has no  *)
(* other ask's text in it but that of one left for silence                 *)
(* (handleSessionUpdate, waitForResponseOrIdle).                           *)
THEOREM TextIsForeignOnlyAfterIdle == Spec => []ForeignTextOnlyAfterIdle
<1>1. Heard => ForeignTextOnlyAfterIdle
  BY DEF Heard
<1>2. QED
  BY <1>1, TypedAlways, OneConversationInit, OneConversationNext, AwaitedInit,
     AwaitedNext, HeardInit, HeardNext, PTL DEF Spec

-----------------------------------------------------------------------------
(* The lock.  Inductive with OneConversation, its converse: who holds it   *)
(* is in its conversation, and a prompt is current only for that ask.      *)

LockIsInUse ==
    \A c \in Asks :
        /\ askMu[c] # None => /\ pc[askMu[c]] \in {"session/new", "session/prompt"}
                              /\ client[askMu[c]] = c
        /\ current[c] # None => current[c] = askMu[c]

LEMMA LockNext ==
    Typed /\ OneConversation /\ LockIsInUse /\ [Next]_vars => LockIsInUse'
<1> SUFFICES ASSUME Typed, OneConversation, LockIsInUse, [Next]_vars
             PROVE  LockIsInUse'
  OBVIOUS
<1> USE DEF LockIsInUse
<1>1. /\ pc \in [Asks -> PC] /\ client \in [Asks -> Asks \cup {None}]
      /\ askMu \in [Asks -> Asks \cup {None}] /\ None \notin Asks
      /\ current \in [Asks -> Asks \cup {None}]
      /\ \A n \in Asks : pc[n] # "idle" => client[n] \in Asks
  BY NoneAssumption DEF Typed, TypeOK, HasClient
<1>2. ASSUME askMu' = askMu, current' = current,
             \A m \in Asks : pc[m] \in Conversing =>
                                 pc'[m] = pc[m] /\ client'[m] = client[m]
      PROVE  LockIsInUse'
  BY <1>1, <1>2 DEF Conversing
<1>3. ASSUME NEW n \in Asks, NEW where \in {"drop", "done"},
             pc[n] \in Conversing, Leave(n, where), client' = client
      PROVE  LockIsInUse'
  <2>1. /\ current' = [current EXCEPT ![client[n]] = None]
        /\ askMu' = [askMu EXCEPT ![client[n]] = None]
        /\ pc' = [pc EXCEPT ![n] = where]
    BY <1>3 DEF Leave
  <2>2. client[n] \in Asks
    BY <1>1, <1>3 DEF Conversing
  <2> QED
    BY <1>1, <1>3, <2>1, <2>2
<1>4. ASSUME NEW n \in Asks, LockAndCall(n) PROVE LockIsInUse'
  <2>1. /\ pc[n] = "lock" /\ askMu[client[n]] = None /\ client' = client
        /\ askMu' = [askMu EXCEPT ![client[n]] = n] /\ client[n] \in Asks
    BY <1>1, <1>4 DEF LockAndCall
  <2>2. current[client[n]] = None
    BY <2>1
  <2>3. CASE n \in resume
    <3>1. /\ pc' = [pc EXCEPT ![n] = "session/prompt"]
          /\ current' = [current EXCEPT ![client[n]] = n]
      BY <1>4, <2>3 DEF LockAndCall, BeginPrompt, Written
    <3> QED
      BY <1>1, <2>1, <3>1
  <2>4. CASE n \notin resume
    <3>1. pc' = [pc EXCEPT ![n] = "session/new"] /\ current' = current
      BY <1>4, <2>4 DEF LockAndCall, Written
    <3> QED
      BY <1>1, <2>1, <2>2, <3>1
  <2> QED
    BY <2>3, <2>4
<1>5. ASSUME NEW n \in Asks, SessionCreated(n) PROVE LockIsInUse'
  <2>1. /\ pc[n] = "session/new" /\ client' = client /\ askMu' = askMu
        /\ pc' = [pc EXCEPT ![n] = "session/prompt"]
        /\ current' = [current EXCEPT ![client[n]] = n]
        /\ client[n] \in Asks /\ askMu[client[n]] = n
    BY <1>1, <1>5 DEF SessionCreated, BeginPrompt, Written, OneConversation
  <2> QED
    BY <1>1, <2>1
<1>6. ASSUME NEW n \in Asks,
             PromptAnswered(n) \/ AskFails(n) \/ AskTimesOut(n) \/ PromptIdles(n)
      PROVE  LockIsInUse'
  BY <1>3, <1>6
     DEF PromptAnswered, AskFails, AskTimesOut, PromptIdles, Conversing
<1>7. ASSUME NEW n \in Asks, Lookup(n) PROVE LockIsInUse'
  <2>1. /\ askMu' = askMu /\ current' = current /\ pc[n] = "idle"
        /\ \A m \in Asks \ {n} : pc'[m] = pc[m] /\ client'[m] = client[m]
    BY <1>1, <1>7 DEF Lookup, clientVars
  <2> QED
    BY <1>2, <2>1 DEF Conversing
<1>8. ASSUME NEW n \in Asks,
             \/ Spawn(n) \/ SpawnUnwritten(n) \/ SpawnFails(n) \/ Initialized(n)
             \/ InitializeFails(n) \/ InitializeTimesOut(n) \/ Unpool(n)
             \/ LockAndFail(n) \/ Drop(n) \/ Kill(n)
      PROVE  LockIsInUse'
  <2>1. /\ askMu' = askMu /\ current' = current /\ client' = client
        /\ pc[n] \notin Conversing
        /\ \A m \in Asks \ {n} : pc'[m] = pc[m]
    BY <1>1, <1>8
       DEF Spawn, SpawnUnwritten, SpawnFails, Initialized, InitializeFails,
           InitializeTimesOut, Unpool, LockAndFail, Drop, Kill, clientVars,
           Conversing
  <2> QED
    BY <1>2, <2>1
<1>9. ASSUME UNCHANGED <<askMu, current, pc, client>> PROVE LockIsInUse'
  BY <1>2, <1>9
<1>10. ASSUME NEW n \in Asks, SeeText(n) \/ Deadline(n) \/ CancelContext(n)
       PROVE  LockIsInUse'
  BY <1>9, <1>10 DEF SeeText, Deadline, CancelContext, clientVars, askVars
<1>11. ASSUME NEW c \in Asks,
              \/ \E call \in open[c] : ReadResponse(c, call) \/ ReadText(c, call)
              \/ Crash(c) \/ ClientSteps(c)
       PROVE  LockIsInUse'
  BY <1>9, <1>11
     DEF ReadResponse, ReadText, Crash, ClientSteps, KillByContext, Reap,
         CloseStop, clientVars, askVars
<1>12. CASE CloseTake \/ Finished \/ UNCHANGED vars
  BY <1>9, <1>12 DEF CloseTake, Finished, vars, clientVars, askVars
<1> QED
  BY <1>4, <1>5, <1>6, <1>7, <1>8, <1>10, <1>11, <1>12 DEF Next, AskSteps

(* askMu is held by exactly the ask that is talking with the client, and   *)
(* is released on every path out of ask: nobody who waits for it waits for *)
(* an ask that has left.                                                   *)
THEOREM ConversationsAreGuarded == Spec => []ConversationGuarded
<1>1. Init => LockIsInUse
  BY NoneAssumption DEF Init, LockIsInUse
<1>2. OneConversation /\ LockIsInUse => ConversationGuarded
  BY NoneAssumption DEF OneConversation, LockIsInUse, ConversationGuarded
<1> QED
  BY <1>1, <1>2, TypedAlways, ConversationsTakeTurns, LockNext, PTL DEF Spec

-----------------------------------------------------------------------------
(* The service.  An ask beyond its launch has a process that was launched, *)
(* and what is called running is; an ask that has seen text has text.      *)

Unlaunched == {"idle", "spawn"}
Launched ==
    /\ \A n \in Asks : pc[n] \in Unlaunched => proc[n] = "none"
    /\ \A c \in isRunning : proc[c] # "none"
    /\ \A n \in Asks : pc[n] \in {"initialize", "lock", "drop", "kill", "done"}
                           \/ pc[n] \in Conversing => proc[client[n]] # "none"

LEMMA LaunchedNext == Typed /\ Awaited /\ Launched /\ [Next]_vars => Launched'
<1> SUFFICES ASSUME Typed, Awaited, Launched, [Next]_vars PROVE Launched'
  OBVIOUS
<1> USE DEF Launched, Unlaunched, Conversing
<1>1. /\ pc \in [Asks -> PC] /\ client \in [Asks -> Asks \cup {None}]
      /\ proc \in [Asks -> {"none", "alive", "dying", "gone"}]
      /\ isRunning \subseteq Asks
      /\ \A n \in Asks : pc[n] # "idle" => client[n] \in Asks
  BY DEF Typed, TypeOK, HasClient
<1>2. ASSUME NEW n \in Asks, Lookup(n) PROVE Launched'
  <2>1. /\ pc[n] = "idle" /\ proc' = proc /\ isRunning' = isRunning
        /\ \/ /\ pc' = [pc EXCEPT ![n] = "lock"] /\ pool[key[n]] \in isRunning
              /\ client' = [client EXCEPT ![n] = pool[key[n]]]
           \/ /\ pc' = [pc EXCEPT ![n] = "spawn"]
              /\ client' = [client EXCEPT ![n] = n]
    BY <1>2 DEF Lookup, clientVars
  <2> QED
    BY <1>1, <2>1
<1>3. ASSUME NEW n \in Asks, Spawn(n) \/ SpawnUnwritten(n) PROVE Launched'
  <2>1. /\ pc[n] = "spawn" /\ client[n] = n /\ client' = client
        /\ isRunning' = isRunning \cup {n}
        /\ \E p \in {"alive", "dying"} : proc' = [proc EXCEPT ![n] = p]
        /\ \E where \in {"initialize", "unpool"} : pc' = [pc EXCEPT ![n] = where]
    BY <1>3 DEF Spawn, SpawnUnwritten, Awaited, OwnClient
  <2> QED
    BY <1>1, <2>1
<1>4. ASSUME client' = client, isRunning' \subseteq isRunning,
             \A c \in Asks : proc[c] = "none" <=> proc'[c] = "none",
             \A m \in Asks :
                 /\ pc'[m] \in Unlaunched => pc[m] \in Unlaunched
                 /\ pc'[m] \in {"initialize", "lock", "drop", "kill", "done"}
                        \/ pc'[m] \in Conversing =>
                    pc[m] \in {"initialize", "lock", "drop", "kill", "done"}
                        \/ pc[m] \in Conversing
      PROVE  Launched'
  BY <1>1, <1>4
<1>5. ASSUME NEW n \in Asks, AskSteps(n) \/ PromptIdles(n),
             ~Spawn(n), ~SpawnUnwritten(n)
      PROVE  Launched'
  <2>1. /\ client' = client /\ isRunning' \subseteq isRunning
        /\ \A c \in Asks : proc[c] = "none" <=> proc'[c] = "none"
    BY <1>1, <1>5
       DEF AskSteps, SpawnFails, Initialized, InitializeFails,
           InitializeTimesOut, Unpool, LockAndCall, LockAndFail, BeginPrompt,
           Written, SessionCreated, PromptAnswered, AskFails, AskTimesOut, Leave,
           Drop, Kill, PromptIdles, StopClients, clientVars
  <2>2. \E where \in PC \ Unlaunched :
            /\ pc' = [pc EXCEPT ![n] = where]
            /\ where \notin {"unpool", "failed"} => pc[n] \notin {"idle", "spawn", "unpool", "failed"}
    BY <1>5
       DEF AskSteps, SpawnFails, Initialized, InitializeFails,
           InitializeTimesOut, Unpool, LockAndCall, LockAndFail, BeginPrompt,
           Written, SessionCreated, PromptAnswered, AskFails, AskTimesOut, Leave,
           Drop, Kill, PromptIdles, PC, Waiting
  <2> QED
    BY <1>1, <1>4, <2>1, <2>2 DEF PC, Waiting
<1>6. ASSUME NEW n \in Asks, SeeText(n) \/ Deadline(n) \/ CancelContext(n)
      PROVE  Launched'
  BY <1>4, <1>6 DEF SeeText, Deadline, CancelContext, clientVars, askVars
<1>7. ASSUME NEW c \in Asks,
             \/ \E call \in open[c] : ReadResponse(c, call) \/ ReadText(c, call)
             \/ Crash(c) \/ ClientSteps(c)
      PROVE  Launched'
  <2>1. /\ pc' = pc /\ client' = client /\ isRunning' \subseteq isRunning
        /\ \A d \in Asks : proc[d] = "none" <=> proc'[d] = "none"
    BY <1>1, <1>7
       DEF ReadResponse, ReadText, Crash, ClientSteps, KillByContext, Reap,
           CloseStop, StopClients, askVars
  <2> QED
    BY <1>4, <2>1
<1>8. CASE CloseTake \/ Finished \/ UNCHANGED vars
  BY <1>4, <1>8 DEF CloseTake, Finished, vars, clientVars, askVars
<1> QED
  BY <1>2, <1>3, <1>5, <1>6, <1>7, <1>8 DEF Next, AskSteps

(* Text that was noticed is there until its ask returns.                   *)
SeenHasText ==
    /\ \A c \in touched : text[c] # {}
    /\ \A n \in seenText : pc[n] = "session/prompt" /\ text[client[n]] # {}

LEMMA SeenNext ==
    Typed /\ OneConversation /\ SeenHasText /\ [Next]_vars => SeenHasText'
<1> SUFFICES ASSUME Typed, OneConversation, SeenHasText, [Next]_vars
             PROVE  SeenHasText'
  OBVIOUS
<1> USE DEF SeenHasText
<1>1. /\ pc \in [Asks -> PC] /\ client \in [Asks -> Asks \cup {None}]
      /\ text \in [Asks -> SUBSET Asks] /\ None \notin Asks
      /\ touched \subseteq Asks /\ seenText \subseteq Asks
      /\ \A n \in Asks : pc[n] # "idle" => client[n] \in Asks
  BY NoneAssumption DEF Typed, TypeOK, HasClient
<1>2. ASSUME touched' = touched, text' = text, seenText' = seenText,
             \A m \in Asks : pc[m] = "session/prompt" =>
                                 pc'[m] = pc[m] /\ client'[m] = client[m]
      PROVE  SeenHasText'
  BY <1>1, <1>2
<1>3. ASSUME NEW n \in Asks, NEW where \in PC, client' = client, client[n] \in Asks,
             \A m \in seenText' : m \in seenText /\ m # n /\ client[m] # client[n],
             text' = [text EXCEPT ![client[n]] = {}],
             touched' = touched \ {client[n]},
             pc' = [pc EXCEPT ![n] = where]
      PROVE  SeenHasText'
  BY <1>1, <1>3
<1>4. ASSUME NEW n \in Asks, NEW where \in {"drop", "done"},
             pc[n] \in Conversing, Leave(n, where), client' = client
      PROVE  SeenHasText'
  <2>1. /\ text' = [text EXCEPT ![client[n]] = {}]
        /\ touched' = touched \ {client[n]} /\ seenText' = seenText \ {n}
        /\ pc' = [pc EXCEPT ![n] = where] /\ where \in PC /\ client[n] \in Asks
    BY <1>1, <1>4 DEF Leave, PC, Conversing
  <2>2. ASSUME NEW m \in seenText' PROVE client[m] # client[n]
    BY <1>1, <1>4, <2>1, <2>2 DEF OneConversation, Conversing
  <2> QED
    BY <1>3, <1>4, <2>1, <2>2
<1>5. ASSUME NEW n \in Asks, BeginPrompt(n), askMu[client[n]] \in {n, None},
             pc[n] # "session/prompt", client[n] \in Asks, client' = client,
             seenText' = seenText
      PROVE  SeenHasText'
  <2>1. /\ text' = [text EXCEPT ![client[n]] = {}]
        /\ touched' = touched \ {client[n]}
        /\ pc' = [pc EXCEPT ![n] = "session/prompt"] /\ "session/prompt" \in PC
    BY <1>5 DEF BeginPrompt, Written, PC, Waiting
  <2>2. ASSUME NEW m \in seenText' PROVE m # n /\ client[m] # client[n]
    BY <1>1, <1>5, <2>2 DEF OneConversation
  <2> QED
    BY <1>3, <1>5, <2>1, <2>2
<1>6. ASSUME NEW n \in Asks, LockAndCall(n) PROVE SeenHasText'
  <2>1. /\ pc[n] = "lock" /\ askMu[client[n]] = None /\ client' = client
        /\ seenText' = seenText /\ client[n] \in Asks
    BY <1>1, <1>6 DEF LockAndCall
  <2>2. CASE n \in resume
    BY <1>5, <1>6, <2>1, <2>2 DEF LockAndCall
  <2>3. CASE n \notin resume
    <3>1. pc' = [pc EXCEPT ![n] = "session/new"] /\ UNCHANGED <<text, touched>>
      BY <1>6, <2>3 DEF LockAndCall, Written
    <3> QED
      BY <1>1, <1>2, <2>1, <3>1
  <2> QED
    BY <2>2, <2>3
<1>7. ASSUME NEW n \in Asks, SessionCreated(n) PROVE SeenHasText'
  <2>1. /\ pc[n] = "session/new" /\ BeginPrompt(n) /\ client' = client
        /\ seenText' = seenText /\ client[n] \in Asks /\ askMu[client[n]] = n
    BY <1>1, <1>7 DEF SessionCreated, OneConversation
  <2> QED
    BY <1>5, <2>1
<1>8. ASSUME NEW n \in Asks,
             PromptAnswered(n) \/ AskFails(n) \/ AskTimesOut(n) \/ PromptIdles(n)
      PROVE  SeenHasText'
  BY <1>4, <1>8
     DEF PromptAnswered, AskFails, AskTimesOut, PromptIdles, Conversing
<1>9. ASSUME NEW n \in Asks, Lookup(n) PROVE SeenHasText'
  <2>1. /\ UNCHANGED <<touched, text, seenText>> /\ pc[n] = "idle"
        /\ \A m \in Asks \ {n} : pc'[m] = pc[m] /\ client'[m] = client[m]
    BY <1>1, <1>9 DEF Lookup, clientVars
  <2> QED
    BY <1>2, <2>1
<1>10. ASSUME NEW n \in Asks,
              \/ Spawn(n) \/ SpawnUnwritten(n) \/ SpawnFails(n) \/ Initialized(n)
              \/ InitializeFails(n) \/ InitializeTimesOut(n) \/ Unpool(n)
              \/ LockAndFail(n) \/ Drop(n) \/ Kill(n)
       PROVE  SeenHasText'
  <2>1. /\ UNCHANGED <<touched, text, seenText, client>>
        /\ pc[n] # "session/prompt"
        /\ \A m \in Asks \ {n} : pc'[m] = pc[m]
    BY <1>1, <1>10
       DEF Spawn, SpawnUnwritten, SpawnFails, Initialized, InitializeFails,
           InitializeTimesOut, Unpool, LockAndFail, Drop, Kill, clientVars
  <2> QED
    BY <1>2, <2>1
<1>11. ASSUME NEW n \in Asks, SeeText(n) PROVE SeenHasText'
  <2>1. /\ pc[n] = "session/prompt" /\ client[n] \in touched
        /\ touched' = touched \ {client[n]} /\ seenText' = seenText \cup {n}
        /\ UNCHANGED <<pc, client, text>>
    BY <1>11 DEF SeeText
  <2> QED
    BY <2>1
<1>12. ASSUME NEW c \in Asks, NEW call \in open[c], ReadText(c, call)
       PROVE  SeenHasText'
  <2>1. /\ text' = [text EXCEPT ![c] = @ \cup {call[1]}]
        /\ touched' = touched \cup {c} /\ UNCHANGED <<pc, client, seenText>>
    BY <1>12 DEF ReadText, askVars
  <2>2. \A d \in Asks : text[d] \subseteq text'[d]
    BY <1>1, <2>1
  <2>3. text'[c] # {}
    BY <1>1, <2>1
  <2> QED
    BY <1>1, <2>1, <2>2, <2>3
<1>13. ASSUME UNCHANGED <<touched, text, seenText, pc, client>>
       PROVE  SeenHasText'
  BY <1>2, <1>13
<1>14. ASSUME NEW n \in Asks, Deadline(n) \/ CancelContext(n)
       PROVE  SeenHasText'
  BY <1>13, <1>14 DEF Deadline, CancelContext, clientVars, askVars
<1>15. ASSUME NEW c \in Asks,
              \/ \E call \in open[c] : ReadResponse(c, call)
              \/ Crash(c) \/ ClientSteps(c)
       PROVE  SeenHasText'
  BY <1>13, <1>15
     DEF ReadResponse, Crash, ClientSteps, KillByContext, Reap, CloseStop,
         clientVars, askVars
<1>16. CASE CloseTake \/ Finished \/ UNCHANGED vars
  BY <1>13, <1>16 DEF CloseTake, Finished, vars, clientVars, askVars
<1> QED
  BY <1>6, <1>7, <1>8, <1>9, <1>10, <1>11, <1>12, <1>14, <1>15, <1>16
     DEF Next, AskSteps

(* What the service rests on. *)
Served ==
    /\ Typed /\ Isolated /\ OneConversation /\ Awaited /\ Dropped /\ Heard
    /\ Launched /\ SeenHasText

LEMMA ServedAlways == Spec => []Served
<1>1. Init => Launched /\ SeenHasText
  BY DEF Init, Launched, Unlaunched, Conversing, SeenHasText
<1> QED
  BY <1>1, TypedInit, TypedNext, IsolatedInit, IsolatedNext,
     OneConversationInit, OneConversationNext, AwaitedInit, AwaitedNext,
     DroppedInit, DroppedNext, HeardInit, HeardNext, LaunchedNext, SeenNext, PTL
     DEF Spec, Served

Phases == [n \in Asks |-> Phase(pc[n])]

LEMMA PhaseSteps ==
  ASSUME Typed, NEW n \in Asks, NEW where \in PC, pc' = [pc EXCEPT ![n] = where]
  PROVE  /\ Phases' = [Phases EXCEPT ![n] = Phase(where)]
         /\ Phases[n] = Phase(pc[n])
  BY DEF Typed, TypeOK, Phases

(* Every step of Acp is a step of the service or changes nothing there.    *)
LEMMA ServiceStep == Served /\ Served' /\ [Next]_vars => [Promise!Next]_(Promise!vars)
<1> SUFFICES ASSUME Served, Served', [Next]_vars
             PROVE  Promise!Next \/ UNCHANGED Promise!vars
  OBVIOUS
<1> DEFINE Same == UNCHANGED <<Phases, key, client, Ended, idled, reply>>
           Step(n) == \/ Promise!Admit(n) \/ Promise!Begin(n) \/ Promise!Answer(n)
                      \/ Promise!GiveUp(n) \/ Promise!Fail(n) \/ Promise!End(n)
<1>1. SUFFICES Same \/ \E n \in Asks : Step(n)
  BY DEF Promise!Next, Promise!vars, Phases
<1>2. /\ Typed /\ pc \in [Asks -> PC] /\ client \in [Asks -> Asks \cup {None}]
      /\ isRunning \subseteq Asks /\ reply \in [Asks -> SUBSET Asks]
      /\ proc \in [Asks -> {"none", "alive", "dying", "gone"}]
      /\ key \in [Asks -> Keys] /\ pool \in [Keys -> Asks \cup {None}]
      /\ \A n \in Asks : pc[n] # "idle" => client[n] \in Asks
  BY DEF Served, Typed, TypeOK, HasClient
<1>3. Promise!OfFailed = {client[m] : m \in {l \in Asks : pc[l] = "failed"}}
  <2>1. \A l \in Asks : Phases[l] = "failed" <=> pc[l] = "failed"
    BY <1>2 DEF Phases, Phase, PC, Waiting
  <2> QED
    BY <2>1 DEF Promise!OfFailed, Phases
<1> HIDE DEF Same, Step
(* The steps by kind: *)
<1>4. ASSUME UNCHANGED <<pc, key, client, proc, isRunning, idled, reply>>
      PROVE  Same
  BY <1>4 DEF Same, Phases, Ended
<1>5. ASSUME NEW n \in Asks, NEW from \in PC, NEW where \in PC, pc[n] = from,
             pc' = [pc EXCEPT ![n] = where]
      PROVE  Promise!Goto(n, Phase(from), Phase(where))
  BY <1>2, <1>5, PhaseSteps DEF Promise!Goto, Phases
<1>6. ASSUME NEW n \in Asks, NEW where \in PC, pc' = [pc EXCEPT ![n] = where],
             Phase(where) = Phase(pc[n])
      PROVE  Phases' = Phases
  BY <1>2, <1>6, PhaseSteps DEF Phases
<1>7. ASSUME NEW n \in Asks, Lookup(n) PROVE Step(n)
  <2>1. /\ pc[n] = "idle" /\ key[n] \in Keys
        /\ UNCHANGED <<key, proc, isRunning, idled, reply>>
    BY <1>2, <1>7 DEF Lookup, clientVars
  <2>2. Ended' = Ended
    BY <2>1 DEF Ended
  <2>3. PICK p \in Asks :
            /\ client' = [client EXCEPT ![n] = p]
            /\ \/ p = n /\ pc' = [pc EXCEPT ![n] = "spawn"]
               \/ /\ p = pool[key[n]] /\ p \in isRunning
                  /\ pc' = [pc EXCEPT ![n] = "lock"]
    BY <1>2, <1>7 DEF Lookup
  <2>4. Promise!Goto(n, "idle", "waiting")
    BY <1>5, <2>1, <2>3 DEF Phase, PC, Waiting
  <2>5. p \notin Ended
    BY <2>1, <2>3 DEF Served, Launched, Unlaunched, Ended
  <2>6. ASSUME NEW m \in Asks, pc[m] = "failed" PROVE client[m] # p
    <3>1. CASE p = n
      BY <2>1, <3>1, NoneAssumption DEF Served, Dropped, UsedHasBegun
    <3>2. CASE p = pool[key[n]]
      BY <2>1, <2>6, <3>2 DEF Served, Dropped, LeftNotPooled
    <3> QED
      BY <2>3, <3>1, <3>2
  <2>7. key[p] = key[n]
    <3>1. CASE p = pool[key[n]]
      BY <2>1, <2>3, <3>1, NoneAssumption DEF Served, Isolated, Pooled
    <3> QED
      BY <2>3, <3>1
  <2>8. p \in Asks \ (Ended \cup Promise!OfFailed)
    BY <1>3, <2>5, <2>6
  <2> QED
    BY <2>1, <2>2, <2>3, <2>4, <2>7, <2>8 DEF Step, Promise!Admit
<1>8. ASSUME NEW n \in Asks, LockAndCall(n) PROVE Step(n)
  <2>1. /\ pc[n] = "lock" /\ askMu[client[n]] = None /\ client[n] \in isRunning
        /\ UNCHANGED <<key, client, proc, isRunning, idled, reply>>
        /\ \E where \in Conversing : pc' = [pc EXCEPT ![n] = where]
    BY <1>2, <1>8 DEF LockAndCall, BeginPrompt, Written, Conversing
  <2>2. Promise!Goto(n, "waiting", "talking")
    BY <1>5, <2>1 DEF Phase, PC, Waiting, Conversing
  <2>3. Ended' = Ended /\ client[n] \notin Ended
    BY <2>1 DEF Ended
  <2>4. ASSUME NEW m \in Asks, Phases[m] = "talking" PROVE client[m] # client[n]
    <3>1. pc[m] \in Conversing
      BY <1>2, <2>4 DEF Phases, Phase, PC, Waiting, Conversing
    <3> QED
      BY <2>1, <3>1, NoneAssumption DEF Served, OneConversation, Conversing
  <2> QED
    BY <2>1, <2>2, <2>3, <2>4 DEF Step, Promise!Begin, Phases
<1>9. ASSUME NEW n \in Asks, PromptAnswered(n) \/ PromptIdles(n) PROVE Step(n)
  <2>1. /\ pc[n] = "session/prompt" /\ pc' = [pc EXCEPT ![n] = "done"]
        /\ UNCHANGED <<key, client, proc, isRunning>>
        /\ idled' \in {idled, idled \cup {n}}
    BY <1>9 DEF PromptAnswered, PromptIdles, Leave
  <2>2. Promise!Goto(n, "talking", "done")
    BY <1>5, <2>1 DEF Phase, PC, Waiting
  <2>3. \E t : t # {} /\ reply' = [reply EXCEPT ![n] = t]
    <3>1. CASE PromptAnswered(n)
      <4>1. reply' = [reply EXCEPT ![n] = IF text[client[n]] = {} THEN {n}
                                          ELSE text[client[n]]]
        BY <3>1 DEF PromptAnswered
      <4> QED
        BY <4>1
    <3>2. CASE PromptIdles(n)
      <4>1. n \in seenText /\ reply' = [reply EXCEPT ![n] = text[client[n]]]
        BY <3>2 DEF PromptIdles
      <4>2. text[client[n]] # {}
        BY <4>1 DEF Served, SeenHasText
      <4> QED
        BY <4>1, <4>2
    <3> QED
      BY <1>9, <3>1, <3>2
  <2>4. PICK t : t # {} /\ reply' = [reply EXCEPT ![n] = t]
    BY <2>3
  <2>5. t \subseteq {n} \cup idled'
    <3>1. reply'[n] = t
      BY <1>2, <2>4
    <3> QED
      BY <3>1 DEF Served, Heard, ForeignTextOnlyAfterIdle
  <2>6. Promise!TakeReply(n)
    BY <2>4, <2>5 DEF Promise!TakeReply
  <2>7. Ended' = Ended
    BY <2>1 DEF Ended
  <2> QED
    BY <2>1, <2>2, <2>6, <2>7 DEF Step, Promise!Answer
<1>10. ASSUME NEW C \in SUBSET Asks, StopClients(C)
       PROVE  Ended' = Ended \cup {c \in C : proc[c] # "none"}
  BY <1>2, <1>10 DEF StopClients, Ended
<1>11. ASSUME NEW n \in Asks,
              \/ InitializeTimesOut(n) \/ SpawnFails(n) \/ InitializeFails(n)
              \/ LockAndFail(n) \/ AskFails(n) \/ AskTimesOut(n)
       PROVE  Step(n)
  <2>1. /\ UNCHANGED <<key, client, idled, reply>>
        /\ \E where \in {"unpool", "drop"} : pc' = [pc EXCEPT ![n] = where]
        /\ pc[n] \in {"spawn", "initialize", "lock"} \cup Conversing
    BY <1>11
       DEF InitializeTimesOut, SpawnFails, InitializeFails, LockAndFail, AskFails,
           AskTimesOut, Leave, Conversing
  <2>2. \/ Promise!Goto(n, "waiting", "failing")
        \/ Promise!Goto(n, "talking", "failing")
    BY <1>5, <2>1 DEF Phase, PC, Waiting, Conversing
  <2>3. Ended' \in {Ended, Ended \cup {client[n]}}
    <3>1. CASE UNCHANGED <<proc, isRunning>>
      BY <3>1 DEF Ended
    <3>2. CASE StopClients({client[n]}) /\ client[n] \in Asks
      <4>1. {c \in {client[n]} : proc[c] # "none"} \in {{}, {client[n]}}
        OBVIOUS
      <4> QED
        BY <1>10, <3>2, <4>1
    <3> QED
      BY <1>2, <1>11, <2>1, <3>1, <3>2
         DEF InitializeTimesOut, SpawnFails, InitializeFails, LockAndFail,
             AskFails, AskTimesOut, clientVars, Served, Awaited, OwnClient,
             Conversing
  <2> QED
    BY <2>1, <2>2, <2>3 DEF Step, Promise!GiveUp
<1>12. ASSUME NEW n \in Asks, SpawnUnwritten(n) PROVE Step(n)
  <2>1. /\ pc[n] = "spawn" /\ pc' = [pc EXCEPT ![n] = "unpool"]
        /\ UNCHANGED <<key, client, idled, reply>>
        /\ isRunning' = isRunning \cup {n}
        /\ proc' = [proc EXCEPT ![n] = "dying"]
    BY <1>12 DEF SpawnUnwritten
  <2>2. Promise!Goto(n, "waiting", "failing")
    BY <1>5, <2>1 DEF Phase, PC, Waiting
  <2>3. Ended' = Ended
    BY <1>2, <2>1 DEF Ended, Served, Launched, Unlaunched
  <2> QED
    BY <2>1, <2>2, <2>3 DEF Step, Promise!GiveUp
<1>13. ASSUME NEW n \in Asks, Unpool(n) PROVE Step(n)
  <2>1. /\ pc[n] = "unpool" /\ pc' = [pc EXCEPT ![n] = "failed"]
        /\ UNCHANGED <<key, client, proc, isRunning, idled, reply>>
    BY <1>13 DEF Unpool, clientVars
  <2>2. Promise!Goto(n, "failing", "failed")
    BY <1>5, <2>1 DEF Phase, PC, Waiting
  <2>3. Ended' = Ended
    BY <2>1 DEF Ended
  <2>4. client[n] = n
    BY <2>1 DEF Served, Awaited, OwnClient
  <2> QED
    BY <2>1, <2>2, <2>3, <2>4 DEF Step, Promise!Fail
<1>14. ASSUME NEW n \in Asks, Kill(n) PROVE Step(n)
  <2>1. /\ pc[n] = "kill" /\ pc' = [pc EXCEPT ![n] = "failed"]
        /\ UNCHANGED <<key, client, idled, reply>>
        /\ StopClients({client[n]}) /\ client[n] \in Asks
    BY <1>2, <1>14 DEF Kill
  <2>2. Promise!Goto(n, "failing", "failed")
    BY <1>5, <2>1 DEF Phase, PC, Waiting
  <2>3. Ended' = Ended \cup {client[n]}
    <3>1. proc[client[n]] # "none"
      BY <2>1 DEF Served, Launched
    <3>2. {c \in {client[n]} : proc[c] # "none"} = {client[n]}
      BY <3>1
    <3> QED
      BY <1>10, <2>1, <3>2
  <2> QED
    BY <2>1, <2>2, <2>3 DEF Step, Promise!Fail
<1>15. ASSUME NEW n \in Asks, Spawn(n) PROVE Same
  <2>1. /\ pc[n] = "spawn" /\ pc' = [pc EXCEPT ![n] = "initialize"]
        /\ UNCHANGED <<key, client, idled, reply>>
        /\ isRunning' = isRunning \cup {n}
        /\ proc' = [proc EXCEPT ![n] = "alive"]
    BY <1>15 DEF Spawn
  <2>2. Phases' = Phases
    BY <1>6, <2>1 DEF Phase, PC, Waiting
  <2>3. Ended' = Ended
    BY <1>2, <2>1 DEF Ended, Served, Launched, Unlaunched
  <2> QED
    BY <2>1, <2>2, <2>3 DEF Same
<1>16. ASSUME NEW n \in Asks, Initialized(n) \/ SessionCreated(n) \/ Drop(n)
       PROVE  Same
  <2>1. /\ UNCHANGED <<key, client, proc, isRunning, idled, reply>>
        /\ \E where \in PC : /\ pc' = [pc EXCEPT ![n] = where]
                             /\ Phase(where) = Phase(pc[n])
    BY <1>16
       DEF Initialized, SessionCreated, BeginPrompt, Written, Drop, clientVars,
           Phase, PC, Waiting
  <2>2. Phases' = Phases
    BY <1>6, <2>1
  <2> QED
    BY <2>1, <2>2 DEF Same, Ended
<1>17. ASSUME NEW n \in Asks, SeeText(n) \/ Deadline(n) \/ CancelContext(n)
       PROVE  Same
  BY <1>4, <1>17 DEF SeeText, Deadline, CancelContext, clientVars, askVars
<1>18. ASSUME NEW c \in Asks,
              \E call \in open[c] : ReadResponse(c, call) \/ ReadText(c, call)
       PROVE  Same
  BY <1>4, <1>18 DEF ReadResponse, ReadText, askVars
<1>19. ASSUME NEW c \in Asks, Crash(c) \/ ClientSteps(c)
       PROVE  Same \/ Step(c)
  <2>1. UNCHANGED <<pc, key, client, idled, reply>>
    BY <1>19 DEF Crash, ClientSteps, KillByContext, Reap, CloseStop, askVars
  <2>2. Phases' = Phases
    BY <2>1 DEF Phases
  <2>3. Ended' \in {Ended, Ended \cup {c}}
    <3>1. CASE Crash(c) \/ KillByContext(c)
      BY <1>2, <3>1 DEF Crash, KillByContext, Ended
    <3>2. CASE Reap(c)
      BY <1>2, <3>2 DEF Reap, Ended
    <3>3. CASE CloseStop(c)
      <4>1. {d \in {c} : proc[d] # "none"} \in {{}, {c}}
        OBVIOUS
      <4> QED
        BY <1>10, <3>3, <4>1 DEF CloseStop
    <3> QED
      BY <1>19, <3>1, <3>2, <3>3 DEF ClientSteps
  <2> QED
    BY <2>1, <2>2, <2>3 DEF Same, Step, Promise!End, Phases
<1>20. CASE CloseTake \/ Finished \/ UNCHANGED vars
  BY <1>4, <1>20 DEF CloseTake, Finished, vars, clientVars, askVars
<1> QED
  BY <1>7, <1>8, <1>9, <1>11, <1>12, <1>13, <1>14, <1>15, <1>16, <1>17, <1>18,
     <1>19, <1>20 DEF Next, AskSteps

(* The persistent backend is the service that HermesService describes: its *)
(* pool, locks, pending calls, idle wait and error paths show only as the  *)
(* steps allowed there.                                                    *)
THEOREM KeepsItsPromise == Spec => ImplementsHermesService
<1>1. Init => Promise!Init
  BY DEF Init, Promise!Init, Phase, Ended
<1> QED
  BY <1>1, ServedAlways, ServiceStep, PTL
     DEF Spec, ImplementsHermesService, Promise!Spec
=============================================================================
