------------------------------ MODULE Sessions ------------------------------
(***************************************************************************)
(* Hermes sessions: state.Store and its file (internal/state/session.go),  *)
(* the handlers that resume and record sessions (runWithSession), the      *)
(* admin commands that reset them (saveRuntimeConfigAndResetSessions) and  *)
(* the operator's "set", which like them replaces the whole store          *)
(* (UpdateConfig), internal/bridge/service.go.                             *)
(*                                                                         *)
(* A store is an object: s.sessions refers to the one in service, and a    *)
(* handler goes on using the one it captured.  A Hermes session id is a    *)
(* number, 0 for none.  Every change of a store is written to the one      *)
(* sessions.json, which os.WriteFile truncates first.  I/O errors are left *)
(* out, crashes are not.                                                   *)
(***************************************************************************)
EXTENDS Naturals, FiniteSets

CONSTANTS
    Workers,     \* handler goroutines
    Keys,        \* session keys
    MaxTurns,    \* runtime.max_turns
    MaxStores,   \* bound: stores made between two program starts
    MaxIds,      \* bound: Hermes sessions ever created
    MaxResets,   \* bound: admin commands that change the configuration
    MaxSets,     \* bound: the operator's "set" commands
    MaxCrashes   \* bound: crashes of the program

ASSUME BoundAssumption ==
    /\ MaxTurns \in Nat \ {0} /\ MaxStores \in Nat \ {0}
    /\ {MaxIds, MaxResets, MaxSets, MaxCrashes} \subseteq Nat
    /\ Keys # {}

VARIABLES
    stores,      \* the items of each store object
    made,        \* store objects made since the program started
    sessions,    \* s.sessions
    locked,      \* who is inside a store's mutex, saving it
    file,        \* sessions.json
    pc,          \* where each handler is
    store,       \* the store it captured
    sessionKey,  \* the key of its message, whose session mutex it holds
    session,     \* the session it read
    since,       \* resets announced when it took its snapshot
    set,         \* where the operator's "set" is
    setStore,    \* the store that its UpdateConfig has loaded
    resets,      \* resets announced to the admin
    cleared,     \* resets made
    ids,         \* Hermes sessions created
    bornIn,      \* resets made when each was created
    owner,       \* the key each was created for
    uses,        \* successful turns of each
    overlapped,  \* an update of the configuration overlapped other work
    started, sets, crashes   \* counters for the bounds

handlerVars == <<pc, store, sessionKey, session, since>>
setVars == <<set, setStore, sets>>
ghostVars == <<resets, cleared, ids, bornIn, owner, uses>>
vars == <<stores, made, sessions, locked, file, handlerVars, setVars,
          ghostVars, overlapped, started, crashes>>

Stores == 1 .. MaxStores
Ids == 1 .. MaxIds
Session == [id : 0 .. MaxIds, turns : 0 .. MaxTurns]
NoSession == [id |-> 0, turns |-> 0]
AnyKey == CHOOSE k \in Keys : TRUE
Empty == [k \in Keys |-> NoSession]
Torn == <<>>   \* a text that does not parse

(* Load: a file that does not parse is an error, which every caller        *)
(* ignores, and the store stays empty.                                     *)
Loaded == IF file = Torn THEN Empty ELSE file

Init ==
    /\ stores = [s \in Stores |-> Empty]
    /\ made = 1 /\ sessions = 1
    /\ locked = [s \in Stores |-> "free"]
    /\ file = Empty
    /\ pc = [w \in Workers |-> "idle"]
    /\ store = [w \in Workers |-> 1]
    /\ sessionKey = [w \in Workers |-> AnyKey]
    /\ session = [w \in Workers |-> NoSession]
    /\ since = [w \in Workers |-> 0]
    /\ set = "idle" /\ setStore = 1
    /\ resets = 0 /\ cleared = 0 /\ ids = 0
    /\ bornIn = [i \in Ids |-> 0]
    /\ owner = [i \in Ids |-> AnyKey]
    /\ uses = [i \in Ids |-> 0]
    /\ overlapped = FALSE
    /\ started = 0 /\ sets = 0 /\ crashes = 0

Move(w, from, to) == pc[w] = from /\ pc' = [pc EXCEPT ![w] = to]

(* The handler returns; its locals are gone. *)
Return(w) ==
    /\ pc' = [pc EXCEPT ![w] = "idle"]
    /\ store' = [store EXCEPT ![w] = 1]
    /\ sessionKey' = [sessionKey EXCEPT ![w] = AnyKey]
    /\ session' = [session EXCEPT ![w] = NoSession]
    /\ since' = [since EXCEPT ![w] = 0]

(* History only: an update of the configuration, from the load of its      *)
(* store to the moment it is in service (and emptied, for a reset), has    *)
(* overlapped the work of another handler or another update.               *)
AtWork(ws) == \E v \in ws : pc[v] \notin {"idle", "acked"}
Observe(overlap) == overlapped' = (overlapped \/ overlap)

-----------------------------------------------------------------------------
(* handleMessage of an ordinary message, runWithSession *)

(* The snapshot of s.sessions; the handler then waits for its session. *)
Snapshot(w, k) ==
    /\ Move(w, "idle", "lock")
    /\ store' = [store EXCEPT ![w] = sessions]
    /\ sessionKey' = [sessionKey EXCEPT ![w] = k]
    /\ since' = [since EXCEPT ![w] = resets]
    /\ Observe(set = "swap" \/ \E v \in Workers : pc[v] \in {"load", "swap"})
    /\ UNCHANGED <<stores, made, sessions, locked, file, session, setVars,
                   ghostVars, started, crashes>>

(* A faulty variant of LockFree: the mutex is not waited for, as when the  *)
(* map of mutexes does not outlive an update.                              *)
LockAlways(w) == TRUE

(* lockSession returns: no other handler is in this session. *)
LockFree(w) ==
    \A v \in Workers \ {w} :
        pc[v] \notin {"idle", "lock"} => sessionKey[v] # sessionKey[w]

(* The message is for Hermes. *)
LockSession(w) ==
    /\ Move(w, "lock", "get") /\ LockFree(w)
    /\ UNCHANGED <<stores, made, sessions, locked, file, store, sessionKey,
                   session, since, setVars, ghostVars, overlapped, started,
                   crashes>>

(* store.Get *)
Get(w) ==
    /\ Move(w, "get", "run")
    /\ locked[store[w]] = "free"
    /\ session' = [session EXCEPT ![w] = stores[store[w]][sessionKey[w]]]
    /\ UNCHANGED <<stores, made, sessions, locked, file, store, sessionKey,
                   since, setVars, ghostVars, overlapped, started, crashes>>

(* Hermes fails: nothing is recorded. *)
RunFails(w) ==
    /\ pc[w] = "run" /\ Return(w)
    /\ UNCHANGED <<stores, made, sessions, locked, file, setVars, ghostVars,
                   overlapped, started, crashes>>

(* Hermes answers in the session it was given.  Without one it creates     *)
(* one, or the routing model answers and the id stays empty.               *)
RunSucceeds(w) ==
    /\ Move(w, "run", "put")
    /\ \E id \in {session[w].id} \cup
                 (IF session[w].id = 0 /\ ids < MaxIds THEN {ids + 1} ELSE {}) :
         /\ session' = [session EXCEPT ![w] = [id |-> id, turns |-> @.turns + 1]]
         /\ IF id > ids
            THEN /\ ids' = id
                 /\ bornIn' = [bornIn EXCEPT ![id] = cleared]
                 /\ owner' = [owner EXCEPT ![id] = sessionKey[w]]
            ELSE UNCHANGED <<ids, bornIn, owner>>
         /\ uses' = IF id = 0 THEN uses ELSE [uses EXCEPT ![id] = @ + 1]
    /\ UNCHANGED <<stores, made, sessions, locked, file, store, sessionKey,
                   since, setVars, resets, cleared, overlapped, started,
                   crashes>>

(* A faulty variant of Kept: one turn too many. *)
KeptOneLonger(s) == IF s.turns > MaxTurns THEN NoSession ELSE s

(* What Put stores: a session that has had its turns starts afresh. *)
Kept(s) == IF s.turns >= MaxTurns THEN NoSession ELSE s

(* A faulty variant of Put: the key is that of another chat, as when it    *)
(* leaves out a part of platform, chat and user.                           *)
PutAnyKey(w) ==
    /\ Move(w, "put", "putSave")
    /\ locked[store[w]] = "free"
    /\ locked' = [locked EXCEPT ![store[w]] = "changed"]
    /\ \E k \in Keys : stores' = [stores EXCEPT ![store[w]][k] = Kept(session[w])]
    /\ UNCHANGED <<made, sessions, file, store, sessionKey, session, since,
                   setVars, ghostVars, overlapped, started, crashes>>

(* store.Put, under the store's mutex until the file is written. *)
Put(w) ==
    /\ Move(w, "put", "putSave")
    /\ locked[store[w]] = "free"
    /\ locked' = [locked EXCEPT ![store[w]] = "changed"]
    /\ stores' = [stores EXCEPT ![store[w]][sessionKey[w]] = Kept(session[w])]
    /\ UNCHANGED <<made, sessions, file, store, sessionKey, session, since,
                   setVars, ghostVars, overlapped, started, crashes>>

-----------------------------------------------------------------------------
(* An admin's /identity or /style, which reset the sessions, or /sandbox   *)
(* or /full, which do not.                                                 *)

(* The message is such a command; the text has been normalised and the     *)
(* configuration saved.                                                    *)
AdminStart(w) ==
    /\ Move(w, "lock", "load") /\ LockFree(w)
    /\ started < MaxResets /\ started' = started + 1
    /\ UNCHANGED <<stores, made, sessions, locked, file, store, sessionKey,
                   session, since, setVars, ghostVars, overlapped, crashes>>

(* UpdateConfig: NewStore and Load, outside s.mu. *)
MakeStore ==
    /\ made < MaxStores
    /\ made' = made + 1
    /\ stores' = [stores EXCEPT ![made + 1] = Loaded]

AdminLoad(w) ==
    /\ Move(w, "load", "swap")
    /\ MakeStore
    /\ store' = [store EXCEPT ![w] = made + 1]
    /\ Observe(set = "swap" \/ AtWork(Workers \ {w}))
    /\ UNCHANGED <<sessions, locked, file, sessionKey, session, since, setVars,
                   ghostVars, started, crashes>>

(* UpdateConfig: s.sessions = store, under s.mu; for /sandbox and /full    *)
(* that was all.                                                           *)
AdminSwap(w) ==
    /\ sessions' = store[w]
    /\ \/ /\ Move(w, "swap", "clear")
          /\ UNCHANGED <<store, sessionKey, session, since>>
       \/ pc[w] = "swap" /\ Return(w)
    /\ Observe(set = "swap" \/ AtWork(Workers \ {w}))
    /\ UNCHANGED <<stores, made, locked, file, setVars, ghostVars, started,
                   crashes>>

(* A faulty variant of AdminClear: the emptied store is not saved. *)
ClearUnsaved(w) ==
    /\ Move(w, "clear", "acked")
    /\ locked[sessions] = "free"
    /\ store' = [store EXCEPT ![w] = sessions]
    /\ stores' = [stores EXCEPT ![sessions] = Empty]
    /\ cleared' = cleared + 1
    /\ Observe(set = "swap" \/ AtWork(Workers \ {w}))
    /\ UNCHANGED <<made, sessions, locked, file, sessionKey, session, since,
                   setVars, resets, ids, bornIn, owner, uses, started,
                   crashes>>

(* store.Clear on the store in service. *)
AdminClear(w) ==
    /\ Move(w, "clear", "clearSave")
    /\ locked[sessions] = "free"
    /\ locked' = [locked EXCEPT ![sessions] = "changed"]
    /\ store' = [store EXCEPT ![w] = sessions]
    /\ stores' = [stores EXCEPT ![sessions] = Empty]
    /\ cleared' = cleared + 1
    /\ Observe(set = "swap" \/ AtWork(Workers \ {w}))
    /\ UNCHANGED <<made, sessions, file, sessionKey, session, since, setVars,
                   resets, ids, bornIn, owner, uses, started, crashes>>

(* The admin is told that the existing sessions were reset. *)
AdminAck(w) ==
    /\ pc[w] = "acked" /\ Return(w)
    /\ resets' = resets + 1
    /\ UNCHANGED <<stores, made, sessions, locked, file, setVars, cleared, ids,
                   bornIn, owner, uses, overlapped, started, crashes>>

-----------------------------------------------------------------------------
(* saveLocked: os.WriteFile truncates the file and then writes it. *)

Saving(w) == pc[w] \in {"putSave", "clearSave"}

Truncate(w) ==
    /\ Saving(w) /\ locked[store[w]] = "changed"
    /\ file' = Torn
    /\ locked' = [locked EXCEPT ![store[w]] = "truncated"]
    /\ UNCHANGED <<stores, made, sessions, handlerVars, setVars, ghostVars,
                   overlapped, started, crashes>>

(* A store that another one overtook between its two steps may leave a     *)
(* mixture of both texts behind.                                           *)
Write(w) ==
    /\ Saving(w) /\ locked[store[w]] \in {"truncated", "overtaken"}
    /\ \/ file' = stores[store[w]]
       \/ locked[store[w]] = "overtaken" /\ file' = Torn
    /\ locked' = [s \in Stores |->
                    IF s = store[w] THEN "free"
                    ELSE IF locked[s] = "truncated" THEN "overtaken"
                    ELSE locked[s]]
    /\ IF pc[w] = "putSave"
       THEN Return(w)
       ELSE /\ Move(w, "clearSave", "acked")
            /\ UNCHANGED <<store, sessionKey, session, since>>
    /\ UNCHANGED <<stores, made, sessions, setVars, ghostVars, overlapped,
                   started, crashes>>

-----------------------------------------------------------------------------
(* The operator's "set" ends with UpdateConfig; and the program crashes. *)

SetLoad ==
    /\ set = "idle" /\ sets < MaxSets
    /\ sets' = sets + 1
    /\ MakeStore
    /\ set' = "swap" /\ setStore' = made + 1
    /\ Observe(AtWork(Workers))
    /\ UNCHANGED <<sessions, locked, file, handlerVars, ghostVars, started,
                   crashes>>

SetSwap ==
    /\ set = "swap"
    /\ set' = "idle"
    /\ sessions' = setStore
    /\ Observe(AtWork(Workers))
    /\ UNCHANGED <<stores, made, locked, file, handlerVars, setStore, sets,
                   ghostVars, started, crashes>>

(* The program ends at any point and is started again: NewService loads. *)
Crash ==
    /\ crashes < MaxCrashes /\ crashes' = crashes + 1
    /\ stores' = [s \in Stores |-> IF s = 1 THEN Loaded ELSE Empty]
    /\ made' = 1 /\ sessions' = 1
    /\ locked' = [s \in Stores |-> "free"]
    /\ pc' = [w \in Workers |-> "idle"]
    /\ store' = [w \in Workers |-> 1]
    /\ sessionKey' = [w \in Workers |-> AnyKey]
    /\ session' = [w \in Workers |-> NoSession]
    /\ since' = [w \in Workers |-> 0]
    /\ set' = "idle" /\ setStore' = 1
    /\ UNCHANGED <<file, sets, ghostVars, overlapped, started>>

Next ==
    \/ \E w \in Workers :
          \/ \E k \in Keys : Snapshot(w, k)
          \/ LockSession(w) \/ AdminStart(w)
          \/ Get(w) \/ RunFails(w) \/ RunSucceeds(w) \/ Put(w)
          \/ AdminLoad(w) \/ AdminSwap(w) \/ AdminClear(w) \/ AdminAck(w)
          \/ Truncate(w) \/ Write(w)
    \/ SetLoad \/ SetSwap \/ Crash

Spec == Init /\ [][Next]_vars

-----------------------------------------------------------------------------
(* Properties. *)

TypeOK ==
    /\ stores \in [Stores -> [Keys -> Session]]
    /\ \A s \in Stores : \A k \in Keys : stores[s][k].turns < MaxTurns
    /\ made \in Stores /\ sessions \in 1 .. made
    /\ locked \in [Stores -> {"free", "changed", "truncated",
                            "overtaken"}]
    /\ file = Torn \/ file \in [Keys -> Session]
    /\ pc \in [Workers -> {"idle", "lock", "get", "run", "put", "putSave", "load",
                           "swap", "clear", "clearSave", "acked"}]
    /\ store \in [Workers -> 1 .. made]
    /\ session \in [Workers -> Session]

(* The admin is told that the existing sessions have been reset and that   *)
(* the new text holds from the next turn on: a message whose handling      *)
(* begins after that answer does not resume a session that existed when    *)
(* they were reset, not even after a crash.                                *)
ResetEffective ==
    \A w \in Workers :
        pc[w] = "run" /\ session[w].id # 0 => bornIn[session[w].id] >= since[w]

(* No Hermes session serves more turns than max_turns, but for those whose *)
(* count a crash lost before it was saved.                                 *)
UsesBounded == \A i \in Ids : uses[i] <= MaxTurns + crashes

(* When nobody is changing the sessions, those in service are those in     *)
(* sessions.json; a file that a crash left torn stands for no sessions.    *)
Quiet ==
    /\ set = "idle"
    /\ \A w \in Workers : pc[w] \in {"idle", "lock", "get", "run", "put"}
FileAgrees == Quiet => stores[sessions] = Loaded

(* The three hold with any number of handlers, a reset, a "set" and a      *)
(* crash, as long as no update of the configuration overlapped other work: *)
(* every loss comes from a store that was replaced under somebody's hands. *)
ResetEffectiveAlone == ~overlapped => ResetEffective
UsesBoundedAlone == ~overlapped => UsesBounded
FileAgreesAlone == ~overlapped => FileAgrees

(* A Hermes session belongs to one chat: it is never found, in any store or *)
(* in the file, under another key than the one it was created for.         *)
ChatsApart ==
    /\ \A s \in Stores : \A k \in Keys :
           stores[s][k].id # 0 => owner[stores[s][k].id] = k
    /\ file # Torn => \A k \in Keys : file[k].id # 0 => owner[file[k].id] = k

(* What the store promises, module SessionLedger: the sessions in service   *)
(* and the file, for as long as no update overlapped other work.           *)
Promise == INSTANCE SessionLedger WITH
    ledger <- IF overlapped THEN Empty ELSE stores[sessions],
    disk <- IF overlapped THEN Empty ELSE file,
    trusted <- ~overlapped

(* Sessions implements it: with any number of handlers, a turn is recorded *)
(* on top of exactly the session it resumed, none of two turns is lost and *)
(* a crash costs the turn or the reset that was being written, or what was *)
(* in the file.                                                            *)
ImplementsSessionLedger == Promise!Spec
=============================================================================
