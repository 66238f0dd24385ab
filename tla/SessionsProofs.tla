--------------------------- MODULE SessionsProofs ---------------------------
(***************************************************************************)
(* Theorems about Sessions for any number of handlers, chats, resets,      *)
(* "set" commands and crashes.                                             *)
(*                                                                         *)
(* TypeOK becomes inductive with the types of what it leaves out and with  *)
(* Resumable: a session about to get another turn has room for it.         *)
(* ChatsApart becomes inductive with Captured: what a handler read from a  *)
(* store, perhaps minutes ago, is its own chat's; and with the fact that   *)
(* an id in circulation has been given out, so that a new one is nobody's. *)
(* What holds while no update overlaps other work follows from Alone; the  *)
(* refinement of SessionLedger, in the last section, from Alone and        *)
(* Sequence: a session does not change between the moment a handler reads  *)
(* it and the one it records the turn.                                     *)
(***************************************************************************)
EXTENDS Sessions, FiniteSetTheorems, TLAPS

(* The types of the variables that TypeOK leaves out. *)
RestTyped ==
    /\ sessionKey \in [Workers -> Keys]
    /\ since \in [Workers -> Nat] /\ resets \in Nat
    /\ set \in {"idle", "swap"} /\ setStore \in 1 .. made
    /\ ids \in 0 .. MaxIds
    /\ owner \in [Ids -> Keys]

(* Sessions that are resumed, in a handler or in the file, have turns left. *)
Resumable ==
    /\ \A w \in Workers : pc[w] = "run" => session[w].turns < MaxTurns
    /\ file # Torn => \A k \in Keys : file[k].turns < MaxTurns

Typed == TypeOK /\ RestTyped /\ Resumable

LEMMA AnyKeyInKeys == AnyKey \in Keys
  BY BoundAssumption DEF AnyKey

LEMMA EmptyType == /\ NoSession \in Session /\ NoSession.turns = 0
                   /\ NoSession.id = 0
                   /\ Empty \in [Keys -> Session]
                   /\ \A k \in Keys : Empty[k] = NoSession
  BY BoundAssumption DEF NoSession, Session, Empty

(* What Load returns is well typed, whatever the file holds. *)
LEMMA LoadedType ==
    Typed => /\ Loaded \in [Keys -> Session]
             /\ \A k \in Keys : Loaded[k].turns < MaxTurns
  BY BoundAssumption, EmptyType DEF Typed, TypeOK, Resumable, Loaded

LEMMA TypedInit == Init => Typed
<1> SUFFICES ASSUME Init PROVE Typed
  OBVIOUS
<1> USE BoundAssumption, AnyKeyInKeys, EmptyType DEF Init
<1>1. TypeOK
  BY DEF TypeOK, Stores
<1>2. RestTyped
  BY DEF RestTyped, Ids
<1>3. Resumable
  BY DEF Resumable
<1> QED
  BY <1>1, <1>2, <1>3 DEF Typed

(* A new store is typed and its index is in range. *)
LEMMA MadeType ==
    Typed /\ MakeStore =>
        /\ made' \in Stores /\ made' = made + 1
        /\ stores' \in [Stores -> [Keys -> Session]]
        /\ \A s \in Stores : \A k \in Keys : stores'[s][k].turns < MaxTurns
  BY LoadedType, BoundAssumption DEF Typed, TypeOK, MakeStore, Stores

(* Nothing that a handler leaves behind is ill typed. *)
LEMMA ReturnType ==
    ASSUME Typed, NEW w \in Workers, Return(w)
    PROVE  /\ pc' = [pc EXCEPT ![w] = "idle"]
           /\ store' \in [Workers -> 1 .. made]
           /\ sessionKey' \in [Workers -> Keys]
           /\ session' \in [Workers -> Session]
           /\ since' \in [Workers -> Nat]
           /\ \A v \in Workers : v # w => session'[v] = session[v]
  BY AnyKeyInKeys, EmptyType, BoundAssumption
     DEF Typed, TypeOK, RestTyped, Return, Stores

LEMMA BoundTypes ==
    /\ MaxTurns \in Nat /\ MaxTurns > 0
    /\ MaxStores \in Nat /\ MaxStores > 0 /\ MaxIds \in Nat
  BY BoundAssumption

(* Every action keeps the types; only Put and the loads need an argument   *)
(* about turns.                                                            *)
LEMMA TypedNext == Typed /\ [Next]_vars => Typed'
<1> SUFFICES ASSUME Typed, [Next]_vars PROVE Typed'
  OBVIOUS
<1> USE BoundTypes, AnyKeyInKeys, EmptyType
    DEF Typed, TypeOK, RestTyped, Resumable, Stores, Ids,
        handlerVars, setVars, ghostVars
<1>1. ASSUME NEW w \in Workers, NEW k \in Keys, Snapshot(w, k) PROVE Typed'
  BY <1>1 DEF Snapshot, Move
<1>2. ASSUME NEW w \in Workers, LockSession(w) PROVE Typed'
  BY <1>2 DEF LockSession, Move
<1>3. ASSUME NEW w \in Workers, AdminStart(w) PROVE Typed'
  BY <1>3 DEF AdminStart, Move
<1>4. ASSUME NEW w \in Workers, Get(w) PROVE Typed'
  <2>1. /\ stores[store[w]][sessionKey[w]] \in Session
        /\ stores[store[w]][sessionKey[w]].turns < MaxTurns
    OBVIOUS
  <2> QED
    BY <1>4, <2>1 DEF Get, Move
<1>5. ASSUME NEW w \in Workers, RunFails(w) PROVE Typed'
  BY <1>5 DEF RunFails, Return
<1>6. ASSUME NEW w \in Workers, RunSucceeds(w) PROVE Typed'
  <2>1. PICK id \in {session[w].id} \cup
                 (IF session[w].id = 0 /\ ids < MaxIds THEN {ids + 1} ELSE {}) :
         /\ session' = [session EXCEPT ![w] = [id |-> id, turns |-> @.turns + 1]]
         /\ IF id > ids
            THEN /\ ids' = id
                 /\ bornIn' = [bornIn EXCEPT ![id] = cleared]
                 /\ owner' = [owner EXCEPT ![id] = sessionKey[w]]
            ELSE UNCHANGED <<ids, bornIn, owner>>
    BY <1>6 DEF RunSucceeds
  <2>2. /\ pc[w] = "run" /\ pc' = [pc EXCEPT ![w] = "put"]
        /\ UNCHANGED <<stores, made, sessions, locked, file, store, sessionKey,
                       since, setVars, resets, cleared, started, crashes>>
    BY <1>6 DEF RunSucceeds, Move
  <2>3. id \in 0 .. MaxIds /\ session[w].turns + 1 \in 0 .. MaxTurns
    <3>1. session[w].id \in 0 .. MaxIds /\ session[w].turns \in 0 .. MaxTurns
      BY DEF Session
    <3>2. session[w].turns < MaxTurns
      BY <2>2
    <3>3. id = session[w].id \/ (ids < MaxIds /\ id = ids + 1)
      OBVIOUS
    <3>4. ids \in Nat /\ ids < MaxIds => ids + 1 \in 0 .. MaxIds
      OBVIOUS
    <3>5. id \in 0 .. MaxIds
      BY <3>1, <3>3, <3>4
    <3>6. MaxTurns \in Nat
      OBVIOUS
    <3> HIDE DEF Typed, TypeOK
    <3> QED
      BY <3>1, <3>2, <3>5, <3>6
  <2>4. session' \in [Workers -> Session]
    BY <2>1, <2>3 DEF Session
  <2>5. ids' \in 0 .. MaxIds /\ owner' \in [Ids -> Keys]
    <3>1. CASE id > ids
      <4>1. id \in Ids /\ sessionKey[w] \in Keys
        BY <2>3, <3>1
      <4> QED
        BY <2>1, <2>3, <3>1, <4>1
    <3>2. CASE ~(id > ids)
      BY <2>1, <3>2
    <3> QED
      BY <3>1, <3>2
  <2> QED
    BY <2>1, <2>2, <2>4, <2>5
<1>7. ASSUME NEW w \in Workers, Put(w) PROVE Typed'
  <2>1. Kept(session[w]) \in Session /\ Kept(session[w]).turns < MaxTurns
    <3>1. session[w] \in Session
      OBVIOUS
    <3>2. session[w].turns \in 0 .. MaxTurns
      BY <3>1 DEF Session
    <3> QED
      BY <3>1, <3>2 DEF Kept
  <2> QED
    BY <1>7, <2>1 DEF Put, Move
<1>8. ASSUME NEW w \in Workers, AdminLoad(w) PROVE Typed'
  <2>1. /\ made' \in Stores /\ made' = made + 1
        /\ stores' \in [Stores -> [Keys -> Session]]
        /\ \A s \in Stores : \A k \in Keys : stores'[s][k].turns < MaxTurns
    BY <1>8, MadeType DEF AdminLoad
  <2>2. /\ pc' = [pc EXCEPT ![w] = "swap"]
        /\ store' = [store EXCEPT ![w] = made + 1]
        /\ UNCHANGED <<sessions, locked, file, sessionKey, session, since,
                       setVars, ghostVars>>
    BY <1>8 DEF AdminLoad, Move
  <2>3. store' \in [Workers -> 1 .. made']
    BY <2>1, <2>2
  <2>4. sessions' \in 1 .. made' /\ setStore' \in 1 .. made'
    BY <2>1, <2>2
  <2> QED
    BY <2>1, <2>2, <2>3, <2>4
<1>9. ASSUME NEW w \in Workers, AdminSwap(w) PROVE Typed'
  <2>1. /\ sessions' = store[w]
        /\ UNCHANGED <<stores, made, locked, file, setVars, ghostVars>>
    BY <1>9 DEF AdminSwap
  <2>2. CASE Move(w, "swap", "clear") /\ UNCHANGED <<store, sessionKey, session, since>>
    BY <2>1, <2>2 DEF Move
  <2>3. CASE Return(w)
    BY <2>1, <2>3, ReturnType
  <2> QED
    BY <1>9, <2>2, <2>3 DEF AdminSwap
<1>10. ASSUME NEW w \in Workers, AdminClear(w) PROVE Typed'
  BY <1>10 DEF AdminClear, Move
<1>11. ASSUME NEW w \in Workers, AdminAck(w) PROVE Typed'
  BY <1>11 DEF AdminAck, Return
<1>12. ASSUME NEW w \in Workers, Truncate(w) PROVE Typed'
  BY <1>12 DEF Truncate, Torn
<1>13. ASSUME NEW w \in Workers, Write(w) PROVE Typed'
  <2>1. file' = stores[store[w]] \/ file' = Torn
    BY <1>13 DEF Write
  <2>2. file' = Torn \/ /\ file' \in [Keys -> Session]
                        /\ \A k \in Keys : file'[k].turns < MaxTurns
    BY <2>1
  <2>3. locked' \in [Stores -> {"free", "changed", "truncated", "overtaken"}]
    BY <1>13 DEF Write
  <2>4. UNCHANGED <<stores, made, sessions, setVars, ghostVars>>
    BY <1>13 DEF Write
  <2>5. CASE pc[w] = "putSave"
    <3>1. Return(w)
      BY <1>13, <2>5 DEF Write
    <3> QED
      BY <2>2, <2>3, <2>4, <3>1, ReturnType
  <2>6. CASE pc[w] = "clearSave"
    BY <1>13, <2>2, <2>3, <2>4, <2>6 DEF Write, Move
  <2> QED
    BY <1>13, <2>5, <2>6 DEF Write, Saving
<1>14. CASE SetLoad
  <2>1. /\ made' \in Stores /\ made' = made + 1
        /\ stores' \in [Stores -> [Keys -> Session]]
        /\ \A s \in Stores : \A k \in Keys : stores'[s][k].turns < MaxTurns
    BY <1>14, MadeType DEF SetLoad
  <2>2. /\ set' = "swap" /\ setStore' = made + 1
        /\ UNCHANGED <<sessions, locked, file, handlerVars, ghostVars>>
    BY <1>14 DEF SetLoad
  <2>3. store' \in [Workers -> 1 .. made']
    BY <2>1, <2>2
  <2> QED
    BY <2>1, <2>2, <2>3
<1>15. CASE SetSwap
  BY <1>15 DEF SetSwap
<1>16. CASE Crash
  BY <1>16, LoadedType DEF Crash
<1>17. CASE UNCHANGED vars
  BY <1>17 DEF vars
<1> QED
  BY <1>1, <1>2, <1>3, <1>4, <1>5, <1>6, <1>7, <1>8, <1>9, <1>10, <1>11,
     <1>12, <1>13, <1>14, <1>15, <1>16, <1>17 DEF Next

LEMMA TypedAlways == Spec => []Typed
<1>1. Typed /\ [Next]_vars => Typed'
  BY TypedNext
<1> QED
  BY <1>1, TypedInit, PTL DEF Spec

(* Stores, file and handlers keep well-formed sessions, and none that a    *)
(* store holds has used up its turns.                                      *)
THEOREM TypeCorrect == Spec => []TypeOK
<1>1. Typed => TypeOK
  BY DEF Typed
<1> QED
  BY <1>1, TypedAlways, PTL

-----------------------------------------------------------------------------
(* Chats stay apart. *)

(* A session id found under k was given out, and for k. *)
Own(s, k) == s.id # 0 => s.id \in 1 .. ids /\ owner[s.id] = k

(* So it is for what a handler has read and not yet put back. *)
Captured ==
    \A w \in Workers :
        pc[w] \in {"run", "put"} => Own(session[w], sessionKey[w])

Apart ==
    /\ \A s \in Stores : \A k \in Keys : Own(stores[s][k], k)
    /\ file # Torn => \A k \in Keys : Own(file[k], k)
    /\ Captured

LEMMA ApartInit == Init => Apart
  BY EmptyType DEF Init, Apart, Captured, Own

LEMMA LoadedApart == Typed /\ Apart => \A k \in Keys : Own(Loaded[k], k)
  BY EmptyType DEF Apart, Own, Loaded

(* A new store only holds what the file held. *)
LEMMA MadeApart ==
    ASSUME Typed, Apart, MakeStore, UNCHANGED <<ids, owner>>
    PROVE  \A s \in Stores : \A k \in Keys : Own(stores[s][k], k)'
<1>1. stores' = [stores EXCEPT ![made + 1] = Loaded]
  BY DEF MakeStore
<1>2. stores \in [Stores -> [Keys -> Session]]
  BY DEF Typed, TypeOK
<1>3. \A s \in Stores : stores'[s] = stores[s] \/ stores'[s] = Loaded
  BY <1>1, <1>2
<1> QED
  BY <1>3, LoadedApart DEF Apart, Own

(* Who returns has nothing left to put back. *)
LEMMA ReturnCaptured ==
    ASSUME Typed, Captured, NEW w \in Workers, Return(w), UNCHANGED ghostVars
    PROVE  Captured'
<1>1. \A v \in Workers : pc'[v] \in {"run", "put"} =>
          /\ v # w /\ pc'[v] = pc[v] /\ session'[v] = session[v]
          /\ sessionKey'[v] = sessionKey[v]
  BY DEF Return, Typed, TypeOK, RestTyped
<1> QED
  BY <1>1 DEF Captured, Own, ghostVars

(* The interesting steps are Hermes creating a session, whose id nobody    *)
(* holds, and the ways from a store to a handler, back, and to the file.   *)
LEMMA ApartNext == Typed /\ Apart /\ [Next]_vars => Apart'
<1> SUFFICES ASSUME Typed, Apart, [Next]_vars PROVE Apart'
  OBVIOUS
<1>t. /\ stores \in [Stores -> [Keys -> Session]]
      /\ pc \in [Workers -> {"idle", "lock", "get", "run", "put", "putSave",
                             "load", "swap", "clear", "clearSave", "acked"}]
      /\ session \in [Workers -> Session] /\ sessionKey \in [Workers -> Keys]
      /\ sessions \in Stores /\ store \in [Workers -> Stores]
      /\ ids \in 0 .. MaxIds /\ owner \in [Ids -> Keys]
      /\ MaxIds \in Nat
  BY BoundTypes DEF Typed, TypeOK, RestTyped, Stores
<1>1. ASSUME NEW w \in Workers, NEW k \in Keys, Snapshot(w, k) PROVE Apart'
  BY <1>1, <1>t DEF Snapshot, Move, Apart, Captured, Own, ghostVars
<1>2. ASSUME NEW w \in Workers, LockSession(w) \/ AdminStart(w) PROVE Apart'
  BY <1>2, <1>t DEF LockSession, AdminStart, Move, Apart, Captured, Own,
                    ghostVars
<1>3. ASSUME NEW w \in Workers, Get(w) PROVE Apart'
  <2>1. /\ pc' = [pc EXCEPT ![w] = "run"]
        /\ session' = [session EXCEPT ![w] = stores[store[w]][sessionKey[w]]]
        /\ UNCHANGED <<stores, file, sessionKey, ids, owner>>
    BY <1>3 DEF Get, Move, ghostVars
  <2>2. Own(stores[store[w]][sessionKey[w]], sessionKey[w])
    BY <1>t DEF Apart
  <2> QED
    BY <1>t, <2>1, <2>2 DEF Apart, Captured, Own
<1>4. ASSUME NEW w \in Workers, RunFails(w) PROVE Apart'
  <2>1. Return(w) /\ UNCHANGED <<stores, file, ghostVars>>
    BY <1>4 DEF RunFails
  <2> QED
    BY <2>1, ReturnCaptured DEF Apart, Own, ghostVars
<1>5. ASSUME NEW w \in Workers, RunSucceeds(w) PROVE Apart'
  <2>1. PICK id \in {session[w].id} \cup
                 (IF session[w].id = 0 /\ ids < MaxIds THEN {ids + 1} ELSE {}) :
         /\ session' = [session EXCEPT ![w] = [id |-> id, turns |-> @.turns + 1]]
         /\ IF id > ids
            THEN /\ ids' = id
                 /\ bornIn' = [bornIn EXCEPT ![id] = cleared]
                 /\ owner' = [owner EXCEPT ![id] = sessionKey[w]]
            ELSE UNCHANGED <<ids, bornIn, owner>>
    BY <1>5 DEF RunSucceeds
  <2>2. /\ pc[w] = "run" /\ pc' = [pc EXCEPT ![w] = "put"]
        /\ UNCHANGED <<stores, file, sessionKey>>
    BY <1>5 DEF RunSucceeds, Move
  <2>3. session'[w].id = id /\ \A v \in Workers \ {w} : session'[v] = session[v]
    BY <1>t, <2>1
  <2>4. Own(session[w], sessionKey[w])
    BY <2>2 DEF Apart, Captured
  <2>5. session[w].id \in 0 .. ids
    BY <1>t, <2>4 DEF Own
  <2>6. CASE id = session[w].id
    <3>1. UNCHANGED <<ids, owner>>
      BY <1>t, <2>1, <2>5, <2>6
    <3> QED
      BY <1>t, <2>2, <2>3, <2>4, <2>6, <3>1 DEF Apart, Captured, Own
  <2>7. CASE id # session[w].id
    <3>1. id = ids + 1 /\ ids < MaxIds
      BY <2>7
    <3>2. ids' = ids + 1 /\ owner' = [owner EXCEPT ![ids + 1] = sessionKey[w]]
      BY <1>t, <2>1, <3>1
    <3>3. \A i \in 1 .. ids : i \in 1 .. ids' /\ owner'[i] = owner[i]
      BY <1>t, <3>2 DEF Ids
    <3>4. id \in 1 .. ids' /\ owner'[id] = sessionKey[w]
      BY <1>t, <3>1, <3>2 DEF Ids
    <3>5. \A s \in Stores : \A k \in Keys : Own(stores[s][k], k)'
      BY <2>2, <3>3 DEF Apart, Own
    <3>6. (file # Torn)' => \A k \in Keys : Own(file[k], k)'
      BY <2>2, <3>3 DEF Apart, Own, Torn
    <3>7. Captured'
      BY <1>t, <2>2, <2>3, <3>3, <3>4 DEF Apart, Captured, Own
    <3> QED
      BY <3>5, <3>6, <3>7 DEF Apart
  <2> QED
    BY <2>6, <2>7
<1>6. ASSUME NEW w \in Workers, Put(w) PROVE Apart'
  <2>1. /\ pc[w] = "put" /\ pc' = [pc EXCEPT ![w] = "putSave"]
        /\ stores' = [stores EXCEPT ![store[w]][sessionKey[w]] = Kept(session[w])]
        /\ UNCHANGED <<file, session, sessionKey, ids, owner>>
    BY <1>6 DEF Put, Move, ghostVars
  <2>2. Own(Kept(session[w]), sessionKey[w])
    BY <2>1, EmptyType DEF Apart, Captured, Own, Kept
  <2>3. \A s \in Stores : \A k \in Keys :
            \/ stores'[s][k] = stores[s][k]
            \/ k = sessionKey[w] /\ stores'[s][k] = Kept(session[w])
    BY <1>t, <2>1
  <2> QED
    BY <1>t, <2>1, <2>2, <2>3 DEF Apart, Captured, Own
<1>7. ASSUME NEW w \in Workers, AdminLoad(w) PROVE Apart'
  <2>1. /\ MakeStore /\ UNCHANGED <<file, session, sessionKey, ghostVars>>
        /\ pc' = [pc EXCEPT ![w] = "swap"]
    BY <1>7 DEF AdminLoad, Move
  <2>2. \A s \in Stores : \A k \in Keys : Own(stores[s][k], k)'
    BY <2>1, MadeApart DEF ghostVars
  <2> QED
    BY <1>t, <2>1, <2>2 DEF Apart, Captured, Own, ghostVars
<1>8. ASSUME NEW w \in Workers, AdminSwap(w) PROVE Apart'
  <2>1. UNCHANGED <<stores, file, ghostVars>>
    BY <1>8 DEF AdminSwap
  <2>2. CASE Return(w)
    BY <2>1, <2>2, ReturnCaptured DEF Apart, Own, ghostVars
  <2>3. CASE Move(w, "swap", "clear") /\ UNCHANGED <<sessionKey, session>>
    BY <1>t, <2>1, <2>3 DEF Move, Apart, Captured, Own, ghostVars
  <2> QED
    BY <1>8, <2>2, <2>3 DEF AdminSwap
<1>9. ASSUME NEW w \in Workers, AdminClear(w) PROVE Apart'
  <2>1. /\ pc' = [pc EXCEPT ![w] = "clearSave"]
        /\ stores' = [stores EXCEPT ![sessions] = Empty]
        /\ UNCHANGED <<file, session, sessionKey, ids, owner>>
    BY <1>9 DEF AdminClear, Move, ghostVars
  <2>2. \A k \in Keys : Own(Empty[k], k)
    BY EmptyType DEF Own
  <2> QED
    BY <1>t, <2>1, <2>2 DEF Apart, Captured, Own
<1>10. ASSUME NEW w \in Workers, AdminAck(w) PROVE Apart'
  <2>1. Return(w) /\ UNCHANGED <<stores, file, ids, owner>>
    BY <1>10 DEF AdminAck
  <2>2. \A v \in Workers : pc'[v] \in {"run", "put"} =>
            /\ pc'[v] = pc[v] /\ session'[v] = session[v]
            /\ sessionKey'[v] = sessionKey[v]
    BY <1>t, <2>1 DEF Return
  <2> QED
    BY <2>1, <2>2 DEF Apart, Captured, Own
<1>11. ASSUME NEW w \in Workers, Truncate(w) PROVE Apart'
  BY <1>11 DEF Truncate, handlerVars, ghostVars, Apart, Captured, Own
<1>12. ASSUME NEW w \in Workers, Write(w) PROVE Apart'
  <2>1. UNCHANGED <<stores, ghostVars>>
    BY <1>12 DEF Write
  <2>2. file' = stores[store[w]] \/ file' = Torn
    BY <1>12 DEF Write
  <2>3. (file # Torn)' => \A k \in Keys : Own(file[k], k)'
    BY <1>t, <2>1, <2>2 DEF Apart, Own, ghostVars, Torn
  <2>4. Captured'
    <3>1. CASE Return(w)
      BY <2>1, <3>1, ReturnCaptured DEF Apart
    <3>2. CASE Move(w, "clearSave", "acked") /\ UNCHANGED <<sessionKey, session>>
      BY <1>t, <2>1, <3>2 DEF Move, Apart, Captured, Own, ghostVars
    <3> QED
      BY <1>12, <3>1, <3>2 DEF Write
  <2> QED
    BY <2>1, <2>3, <2>4 DEF Apart, Own, ghostVars
<1>13. CASE SetLoad
  <2>1. MakeStore /\ UNCHANGED <<file, handlerVars, ghostVars>>
    BY <1>13 DEF SetLoad
  <2>2. \A s \in Stores : \A k \in Keys : Own(stores[s][k], k)'
    BY <2>1, MadeApart DEF ghostVars
  <2> QED
    BY <2>1, <2>2 DEF Apart, Captured, Own, ghostVars, handlerVars
<1>14. CASE SetSwap
  BY <1>14 DEF SetSwap, handlerVars, ghostVars, Apart, Captured, Own
<1>15. CASE Crash
  (* Only the file is left, and what is loaded from it. *)
  <2>1. /\ stores' = [s \in Stores |-> IF s = 1 THEN Loaded ELSE Empty]
        /\ pc' = [w \in Workers |-> "idle"]
        /\ UNCHANGED <<file, ids, owner>>
    BY <1>15 DEF Crash, ghostVars
  <2>2. \A k \in Keys : Own(Loaded[k], k) /\ Own(Empty[k], k)
    BY LoadedApart, EmptyType DEF Own
  <2> QED
    BY <2>1, <2>2 DEF Apart, Captured, Own
<1>16. CASE UNCHANGED vars
  BY <1>16 DEF vars, handlerVars, ghostVars, Apart, Captured, Own
<1> QED
  BY <1>1, <1>2, <1>3, <1>4, <1>5, <1>6, <1>7, <1>8, <1>9, <1>10, <1>11,
     <1>12, <1>13, <1>14, <1>15, <1>16 DEF Next

(* Whatever stores are captured, replaced, loaded or lost in a crash, a    *)
(* Hermes session is only ever found under the chat it was created for.    *)
THEOREM ChatsStayApart == Spec => []ChatsApart
<1>1. Typed /\ Apart /\ [Next]_vars => Apart'
  BY ApartNext
<1>2. Apart => ChatsApart
  BY DEF Apart, Own, ChatsApart
<1> QED
  BY <1>1, <1>2, ApartInit, TypedAlways, PTL DEF Spec

-----------------------------------------------------------------------------
(* While no update of the configuration has overlapped other work: resets  *)
(* last, turns are counted and the file agrees.                            *)
(*                                                                         *)
(* The argument has four parts.  Mutexes: a store is saved by one handler  *)
(* at a time, a chat served by one, overlap or not.  OneStore: all who are *)
(* at work use the store in service, and what is loaded or in the file is  *)
(* what it holds.  Cleared and Used then follow sessions from the store to *)
(* the handlers and the file and, through a crash, back.                   *)

Inside(w) == pc[w] \notin {"idle", "lock"}

Mutexes ==
    /\ \A w \in Workers : Saving(w) => locked[store[w]] # "free"
    /\ \A v, w \in Workers :
          Saving(v) /\ Saving(w) /\ store[v] = store[w] => v = w
    /\ \A s \in Stores :
          locked[s] # "free" => \E w \in Workers : Saving(w) /\ store[w] = s
    /\ \A v, w \in Workers :
          Inside(v) /\ Inside(w) /\ sessionKey[v] = sessionKey[w] => v = w

(* The others' program counters and what goes with them. *)
Others(w) ==
    \A v \in Workers \ {w} :
        /\ pc'[v] = pc[v] /\ store'[v] = store[v]
        /\ sessionKey'[v] = sessionKey[v] /\ session'[v] = session[v]

LEMMA HandlerTypes ==
    Typed => /\ pc \in [Workers -> {"idle", "lock", "get", "run", "put",
                                    "putSave", "load", "swap", "clear",
                                    "clearSave", "acked"}]
             /\ store \in [Workers -> Stores] /\ sessions \in Stores
             /\ sessions \in 1 .. made /\ made \in Stores
             /\ store \in [Workers -> 1 .. made]
             /\ sessionKey \in [Workers -> Keys]
             /\ session \in [Workers -> Session]
             /\ stores \in [Stores -> [Keys -> Session]]
             /\ locked \in [Stores -> {"free", "changed", "truncated",
                                       "overtaken"}]
             /\ ids \in 0 .. MaxIds /\ owner \in [Ids -> Keys]
             /\ resets \in Nat /\ since \in [Workers -> Nat]
             /\ setStore \in 1 .. made /\ setStore \in Stores
             /\ MaxTurns \in Nat /\ MaxIds \in Nat /\ MaxStores \in Nat
  BY BoundTypes DEF Typed, TypeOK, RestTyped, Stores

(* A handler only moves its own locals. *)
LEMMA ReturnOthers ==
    ASSUME Typed, NEW w \in Workers, Return(w) PROVE Others(w) /\ pc'[w] = "idle"
  BY HandlerTypes DEF Return, Others

(* Outside the stores' mutexes and without a new session's, nothing        *)
(* changes.                                                                *)
LEMMA MutexesElsewhere ==
    ASSUME Typed, Mutexes, NEW w \in Workers, ~Saving(w), ~Saving(w)',
           Inside(w)' => Inside(w) /\ sessionKey'[w] = sessionKey[w],
           Others(w), UNCHANGED locked
    PROVE  Mutexes'
<1>1. \A v \in Workers : Saving(v)' = Saving(v) /\ (Saving(v) => store'[v] = store[v])
  BY DEF Saving, Others
<1>2. \A v \in Workers :
          Inside(v)' => Inside(v) /\ sessionKey'[v] = sessionKey[v]
  BY DEF Inside, Others
<1> QED
  BY <1>1, <1>2 DEF Mutexes

LEMMA MutexesNext == Typed /\ Mutexes /\ [Next]_vars => Mutexes'
<1> SUFFICES ASSUME Typed, Mutexes, [Next]_vars PROVE Mutexes'
  OBVIOUS
<1>1. ASSUME NEW w \in Workers,
             \/ \E k \in Keys : Snapshot(w, k)
             \/ Get(w) \/ RunFails(w) \/ RunSucceeds(w) \/ AdminLoad(w)
             \/ AdminSwap(w) \/ AdminAck(w)
      PROVE  Mutexes'
  <2>1. Others(w) /\ UNCHANGED locked
    BY <1>1, HandlerTypes DEF Snapshot, Get, RunFails, RunSucceeds, AdminLoad,
       AdminSwap, AdminAck, Move, Return, Others, ghostVars
  <2>2. /\ ~Saving(w) /\ ~Saving(w)'
        /\ Inside(w)' => Inside(w) /\ sessionKey'[w] = sessionKey[w]
    BY <1>1, HandlerTypes DEF Snapshot, Get, RunFails, RunSucceeds, AdminLoad,
       AdminSwap, AdminAck, Move, Return, Saving, Inside
  <2> QED
    BY <2>1, <2>2, MutexesElsewhere
<1>2. ASSUME NEW w \in Workers, LockSession(w) \/ AdminStart(w) PROVE Mutexes'
  <2>1. /\ LockFree(w) /\ pc[w] = "lock"
        /\ pc' = [pc EXCEPT ![w] = "get"] \/ pc' = [pc EXCEPT ![w] = "load"]
        /\ UNCHANGED <<locked, store, sessionKey>>
    BY <1>2 DEF LockSession, AdminStart, Move
  <2>2. \A v \in Workers : Saving(v)' = Saving(v)
    BY <2>1, HandlerTypes DEF Saving
  <2>3. \A v \in Workers \ {w} : Inside(v)' = Inside(v)
    BY <2>1, HandlerTypes DEF Inside
  <2>4. \A v \in Workers \ {w} : Inside(v) => sessionKey[v] # sessionKey[w]
    BY <2>1 DEF LockFree, Inside
  <2> QED
    BY <2>1, <2>2, <2>3, <2>4 DEF Mutexes
<1>3. ASSUME NEW w \in Workers, Put(w) \/ AdminClear(w) PROVE Mutexes'
  <2> DEFINE s == IF pc[w] = "put" THEN store[w] ELSE sessions
  <2>1. /\ s \in Stores /\ locked[s] = "free"
        /\ locked' = [locked EXCEPT ![s] = "changed"]
        /\ store'[w] = s /\ pc[w] \in {"put", "clear"}
        /\ pc'[w] \in {"putSave", "clearSave"}
        /\ sessionKey' = sessionKey
        /\ Others(w)
    BY <1>3, HandlerTypes DEF Put, AdminClear, Move, Others
  <2>2. Saving(w)' /\ ~Saving(w) /\ Inside(w)
    BY <2>1 DEF Saving, Inside
  <2>3. \A v \in Workers \ {w} :
            /\ Saving(v)' = Saving(v) /\ store'[v] = store[v]
            /\ Inside(v)' = Inside(v)
            /\ Saving(v) => store[v] # s
    BY <2>1 DEF Saving, Inside, Others, Mutexes
  <2>4. locked' \in [Stores -> {"free", "changed", "truncated", "overtaken"}]
        /\ locked'[s] = "changed"
        /\ \A t \in Stores \ {s} : locked'[t] = locked[t]
    BY <2>1, HandlerTypes
  <2> HIDE DEF s
  <2>5. \A v \in Workers : (Saving(v) => locked[store[v]] # "free")'
    BY <2>1, <2>2, <2>3, <2>4, HandlerTypes DEF Mutexes
  <2>6. \A u, v \in Workers :
            (Saving(u) /\ Saving(v) /\ store[u] = store[v] => u = v)'
    BY <2>1, <2>2, <2>3 DEF Mutexes
  <2>7. \A t \in Stores :
          (locked[t] # "free" => \E v \in Workers : Saving(v) /\ store[v] = t)'
    BY <2>1, <2>2, <2>3, <2>4 DEF Mutexes
  <2>8. \A u, v \in Workers :
          (Inside(u) /\ Inside(v) /\ sessionKey[u] = sessionKey[v] => u = v)'
    BY <2>1, <2>2, <2>3 DEF Mutexes
  <2> QED
    BY <2>5, <2>6, <2>7, <2>8 DEF Mutexes
<1>4. ASSUME NEW w \in Workers, Truncate(w) PROVE Mutexes'
  <2>1. /\ Saving(w) /\ UNCHANGED <<pc, store, sessionKey>>
        /\ locked' = [locked EXCEPT ![store[w]] = "truncated"]
        /\ locked[store[w]] = "changed"
    BY <1>4 DEF Truncate, handlerVars
  <2>2. \A s \in Stores : locked'[s] = "free" <=> locked[s] = "free"
    BY <2>1, HandlerTypes
  <2> QED
    BY <2>1, <2>2, HandlerTypes DEF Mutexes, Saving, Inside
<1>5. ASSUME NEW w \in Workers, Write(w) PROVE Mutexes'
  <2>1. Saving(w) /\ ~Saving(w)' /\ Others(w)
        /\ (Inside(w)' => Inside(w) /\ sessionKey'[w] = sessionKey[w])
    <3>1. CASE pc[w] = "putSave"
      BY <1>5, <3>1, ReturnOthers DEF Write, Saving, Inside
    <3>2. CASE pc[w] = "clearSave"
      BY <1>5, <3>2, HandlerTypes DEF Write, Move, Saving, Inside, Others
    <3> QED
      BY <1>5, <3>1, <3>2 DEF Write, Saving
  <2>2. \A v \in Workers \ {w} :
            /\ Saving(v)' = Saving(v) /\ store'[v] = store[v]
            /\ Inside(v)' = Inside(v) /\ sessionKey'[v] = sessionKey[v]
    BY <2>1 DEF Others, Saving, Inside
  <2>3. \A s \in Stores : locked'[s] = "free" <=> s = store[w] \/ locked[s] = "free"
    BY <1>5, HandlerTypes DEF Write
  <2>4. \A v \in Workers : (Saving(v) => locked[store[v]] # "free")'
    BY <2>1, <2>2, <2>3, HandlerTypes DEF Mutexes
  <2>5. \A t \in Stores :
          (locked[t] # "free" => \E v \in Workers : Saving(v) /\ store[v] = t)'
    BY <2>1, <2>2, <2>3 DEF Mutexes
  <2>6. \A u, v \in Workers :
            (Saving(u) /\ Saving(v) /\ store[u] = store[v] => u = v)'
    BY <2>1, <2>2 DEF Mutexes
  <2>7. \A u, v \in Workers :
          (Inside(u) /\ Inside(v) /\ sessionKey[u] = sessionKey[v] => u = v)'
    BY <2>1, <2>2 DEF Mutexes
  <2> QED
    BY <2>4, <2>5, <2>6, <2>7 DEF Mutexes
<1>6. CASE SetLoad \/ SetSwap \/ UNCHANGED vars
  BY <1>6 DEF SetLoad, SetSwap, vars, handlerVars, Mutexes, Saving, Inside
<1>7. CASE Crash
  <2>1. /\ locked' = [s \in Stores |-> "free"]
        /\ pc' = [v \in Workers |-> "idle"]
    BY <1>7 DEF Crash
  <2> QED
    BY <2>1 DEF Mutexes, Saving, Inside
<1> QED
  BY <1>1, <1>2, <1>3, <1>4, <1>5, <1>6, <1>7 DEF Next

AtRest(w) == pc[w] \in {"idle", "acked"}

(* Without an overlap there is one store: who is at work uses the one in   *)
(* service, one that is about to be installed is what the file holds, and  *)
(* so is the one in service unless it is being saved.                      *)
OneStore ==
    ~overlapped =>
        /\ \A w \in Workers :
              pc[w] \in {"lock", "get", "run", "put", "putSave", "clearSave"}
                  => store[w] = sessions
        /\ \A w \in Workers : pc[w] = "swap" =>
              /\ stores[store[w]] = Loaded /\ set = "idle"
              /\ \A v \in Workers \ {w} : AtRest(v)
        /\ set = "swap" =>
              /\ stores[setStore] = Loaded
              /\ \A v \in Workers : AtRest(v)
        /\ locked[sessions] = "free" => stores[sessions] = Loaded
        /\ \A s \in Stores : locked[s] # "overtaken"

(* An update that overlaps nothing finds the other handlers at rest. *)
LEMMA RestAlone ==
    ASSUME NEW ws, ~AtWork(ws) PROVE \A v \in ws : AtRest(v)
  BY DEF AtWork, AtRest

(* Nobody saves while all are at rest. *)
LEMMA RestFree ==
    ASSUME Typed, Mutexes, \A v \in Workers : ~Saving(v)
    PROVE  \A s \in Stores : locked[s] = "free"
  BY DEF Mutexes

(* A text of sessions is no truncated one. *)
LEMMA WholeType == ASSUME NEW f \in [Keys -> Session] PROVE f # Torn
<1>1. DOMAIN f = Keys /\ Keys # {}
  BY BoundAssumption
<1>2. DOMAIN Torn = {}
  BY DEF Torn
<1> QED
  BY <1>1, <1>2

(* A new store is not the one in service. *)
LEMMA MadeApartFrom ==
    ASSUME Typed, MakeStore
    PROVE  made + 1 \in Stores /\ made + 1 # sessions
<1>1. made < MaxStores /\ MaxStores \in Nat /\ made \in 1 .. MaxStores
      /\ sessions \in 1 .. made
  BY HandlerTypes DEF MakeStore, Stores
<1> QED
  BY <1>1 DEF Stores

(* An overlap is never forgotten. *)
LEMMA NoOverlap == [Next]_vars /\ ~overlapped' => ~overlapped
  BY DEF Next, vars, Snapshot, LockSession, AdminStart, Get, RunFails,
     RunSucceeds, Put, AdminLoad, AdminSwap, AdminClear, AdminAck, Truncate,
     Write, SetLoad, SetSwap, Crash, Observe

LEMMA OneStoreNext ==
    Typed /\ Mutexes /\ OneStore /\ [Next]_vars => OneStore'
<1> SUFFICES ASSUME Typed, Mutexes, OneStore, [Next]_vars, ~overlapped'
             PROVE  OneStore'
  BY DEF OneStore
<1>o. ~overlapped
  BY NoOverlap
<1>1. ASSUME NEW w \in Workers, NEW k \in Keys, Snapshot(w, k) PROVE OneStore'
  <2>1. /\ set # "swap" /\ \A v \in Workers : pc[v] \notin {"load", "swap"}
        /\ pc' = [pc EXCEPT ![w] = "lock"]
        /\ store' = [store EXCEPT ![w] = sessions]
        /\ UNCHANGED <<stores, sessions, locked, file, set, setStore>>
    BY <1>1 DEF Snapshot, Move, Observe, setVars
  <2> QED
    BY <1>o, <2>1, HandlerTypes DEF OneStore, Loaded, AtRest
<1>2. ASSUME NEW w \in Workers,
             \/ LockSession(w) \/ AdminStart(w) \/ Get(w) \/ RunFails(w)
             \/ RunSucceeds(w) \/ AdminAck(w)
      PROVE  OneStore'
  <2>1. /\ Others(w) /\ UNCHANGED <<stores, sessions, locked, file, set, setStore>>
        /\ \/ AtRest(w)' /\ pc'[w] = "idle"
           \/ /\ pc[w] \in {"lock", "get", "run", "put"}
              /\ pc'[w] \in {"get", "load", "run", "put"} /\ store'[w] = store[w]
    BY <1>2, HandlerTypes DEF LockSession, AdminStart, Get, RunFails,
       RunSucceeds, AdminAck, Move, Return, Others, AtRest, setVars
  <2> QED
    BY <1>o, <2>1 DEF OneStore, Loaded, AtRest, Others
<1>3. ASSUME NEW w \in Workers, Put(w) PROVE OneStore'
  <2>1. /\ pc[w] = "put" /\ store[w] = sessions
        /\ pc' = [pc EXCEPT ![w] = "putSave"]
        /\ locked' = [locked EXCEPT ![sessions] = "changed"]
        /\ UNCHANGED <<sessions, file, store, set, setStore>>
    BY <1>3, <1>o DEF Put, Move, setVars, OneStore
  <2>2. /\ set # "swap" /\ \A v \in Workers : pc[v] # "swap"
    BY <1>o, <2>1 DEF OneStore, AtRest
  <2> QED
    BY <1>o, <2>1, <2>2, HandlerTypes DEF OneStore
<1>4. ASSUME NEW w \in Workers, AdminLoad(w) PROVE OneStore'
  <2>1. /\ set # "swap" /\ \A v \in Workers \ {w} : AtRest(v)
        /\ pc' = [pc EXCEPT ![w] = "swap"]
        /\ store' = [store EXCEPT ![w] = made + 1]
        /\ stores' = [stores EXCEPT ![made + 1] = Loaded]
        /\ made + 1 \in Stores /\ made + 1 # sessions
        /\ UNCHANGED <<sessions, locked, file, set, setStore>>
    <3>1. /\ MakeStore /\ ~AtWork(Workers \ {w}) /\ set # "swap"
          /\ Move(w, "load", "swap")
      BY <1>4 DEF AdminLoad, Observe
    <3>2. \A v \in Workers \ {w} : AtRest(v)
      BY <3>1, RestAlone
    <3> QED
      BY <1>4, <3>1, <3>2, MadeApartFrom DEF AdminLoad, MakeStore, Move, setVars
  <2>2. set = "idle"
    BY <2>1 DEF Typed, RestTyped
  <2>3. stores'[made + 1] = Loaded /\ stores'[sessions] = stores[sessions]
    BY <2>1, HandlerTypes
  <2>4. \A v \in Workers \ {w} : pc'[v] \in {"idle", "acked"}
    BY <2>1, HandlerTypes DEF AtRest
  <2>5. pc'[w] = "swap" /\ store'[w] = made + 1 /\ Loaded' = Loaded
    BY <2>1, HandlerTypes DEF Loaded
  <2> QED
    BY <1>o, <2>1, <2>2, <2>3, <2>4, <2>5 DEF OneStore, AtRest
<1>5. ASSUME NEW w \in Workers, AdminSwap(w) PROVE OneStore'
  <2>1. /\ pc[w] = "swap" /\ set # "swap" /\ sessions' = store[w]
        /\ \A v \in Workers \ {w} : AtRest(v)
        /\ pc'[w] \in {"clear", "idle"} /\ Others(w)
        /\ UNCHANGED <<stores, locked, file, set, setStore>>
    BY <1>5, RestAlone, HandlerTypes
       DEF AdminSwap, Move, Return, Observe, Others, setVars
  <2>2. \A v \in Workers : ~Saving(v)
    BY <2>1 DEF AtRest, Saving
  <2>3. \A s \in Stores : locked[s] = "free"
    BY <2>2, RestFree
  <2>4. stores'[sessions'] = Loaded' /\ Loaded' = Loaded
    BY <1>o, <2>1 DEF OneStore, Loaded
  <2>5. \A v \in Workers : pc'[v] \in {"idle", "acked", "clear"}
    BY <2>1 DEF AtRest, Others
  <2> QED
    BY <2>1, <2>3, <2>4, <2>5 DEF OneStore
<1>6. ASSUME NEW w \in Workers, AdminClear(w) PROVE OneStore'
  <2>1. /\ pc[w] = "clear" /\ set # "swap"
        /\ \A v \in Workers \ {w} : AtRest(v)
        /\ pc' = [pc EXCEPT ![w] = "clearSave"]
        /\ store' = [store EXCEPT ![w] = sessions]
        /\ locked' = [locked EXCEPT ![sessions] = "changed"]
        /\ UNCHANGED <<sessions, file, set, setStore>>
    BY <1>6, RestAlone DEF AdminClear, Move, Observe, setVars
  <2>2. \A v \in Workers \ {w} : pc'[v] \in {"idle", "acked"}
    BY <2>1, HandlerTypes DEF AtRest
  <2> QED
    BY <1>o, <2>1, <2>2, HandlerTypes DEF OneStore
<1>7. ASSUME NEW w \in Workers, Truncate(w) PROVE OneStore'
  <2>1. /\ Saving(w) /\ store[w] = sessions
        /\ locked' = [locked EXCEPT ![sessions] = "truncated"]
        /\ UNCHANGED <<stores, sessions, pc, store, set, setStore>>
    BY <1>7, <1>o DEF Truncate, handlerVars, setVars, OneStore, Saving
  <2>2. set # "swap" /\ \A v \in Workers : pc[v] # "swap"
    BY <1>o, <2>1 DEF OneStore, AtRest, Saving
  <2> QED
    BY <1>o, <2>1, <2>2, HandlerTypes DEF OneStore
<1>8. ASSUME NEW w \in Workers, Write(w) PROVE OneStore'
  <2>1. /\ Saving(w) /\ store[w] = sessions /\ locked[sessions] = "truncated"
        /\ UNCHANGED <<stores, sessions, set, setStore>>
        /\ file' = stores[sessions]
    BY <1>8, <1>o, HandlerTypes DEF Write, setVars, OneStore, Saving
  <2>2. Others(w) /\ pc'[w] \in {"idle", "acked"}
    <3>1. CASE pc[w] = "putSave"
      BY <1>8, <3>1, ReturnOthers DEF Write
    <3>2. CASE pc[w] = "clearSave"
      BY <1>8, <3>2, HandlerTypes DEF Write, Move, Others
    <3> QED
      BY <2>1, <3>1, <3>2 DEF Saving
  <2>3. set # "swap" /\ \A v \in Workers : pc[v] # "swap"
    BY <1>o, <2>1 DEF OneStore, AtRest, Saving
  <2>4. \A s \in Stores \ {sessions} : locked[s] = "free"
    BY <1>o DEF Mutexes, OneStore, Saving
  <2>5. \A s \in Stores : locked'[s] = "free"
    BY <1>8, <2>1, <2>4 DEF Write
  <2>6. file' \in [Keys -> Session]
    BY <2>1, HandlerTypes
  <2>7. Loaded' = IF file' = Torn THEN Empty ELSE file'
    BY DEF Loaded, Torn, Empty
  <2>8. Loaded' = stores'[sessions']
    BY <2>1, <2>6, <2>7, WholeType
  <2>9. \A v \in Workers : pc'[v] # "swap" /\
           (pc'[v] \in {"lock", "get", "run", "put", "putSave", "clearSave"}
                  => store'[v] = sessions')
    BY <1>o, <2>1, <2>2, <2>3 DEF OneStore, Others
  <2> QED
    BY <2>1, <2>3, <2>5, <2>8, <2>9 DEF OneStore
<1>9. CASE SetLoad
  <2>1. /\ \A v \in Workers : AtRest(v)
        /\ set' = "swap" /\ setStore' = made + 1
        /\ stores' = [stores EXCEPT ![made + 1] = Loaded]
        /\ made + 1 \in Stores /\ made + 1 # sessions
        /\ UNCHANGED <<sessions, locked, file, pc, store>>
    <3>1. MakeStore /\ ~AtWork(Workers)
      BY <1>9 DEF SetLoad, Observe
    <3> QED
      BY <1>9, <3>1, RestAlone, MadeApartFrom
         DEF SetLoad, MakeStore, handlerVars
  <2>2. stores'[made + 1] = Loaded /\ stores'[sessions] = stores[sessions]
    BY <2>1, HandlerTypes
  <2> QED
    BY <1>o, <2>1, <2>2 DEF OneStore, AtRest, Loaded
<1>10. CASE SetSwap
  <2>1. /\ set = "swap" /\ \A v \in Workers : AtRest(v)
        /\ set' = "idle" /\ sessions' = setStore
        /\ UNCHANGED <<stores, locked, file, pc, store>>
    BY <1>10, RestAlone DEF SetSwap, Observe, handlerVars
  <2>2. \A s \in Stores : locked[s] = "free"
    BY <2>1, RestFree DEF AtRest, Saving
  <2> QED
    BY <1>o, <2>1, <2>2 DEF OneStore, AtRest, Loaded
<1>11. CASE Crash
  <2>1. /\ stores' = [s \in Stores |-> IF s = 1 THEN Loaded ELSE Empty]
        /\ sessions' = 1 /\ locked' = [s \in Stores |-> "free"]
        /\ pc' = [v \in Workers |-> "idle"] /\ set' = "idle"
        /\ file' = file
    BY <1>11 DEF Crash
  <2>2. 1 \in Stores /\ Loaded' = Loaded
    BY <2>1, BoundTypes DEF Stores, Loaded
  <2> QED
    BY <2>1, <2>2 DEF OneStore
<1>12. CASE UNCHANGED vars
  BY <1>12 DEF vars, handlerVars, setVars, OneStore, AtRest, Loaded
<1> QED
  BY <1>1, <1>2, <1>3, <1>4, <1>5, <1>6, <1>7, <1>8, <1>9, <1>10, <1>11,
     <1>12 DEF Next

LedgerTyped ==
    /\ cleared \in Nat /\ crashes \in Nat
    /\ bornIn \in [Ids -> Nat] /\ uses \in [Ids -> Nat]

(* The handlers that have made a reset and not yet announced it, and those *)
(* whose reset the file knows of.                                          *)
Clearers == {w \in Workers : pc[w] \in {"clearSave", "acked"}}
Ackers == {w \in Workers : pc[w] = "acked"}

(* Resets are made before they are announced. *)
Counted ==
    /\ LedgerTyped /\ IsFiniteSet(Clearers)
    /\ resets + Cardinality(Clearers) <= cleared
    /\ \A w \in Workers : since[w] <= resets

LEMMA CountedInit == Init => Counted
<1> SUFFICES ASSUME Init PROVE Counted
  OBVIOUS
<1>1. Clearers = {}
  BY DEF Init, Clearers
<1>2. IsFiniteSet(Clearers) /\ Cardinality(Clearers) = 0
  BY <1>1, FS_EmptySet
<1> QED
  BY <1>2 DEF Init, Counted, LedgerTyped

LEMMA PendingTypes ==
    Counted => /\ Cardinality(Clearers) \in Nat /\ Cardinality(Ackers) \in Nat
               /\ Cardinality(Ackers) <= Cardinality(Clearers)
<1> SUFFICES ASSUME Counted
             PROVE  /\ Cardinality(Clearers) \in Nat
                    /\ Cardinality(Ackers) \in Nat
                    /\ Cardinality(Ackers) <= Cardinality(Clearers)
  OBVIOUS
<1>1. IsFiniteSet(Clearers) /\ Ackers \subseteq Clearers
  BY DEF Counted, Clearers, Ackers
<1>2. IsFiniteSet(Ackers) /\ Cardinality(Ackers) <= Cardinality(Clearers)
  BY <1>1, FS_Subset
<1> QED
  BY <1>1, <1>2, FS_CardinalityType

(* The ledger and the locals that count are as they were. *)
LEMMA CountedSame ==
    ASSUME Typed, Counted, LedgerTyped', Clearers' = Clearers,
           UNCHANGED <<resets, cleared>>,
           \A w \in Workers : since'[w] \in {since[w], resets, 0}
    PROVE  Counted'
<1>1. ASSUME NEW w \in Workers PROVE since'[w] <= resets
  <2>1. since[w] <= resets /\ resets \in Nat
    BY HandlerTypes DEF Counted
  <2>2. since'[w] \in {since[w], resets, 0}
    OBVIOUS
  <2> QED
    BY <2>1, <2>2
<1> QED
  BY <1>1 DEF Counted

LEMMA CountedNext == Typed /\ Counted /\ [Next]_vars => Counted'
<1> SUFFICES ASSUME Typed, Counted, [Next]_vars PROVE Counted'
  OBVIOUS
<1>1. ASSUME NEW w \in Workers,
             \/ \E k \in Keys : Snapshot(w, k)
             \/ LockSession(w) \/ AdminStart(w) \/ Get(w) \/ RunFails(w)
             \/ Put(w) \/ AdminLoad(w) \/ AdminSwap(w) \/ Truncate(w)
             \/ Write(w)
      PROVE  Counted'
  <2>1. UNCHANGED <<resets, cleared, bornIn, uses, crashes>>
    BY <1>1 DEF Snapshot, LockSession, AdminStart, Get, RunFails, Put,
       AdminLoad, AdminSwap, Truncate, Write, ghostVars
  <2>2. Clearers' = Clearers
    BY <1>1, HandlerTypes DEF Snapshot, LockSession, AdminStart, Get, RunFails,
       Put, AdminLoad, AdminSwap, Truncate, Write, Move, Return, handlerVars,
       Clearers
  <2>3. \A v \in Workers : since'[v] \in {since[v], resets, 0}
    BY <1>1, HandlerTypes DEF Snapshot, LockSession, AdminStart, Get, RunFails,
       Put, AdminLoad, AdminSwap, Truncate, Write, Return, handlerVars
  <2>4. LedgerTyped'
    BY <2>1 DEF Counted, LedgerTyped
  <2> QED
    BY <2>1, <2>2, <2>3, <2>4, CountedSame
<1>2. ASSUME NEW w \in Workers, RunSucceeds(w) PROVE Counted'
  <2>1. /\ pc[w] = "run" /\ pc' = [pc EXCEPT ![w] = "put"]
        /\ UNCHANGED <<since, resets, cleared, crashes>>
    BY <1>2 DEF RunSucceeds, Move
  <2>2. Clearers' = Clearers
    BY <2>1, HandlerTypes DEF Clearers
  <2>3. \/ bornIn' = bornIn
        \/ \E id : bornIn' = [bornIn EXCEPT ![id] = cleared]
    BY <1>2 DEF RunSucceeds
  <2>4. uses' = uses \/ \E id : uses' = [uses EXCEPT ![id] = uses[id] + 1]
    BY <1>2 DEF RunSucceeds
  <2>5. LedgerTyped'
    BY <2>1, <2>3, <2>4 DEF Counted, LedgerTyped
  <2> QED
    BY <2>1, <2>2, <2>5, CountedSame
<1>3. ASSUME NEW w \in Workers, AdminClear(w) PROVE Counted'
  <2>1. /\ pc[w] = "clear" /\ pc' = [pc EXCEPT ![w] = "clearSave"]
        /\ cleared' = cleared + 1
        /\ UNCHANGED <<since, resets, bornIn, uses, crashes>>
    BY <1>3 DEF AdminClear, Move
  <2>2. Clearers' = Clearers \cup {w} /\ w \notin Clearers
    BY <2>1, HandlerTypes DEF Clearers
  <2>3. /\ IsFiniteSet(Clearers')
        /\ Cardinality(Clearers') = Cardinality(Clearers) + 1
    BY <2>2, FS_AddElement DEF Counted
  <2> QED
    BY <2>1, <2>3, HandlerTypes, PendingTypes DEF Counted, LedgerTyped
<1>4. ASSUME NEW w \in Workers, AdminAck(w) PROVE Counted'
  <2>1. /\ pc[w] = "acked" /\ pc' = [pc EXCEPT ![w] = "idle"]
        /\ resets' = resets + 1 /\ since' = [since EXCEPT ![w] = 0]
        /\ UNCHANGED <<cleared, bornIn, uses, crashes>>
    BY <1>4 DEF AdminAck, Return
  <2>2. Clearers' = Clearers \ {w} /\ w \in Clearers
    BY <2>1, HandlerTypes DEF Clearers
  <2>3. /\ IsFiniteSet(Clearers')
        /\ Cardinality(Clearers') = Cardinality(Clearers) - 1
    BY <2>2, FS_RemoveElement DEF Counted
  <2>4. \A v \in Workers : since'[v] <= resets'
    BY <2>1, HandlerTypes DEF Counted
  <2> QED
    BY <2>1, <2>3, <2>4, HandlerTypes, PendingTypes DEF Counted, LedgerTyped
<1>5. CASE Crash
  <2>1. /\ pc' = [v \in Workers |-> "idle"]
        /\ since' = [v \in Workers |-> 0] /\ crashes' = crashes + 1
        /\ UNCHANGED <<resets, cleared, bornIn, uses>>
    BY <1>5 DEF Crash, ghostVars
  <2>2. Clearers' = {}
    BY <2>1 DEF Clearers
  <2>3. IsFiniteSet(Clearers') /\ Cardinality(Clearers') = 0
    BY <2>2, FS_EmptySet
  <2> QED
    BY <2>1, <2>3, HandlerTypes, PendingTypes DEF Counted, LedgerTyped
<1>6. CASE SetLoad \/ SetSwap \/ UNCHANGED vars
  BY <1>6 DEF SetLoad, SetSwap, vars, handlerVars, ghostVars, Counted,
     LedgerTyped, Clearers
<1> QED
  BY <1>1, <1>2, <1>3, <1>4, <1>5, <1>6 DEF Next

(* A session that a handler may resume was born after the first n resets. *)
Since(s, n) == s.id # 0 => bornIn[s.id] >= n

(* While no update has overlapped other work, sessions older than a reset  *)
(* are only left in the file, and there only until that reset is saved.    *)
Cleared ==
    ~overlapped =>
        /\ \A k \in Keys :
              Since(stores[sessions][k], resets + Cardinality(Clearers))
        /\ file # Torn =>
              \A k \in Keys : Since(file[k], resets + Cardinality(Ackers))
        /\ \A w \in Workers : pc[w] \in {"run", "put"} =>
              Since(session[w], resets + Cardinality(Clearers))

LEMMA ClearedInit == Init => Cleared
<1> SUFFICES ASSUME Init PROVE Cleared
  OBVIOUS
<1>1. /\ \A k \in Keys : stores[sessions][k].id = 0 /\ file[k].id = 0
      /\ \A w \in Workers : session[w].id = 0
  BY BoundTypes, EmptyType DEF Init, Stores
<1> QED
  BY <1>1 DEF Cleared, Since

(* What is loaded while no reset waits to be saved. *)
LEMMA LoadedCleared ==
    ASSUME Typed, Cleared, ~overlapped
    PROVE  \A k \in Keys : Since(Loaded[k], resets + Cardinality(Ackers))
  BY EmptyType DEF Cleared, Since, Loaded

(* Then the resets that were made have been saved. *)
LEMMA AllAcked ==
    ASSUME \A w \in Workers : pc[w] # "clearSave" PROVE Ackers = Clearers
  BY DEF Ackers, Clearers

(* No reset is made, saved or announced. *)
LEMMA ClearedSame ==
    ASSUME Typed, Cleared, ~overlapped, UNCHANGED <<resets, bornIn>>,
           \A w \in Workers : \/ pc'[w] = pc[w]
                              \/ {pc[w], pc'[w]} \cap {"clearSave", "acked"} = {},
           \A k \in Keys :
               Since(stores'[sessions'][k], resets + Cardinality(Clearers)),
           file' = file \/ file' = Torn,
           \A w \in Workers : pc'[w] \in {"run", "put"} =>
               Since(session'[w], resets + Cardinality(Clearers))
    PROVE  Cleared'
<1>1. Clearers' = Clearers /\ Ackers' = Ackers
  BY DEF Clearers, Ackers
<1>2. \A k \in Keys :
          Since(stores[sessions][k], resets + Cardinality(Clearers))'
  BY <1>1 DEF Since
<1>3. \A w \in Workers : pc'[w] \in {"run", "put"} =>
          Since(session[w], resets + Cardinality(Clearers))'
  BY <1>1 DEF Since
<1>4. (file # Torn)' => \A k \in Keys : Since(file[k], resets + Cardinality(Ackers))'
  BY <1>1 DEF Cleared, Since, Torn
<1> QED
  BY <1>2, <1>3, <1>4 DEF Cleared

LEMMA ClearedNext ==
    Typed /\ Apart /\ Mutexes /\ OneStore /\ Counted /\ Cleared /\ [Next]_vars
        => Cleared'
<1> SUFFICES ASSUME Typed, Apart, Mutexes, OneStore, Counted, Cleared,
                    [Next]_vars, ~overlapped'
             PROVE  Cleared'
  BY DEF Cleared
<1>o. ~overlapped
  BY NoOverlap
<1>n. /\ resets \in Nat /\ cleared \in Nat /\ bornIn \in [Ids -> Nat]
      /\ Cardinality(Clearers) \in Nat /\ Cardinality(Ackers) \in Nat
      /\ Cardinality(Ackers) <= Cardinality(Clearers)
      /\ resets + Cardinality(Clearers) <= cleared
  BY HandlerTypes, PendingTypes DEF Counted, LedgerTyped
<1>1. ASSUME NEW w \in Workers,
             \/ \E k \in Keys : Snapshot(w, k)
             \/ LockSession(w) \/ AdminStart(w) \/ RunFails(w) \/ AdminLoad(w)
      PROVE  Cleared'
  <2>1. /\ Others(w) /\ pc'[w] \in {"lock", "get", "load", "swap", "idle"}
        /\ pc[w] \in {"idle", "lock", "run", "load"}
        /\ UNCHANGED <<sessions, file, bornIn, resets>>
    BY <1>1, HandlerTypes DEF Snapshot, LockSession, AdminStart, RunFails,
       AdminLoad, Move, Return, Others, ghostVars
  <2>2. stores'[sessions] = stores[sessions]
    BY <1>1, HandlerTypes, MadeApartFrom DEF Snapshot, LockSession, AdminStart,
       RunFails, AdminLoad, MakeStore
  <2>3. \A v \in Workers : \/ pc'[v] = pc[v]
                           \/ {pc[v], pc'[v]} \cap {"clearSave", "acked"} = {}
    BY <2>1 DEF Others
  <2>4. \A v \in Workers : pc'[v] \in {"run", "put"} =>
            Since(session'[v], resets + Cardinality(Clearers))
    BY <1>o, <2>1 DEF Others, Cleared
  <2>5. \A k \in Keys :
            Since(stores'[sessions'][k], resets + Cardinality(Clearers))
    BY <1>o, <2>1, <2>2 DEF Cleared
  <2> QED
    BY <1>o, <2>1, <2>3, <2>4, <2>5, ClearedSame
<1>2. ASSUME NEW w \in Workers, Get(w) PROVE Cleared'
  <2>1. /\ pc[w] = "get" /\ pc' = [pc EXCEPT ![w] = "run"]
        /\ session' = [session EXCEPT ![w] = stores[store[w]][sessionKey[w]]]
        /\ UNCHANGED <<stores, sessions, file, bornIn, resets>>
    BY <1>2 DEF Get, Move, ghostVars
  <2>2. store[w] = sessions
    BY <1>o, <2>1 DEF OneStore
  <2>3. \A v \in Workers : \/ pc'[v] = pc[v]
                           \/ {pc[v], pc'[v]} \cap {"clearSave", "acked"} = {}
    BY <2>1, HandlerTypes
  <2>4. \A v \in Workers : pc'[v] \in {"run", "put"} =>
            Since(session'[v], resets + Cardinality(Clearers))
    BY <1>o, <2>1, <2>2, HandlerTypes DEF Cleared
  <2>5. \A k \in Keys :
            Since(stores'[sessions'][k], resets + Cardinality(Clearers))
    BY <1>o, <2>1 DEF Cleared
  <2> QED
    BY <1>o, <2>1, <2>3, <2>4, <2>5, ClearedSame
<1>3. ASSUME NEW w \in Workers, RunSucceeds(w) PROVE Cleared'
  <2>1. PICK id \in {session[w].id} \cup
                 (IF session[w].id = 0 /\ ids < MaxIds THEN {ids + 1} ELSE {}) :
         /\ session' = [session EXCEPT ![w] = [id |-> id, turns |-> @.turns + 1]]
         /\ IF id > ids
            THEN /\ ids' = id
                 /\ bornIn' = [bornIn EXCEPT ![id] = cleared]
                 /\ owner' = [owner EXCEPT ![id] = sessionKey[w]]
            ELSE UNCHANGED <<ids, bornIn, owner>>
    BY <1>3 DEF RunSucceeds
  <2>2. /\ pc[w] = "run" /\ pc' = [pc EXCEPT ![w] = "put"]
        /\ UNCHANGED <<stores, sessions, file, resets>>
    BY <1>3 DEF RunSucceeds, Move
  <2>3. session'[w].id = id /\ \A v \in Workers \ {w} : session'[v] = session[v]
    BY <2>1, HandlerTypes
  <2>4. Since(session[w], resets + Cardinality(Clearers))
    BY <1>o, <2>2 DEF Cleared
  <2>5. Clearers' = Clearers /\ Ackers' = Ackers
    BY <2>2, HandlerTypes DEF Clearers, Ackers
  <2>6. \A i \in 1 .. ids : bornIn'[i] = bornIn[i]
    <3>1. /\ bornIn \in [Ids -> Nat] /\ ids \in 0 .. MaxIds /\ MaxIds \in Nat
          /\ \/ bornIn' = bornIn
             \/ id > ids /\ bornIn' = [bornIn EXCEPT ![id] = cleared]
      BY <1>n, <2>1, HandlerTypes
    <3>2. \A i \in 1 .. ids : i \in Ids /\ ~(i > ids)
      BY <3>1 DEF Ids
    <3> QED
      BY <3>1, <3>2
  <2>7. id # 0 => bornIn'[id] >= resets + Cardinality(Clearers)
    <3>1. CASE id > ids
      <4>1. session[w].id \in 0 .. MaxIds
        BY HandlerTypes DEF Session
      <4>2. id \in Ids
        BY <2>1, <3>1, <4>1, HandlerTypes DEF Ids
      <4>3. bornIn' = [bornIn EXCEPT ![id] = cleared]
        BY <2>1, <3>1
      <4> QED
        BY <1>n, <4>2, <4>3
    <3>2. CASE ~(id > ids)
      <4>1. id = session[w].id /\ bornIn' = bornIn
        BY <2>1, <3>2, HandlerTypes
      <4> QED
        BY <4>1, <2>4 DEF Since
    <3> QED
      BY <3>1, <3>2
  <2>8. \A k \in Keys :
            /\ Since(stores[sessions][k], resets + Cardinality(Clearers))'
            /\ file # Torn => Since(file[k], resets + Cardinality(Ackers))'
    BY <1>o, <2>2, <2>5, <2>6, HandlerTypes DEF Cleared, Since, Apart, Own
  <2>9. ASSUME NEW v \in Workers, pc'[v] \in {"run", "put"}
        PROVE  Since(session[v], resets + Cardinality(Clearers))'
    <3>1. CASE v = w
      BY <2>2, <2>3, <2>5, <2>7, <3>1 DEF Since
    <3>2. CASE v # w
      <4>1. pc[v] \in {"run", "put"} /\ session'[v] = session[v]
        BY <2>2, <2>3, <2>9, <3>2, HandlerTypes
      <4>2. /\ session[v].id # 0 => session[v].id \in 1 .. ids
            /\ Since(session[v], resets + Cardinality(Clearers))
        BY <1>o, <4>1 DEF Apart, Captured, Own, Cleared
      <4> QED
        BY <2>2, <2>5, <2>6, <4>1, <4>2 DEF Since
    <3> QED
      BY <3>1, <3>2
  <2> QED
    BY <2>2, <2>8, <2>9 DEF Cleared
<1>4. ASSUME NEW w \in Workers, Put(w) PROVE Cleared'
  <2>1. /\ pc[w] = "put" /\ pc' = [pc EXCEPT ![w] = "putSave"]
        /\ stores' = [stores EXCEPT ![store[w]][sessionKey[w]] = Kept(session[w])]
        /\ UNCHANGED <<sessions, session, file, bornIn, resets>>
    BY <1>4 DEF Put, Move, ghostVars
  <2>2. Since(Kept(session[w]), resets + Cardinality(Clearers))
    BY <1>o, <2>1, EmptyType DEF Cleared, Since, Kept
  <2>3. \A k \in Keys : \/ stores'[sessions][k] = stores[sessions][k]
                        \/ stores'[sessions][k] = Kept(session[w])
    BY <2>1, HandlerTypes
  <2>4. \A k \in Keys :
            Since(stores'[sessions'][k], resets + Cardinality(Clearers))
    BY <1>o, <2>1, <2>2, <2>3 DEF Cleared
  <2>5. \A v \in Workers : \/ pc'[v] = pc[v]
                           \/ {pc[v], pc'[v]} \cap {"clearSave", "acked"} = {}
    BY <2>1, HandlerTypes
  <2>6. \A v \in Workers : pc'[v] \in {"run", "put"} =>
            Since(session'[v], resets + Cardinality(Clearers))
    BY <1>o, <2>1, HandlerTypes DEF Cleared
  <2> QED
    BY <1>o, <2>1, <2>4, <2>5, <2>6, ClearedSame
<1>5. ASSUME NEW w \in Workers, AdminSwap(w) PROVE Cleared'
  <2>1. /\ pc[w] = "swap" /\ sessions' = store[w] /\ Others(w)
        /\ ~AtWork(Workers \ {w}) /\ pc'[w] \in {"clear", "idle"}
        /\ UNCHANGED <<stores, file, bornIn, resets>>
    BY <1>5, HandlerTypes
       DEF AdminSwap, Move, Return, Observe, Others, ghostVars
  <2>2. \A v \in Workers \ {w} : pc[v] \in {"idle", "acked"}
    BY <2>1, RestAlone DEF AtRest
  <2>3. stores[store[w]] = Loaded /\ Ackers = Clearers
    BY <1>o, <2>1, <2>2, AllAcked DEF OneStore
  <2>4. \A k \in Keys :
            Since(stores'[sessions'][k], resets + Cardinality(Clearers))
    BY <1>o, <2>1, <2>3, LoadedCleared
  <2>5. \A v \in Workers : \/ pc'[v] = pc[v]
                           \/ {pc[v], pc'[v]} \cap {"clearSave", "acked"} = {}
    BY <2>1 DEF Others
  <2>6. \A v \in Workers : pc'[v] \notin {"run", "put"}
    BY <2>1, <2>2 DEF Others
  <2> QED
    BY <1>o, <2>1, <2>4, <2>5, <2>6, ClearedSame
<1>6. ASSUME NEW w \in Workers, AdminClear(w) PROVE Cleared'
  <2>1. /\ pc[w] = "clear" /\ pc' = [pc EXCEPT ![w] = "clearSave"]
        /\ stores' = [stores EXCEPT ![sessions] = Empty]
        /\ ~AtWork(Workers \ {w})
        /\ UNCHANGED <<sessions, file, bornIn, resets>>
    BY <1>6 DEF AdminClear, Move, Observe
  <2>2. \A v \in Workers : pc'[v] \notin {"run", "put"}
    BY <2>1, RestAlone, HandlerTypes DEF AtRest
  <2>3. Ackers' = Ackers
    BY <2>1, HandlerTypes DEF Ackers
  <2>4. \A k \in Keys : stores'[sessions'][k].id = 0
    BY <2>1, EmptyType, HandlerTypes
  <2> QED
    BY <1>o, <2>1, <2>2, <2>3, <2>4 DEF Cleared, Since
<1>7. ASSUME NEW w \in Workers, AdminAck(w) PROVE Cleared'
  <2>1. /\ pc[w] = "acked" /\ pc' = [pc EXCEPT ![w] = "idle"] /\ Others(w)
        /\ resets' = resets + 1
        /\ UNCHANGED <<stores, sessions, file, bornIn>>
    BY <1>7, ReturnOthers DEF AdminAck, Return
  <2>2. /\ Clearers' = Clearers \ {w} /\ w \in Clearers
        /\ Ackers' = Ackers \ {w} /\ w \in Ackers /\ Ackers \subseteq Clearers
    BY <2>1, HandlerTypes DEF Clearers, Ackers
  <2>3. IsFiniteSet(Clearers) /\ IsFiniteSet(Ackers)
    BY <2>2, FS_Subset DEF Counted
  <2>4. /\ Cardinality(Clearers') = Cardinality(Clearers) - 1
        /\ Cardinality(Ackers') = Cardinality(Ackers) - 1
    BY <2>2, <2>3, FS_RemoveElement
  <2>5. /\ resets' + Cardinality(Clearers') = resets + Cardinality(Clearers)
        /\ resets' + Cardinality(Ackers') = resets + Cardinality(Ackers)
    BY <1>n, <2>1, <2>4
  <2>6. \A v \in Workers : pc'[v] \in {"run", "put"} =>
            pc[v] \in {"run", "put"} /\ session'[v] = session[v]
    BY <2>1, HandlerTypes DEF Others
  <2> QED
    BY <1>o, <2>1, <2>5, <2>6 DEF Cleared, Since
<1>8. ASSUME NEW w \in Workers, Truncate(w) PROVE Cleared'
  BY <1>8, <1>o, ClearedSame DEF Truncate, handlerVars, ghostVars, Cleared
<1>9. ASSUME NEW w \in Workers, Write(w) PROVE Cleared'
  <2>1. /\ Saving(w) /\ store[w] = sessions
        /\ file' = stores[sessions] \/ file' = Torn
        /\ UNCHANGED <<stores, sessions, bornIn, resets>>
    BY <1>9, <1>o DEF Write, ghostVars, OneStore, Saving
  <2>2. /\ Others(w) /\ pc'[w] \in {"idle", "acked"}
        /\ pc[w] = "putSave" => pc'[w] = "idle"
        /\ pc[w] = "clearSave" => pc'[w] = "acked"
    <3>1. CASE pc[w] = "putSave"
      BY <1>9, <3>1, ReturnOthers DEF Write
    <3>2. CASE pc[w] = "clearSave"
      BY <1>9, <3>2, HandlerTypes DEF Write, Move, Others
    <3> QED
      BY <2>1, <3>1, <3>2 DEF Saving
  <2>3. Clearers' = Clearers
    BY <2>1, <2>2 DEF Clearers, Others, Saving
  <2>4. Cardinality(Ackers') <= Cardinality(Clearers)
        /\ Cardinality(Ackers') \in Nat
    <3>1. Ackers' \subseteq Clearers' /\ IsFiniteSet(Clearers')
      BY <2>3 DEF Ackers, Clearers, Counted
    <3> QED
      BY <2>3, <3>1, FS_Subset, FS_CardinalityType
  <2>5. \A k \in Keys :
            Since(stores[sessions][k], resets + Cardinality(Clearers))'
    BY <1>o, <2>1, <2>3 DEF Cleared, Since
  <2>6. ASSUME NEW k \in Keys, (file # Torn)'
        PROVE  Since(file[k], resets + Cardinality(Ackers))'
    <3>1. file' = stores[sessions] /\ file'[k] \in Session
      BY <2>1, <2>6, HandlerTypes DEF Torn
    <3>2. /\ file'[k].id # 0 => /\ file'[k].id \in Ids
                               /\ bornIn[file'[k].id] >= resets + Cardinality(Clearers)
      <4>1. file'[k].id \in 0 .. MaxIds
        BY <3>1 DEF Session
      <4>2. Since(stores[sessions][k], resets + Cardinality(Clearers))
        BY <1>o DEF Cleared
      <4> QED
        BY <3>1, <4>1, <4>2, HandlerTypes DEF Since, Ids
    <3> QED
      BY <1>n, <2>1, <2>4, <3>2 DEF Since
  <2>7. \A v \in Workers : pc'[v] \in {"run", "put"} =>
            Since(session[v], resets + Cardinality(Clearers))'
    BY <1>o, <2>1, <2>2, <2>3 DEF Cleared, Since, Others
  <2> QED
    BY <2>5, <2>6, <2>7 DEF Cleared
<1>10. CASE SetLoad
  <2>1. /\ MakeStore /\ UNCHANGED <<sessions, file, pc, session, bornIn, resets>>
    BY <1>10 DEF SetLoad, handlerVars, ghostVars
  <2>2. stores'[sessions'] = stores[sessions]
    BY <2>1, MadeApartFrom, HandlerTypes DEF MakeStore
  <2> QED
    BY <1>o, <2>1, <2>2, ClearedSame DEF Cleared
<1>11. CASE SetSwap
  <2>1. /\ set = "swap" /\ sessions' = setStore
        /\ UNCHANGED <<stores, file, pc, session, bornIn, resets>>
    BY <1>11 DEF SetSwap, handlerVars, ghostVars
  <2>2. stores[setStore] = Loaded /\ \A v \in Workers : pc[v] \in {"idle", "acked"}
    BY <1>o, <2>1 DEF OneStore, AtRest
  <2>3. \A k \in Keys :
            Since(stores'[sessions'][k], resets + Cardinality(Clearers))
    BY <1>o, <2>1, <2>2, LoadedCleared, AllAcked
  <2> QED
    BY <1>o, <2>1, <2>2, <2>3, ClearedSame
<1>12. CASE Crash
  <2>1. /\ stores' = [s \in Stores |-> IF s = 1 THEN Loaded ELSE Empty]
        /\ sessions' = 1 /\ pc' = [v \in Workers |-> "idle"]
        /\ UNCHANGED <<file, bornIn, resets>>
    BY <1>12 DEF Crash, ghostVars
  <2>2. Clearers' = {} /\ Ackers' = {}
    BY <2>1 DEF Clearers, Ackers
  <2>3. Cardinality(Clearers') = 0 /\ Cardinality(Ackers') = 0
    BY <2>2, FS_EmptySet
  <2>4. stores'[sessions'] = Loaded
    BY <2>1, BoundTypes DEF Stores
  <2>5. \A k \in Keys : Loaded[k].id # 0 =>
            /\ Loaded[k].id \in Ids
            /\ bornIn[Loaded[k].id] >= resets + Cardinality(Ackers)
    BY <1>o, LoadedType, LoadedCleared, HandlerTypes DEF Since, Session, Ids
  <2>6. \A k \in Keys : Loaded[k].id # 0 => bornIn[Loaded[k].id] >= resets
    BY <1>n, <2>5
  <2>7. (file # Torn)' => Loaded = file'
    BY <2>1 DEF Loaded, Torn
  <2> QED
    BY <1>n, <2>1, <2>3, <2>4, <2>6, <2>7 DEF Cleared, Since
<1>13. CASE UNCHANGED vars
  BY <1>13, <1>o, ClearedSame DEF vars, handlerVars, ghostVars, Cleared
<1> QED
  BY <1>1, <1>2, <1>3, <1>4, <1>5, <1>6, <1>7, <1>8, <1>9, <1>10, <1>11,
     <1>12, <1>13 DEF Next

(* A handler of the chat k has had its answer and not yet recorded it; or  *)
(* it has, but not yet in the file.                                        *)
Putting(k) == \E w \in Workers : pc[w] = "put" /\ sessionKey[w] = k
Storing(k) ==
    \E w \in Workers : pc[w] \in {"put", "putSave"} /\ sessionKey[w] = k

(* The session has served no more than n turns beyond its count. *)
Within(s, n) == s.id # 0 => uses[s.id] <= s.turns + n

(* While no update has overlapped other work, a session's count is only    *)
(* behind by the turn that is being recorded and one for each crash.       *)
Used ==
    /\ \A i \in Ids : i > ids => uses[i] = 0
    /\ ~overlapped =>
        /\ \A i \in Ids : uses[i] <= MaxTurns + crashes
        /\ \A k \in Keys :
              /\ Within(stores[sessions][k], crashes + 1)
              /\ ~Putting(k) => Within(stores[sessions][k], crashes)
        /\ file # Torn => \A k \in Keys :
              /\ Within(file[k], crashes + 1)
              /\ ~Storing(k) => Within(file[k], crashes)
        /\ \A w \in Workers :
              pc[w] \in {"run", "put"} => Within(session[w], crashes)

LEMMA UsedInit == Init => Used
<1> SUFFICES ASSUME Init PROVE Used
  OBVIOUS
<1>1. /\ \A k \in Keys : stores[sessions][k].id = 0 /\ file[k].id = 0
      /\ \A w \in Workers : session[w].id = 0
  BY BoundTypes, EmptyType DEF Init, Stores
<1>2. \A i \in Ids : uses[i] = 0
  BY DEF Init
<1> QED
  BY <1>1, <1>2, BoundTypes DEF Init, Used, Within

(* The file's counts are exact for who is not being recorded. *)
LEMMA LoadedUsed ==
    ASSUME Typed, Used, ~overlapped, \A w \in Workers : ~Saving(w),
           \A w \in Workers : pc[w] # "put"
    PROVE  \A k \in Keys : Within(Loaded[k], crashes)
<1>1. \A k \in Keys : ~Storing(k)
  BY DEF Storing, Saving
<1> QED
  BY <1>1, EmptyType DEF Used, Loaded, Within

(* What is within a bound is within a larger one. *)
LEMMA WithinMore ==
    ASSUME Counted, NEW s \in Session, Within(s, crashes)
    PROVE  Within(s, crashes + 1)
<1>1. /\ s.id \in 0 .. MaxIds /\ s.turns \in Nat /\ crashes \in Nat
      /\ MaxIds \in Nat /\ uses \in [Ids -> Nat]
  BY BoundTypes DEF Session, Counted, LedgerTyped
<1>2. s.id # 0 => uses[s.id] \in Nat
  BY <1>1 DEF Ids
<1> QED
  BY <1>1, <1>2 DEF Within

(* A store in service is typed, after a step as before it. *)
LEMMA InServiceType ==
    ASSUME Typed' PROVE \A k \in Keys : stores'[sessions'][k] \in Session
<1>1. /\ stores' \in [1 .. MaxStores -> [Keys -> Session]]
      /\ sessions' \in 1 .. made' /\ made' \in 1 .. MaxStores
  BY DEF Typed, TypeOK, Stores
<1>2. sessions' \in 1 .. MaxStores
  BY <1>1, BoundTypes
<1> QED
  BY <1>1, <1>2

(* Nothing is run, put or saved. *)
LEMMA UsedSame ==
    ASSUME Typed, Typed', Counted, Used, ~overlapped, UNCHANGED <<ids, uses, crashes>>,
           \A w \in Workers :
               \/ pc'[w] = pc[w] /\ sessionKey'[w] = sessionKey[w]
               \/ {pc[w], pc'[w]} \cap {"put", "putSave"} = {},
           \/ stores'[sessions'] = stores[sessions]
           \/ \A k \in Keys : Within(stores'[sessions'][k], crashes),
           file' = file \/ file' = Torn,
           \A w \in Workers :
               pc'[w] \in {"run", "put"} => Within(session'[w], crashes)
    PROVE  Used'
<1>1. \A k \in Keys : Putting(k)' = Putting(k) /\ Storing(k)' = Storing(k)
  BY DEF Putting, Storing
<1>2. \A k \in Keys :
          /\ Within(stores'[sessions'][k], crashes + 1)
          /\ ~Putting(k) => Within(stores'[sessions'][k], crashes)
  <2>1. CASE stores'[sessions'] = stores[sessions]
    BY <2>1 DEF Used
  <2>2. CASE \A k \in Keys : Within(stores'[sessions'][k], crashes)
    <3> TAKE k \in Keys
    <3>1. stores'[sessions'][k] \in Session
      BY InServiceType
    <3> QED
      BY <2>2, <3>1, WithinMore
  <2> QED
    BY <2>1, <2>2
<1>3. \A k \in Keys :
          /\ Within(stores[sessions][k], crashes + 1)'
          /\ ~Putting(k)' => Within(stores[sessions][k], crashes)'
  BY <1>1, <1>2 DEF Within
<1>4. (file # Torn)' => \A k \in Keys :
          /\ Within(file[k], crashes + 1)'
          /\ ~Storing(k)' => Within(file[k], crashes)'
  BY <1>1 DEF Used, Within, Torn
<1>5. \A w \in Workers :
          pc'[w] \in {"run", "put"} => Within(session[w], crashes)'
  BY DEF Within
<1> QED
  BY <1>3, <1>4, <1>5 DEF Used

LEMMA UsedNext ==
    ASSUME Typed, Typed', Apart, Mutexes, OneStore, Counted, Counted', Used,
           [Next]_vars
    PROVE  Used'
<1>u. \A i \in Ids : i > ids' => uses'[i] = 0
  <2>1. CASE UNCHANGED <<ids, uses>>
    BY <2>1 DEF Used
  <2>2. ASSUME NEW w \in Workers, RunSucceeds(w)
        PROVE  \A i \in Ids : i > ids' => uses'[i] = 0
    <3>1. PICK id \in {session[w].id} \cup
                 (IF session[w].id = 0 /\ ids < MaxIds THEN {ids + 1} ELSE {}) :
            /\ IF id > ids THEN ids' = id ELSE ids' = ids
            /\ uses' = IF id = 0 THEN uses ELSE [uses EXCEPT ![id] = uses[id] + 1]
      BY <2>2 DEF RunSucceeds
    <3>2. /\ session[w].id \in 0 .. MaxIds /\ ids \in 0 .. MaxIds
          /\ MaxIds \in Nat /\ uses \in [Ids -> Nat]
      BY HandlerTypes DEF Session, Counted, LedgerTyped
    <3>3. id \in 0 .. MaxIds /\ ids' \in 0 .. MaxIds
      BY <3>1, <3>2
    <3>4. id <= ids' /\ ids <= ids'
      BY <3>1, <3>2, <3>3
    <3> QED
      BY <3>1, <3>2, <3>3, <3>4 DEF Used, Ids
  <2> QED
    BY <2>1, <2>2 DEF Next, vars, Snapshot, LockSession, AdminStart, Get,
       RunFails, Put, AdminLoad, AdminSwap, AdminClear, AdminAck, Truncate,
       Write, SetLoad, SetSwap, Crash, ghostVars
<1> SUFFICES ASSUME ~overlapped' PROVE Used'
  BY <1>u DEF Used
<1>o. ~overlapped
  BY NoOverlap
<1>n. /\ crashes \in Nat /\ uses \in [Ids -> Nat] /\ MaxTurns \in Nat
      /\ ids \in Nat /\ MaxIds \in Nat /\ ids <= MaxIds
  BY HandlerTypes DEF Counted, LedgerTyped
<1>1. ASSUME NEW w \in Workers,
             \/ \E k \in Keys : Snapshot(w, k)
             \/ LockSession(w) \/ AdminStart(w) \/ RunFails(w) \/ AdminLoad(w)
             \/ AdminAck(w)
      PROVE  Used'
  <2>1. /\ Others(w) /\ pc'[w] \in {"lock", "get", "load", "swap", "idle"}
        /\ pc[w] \in {"idle", "lock", "run", "load", "acked"}
        /\ UNCHANGED <<sessions, file, ids, uses, crashes>>
    BY <1>1, HandlerTypes DEF Snapshot, LockSession, AdminStart, RunFails,
       AdminLoad, AdminAck, Move, Return, Others, ghostVars
  <2>2. stores'[sessions] = stores[sessions]
    BY <1>1, HandlerTypes, MadeApartFrom DEF Snapshot, LockSession, AdminStart,
       RunFails, AdminLoad, AdminAck, MakeStore
  <2>3. \A v \in Workers : pc'[v] \in {"run", "put"} => Within(session'[v], crashes)
    BY <1>o, <2>1 DEF Others, Used
  <2>4. \A v \in Workers :
            \/ pc'[v] = pc[v] /\ sessionKey'[v] = sessionKey[v]
            \/ {pc[v], pc'[v]} \cap {"put", "putSave"} = {}
    BY <2>1 DEF Others
  <2> QED
    BY <1>o, <2>1, <2>2, <2>3, <2>4, UsedSame
<1>2. ASSUME NEW w \in Workers, AdminSwap(w) \/ AdminClear(w) PROVE Used'
  <2>1. /\ pc[w] \in {"swap", "clear"} /\ pc'[w] \in {"clear", "idle", "clearSave"}
        /\ Others(w) /\ ~AtWork(Workers \ {w})
        /\ UNCHANGED <<file, ids, uses, crashes>>
    BY <1>2, HandlerTypes
       DEF AdminSwap, AdminClear, Move, Return, Observe, Others, ghostVars
  <2>2. \A v \in Workers : pc[v] \in {"idle", "acked", "swap", "clear"}
    BY <2>1, RestAlone DEF AtRest
  <2>3. \A k \in Keys : Within(stores'[sessions'][k], crashes)
    <3>1. CASE AdminSwap(w)
      <4>1. stores'[sessions'] = Loaded
        BY <1>o, <3>1 DEF AdminSwap, Move, OneStore
      <4> QED
        BY <1>o, <2>2, <4>1, LoadedUsed DEF Saving
    <3>2. CASE AdminClear(w)
      BY <3>2, EmptyType, HandlerTypes DEF AdminClear, Within
    <3> QED
      BY <1>2, <3>1, <3>2
  <2>4. \A v \in Workers : pc'[v] \in {"idle", "acked", "swap", "clear", "clearSave"}
    BY <2>1, <2>2 DEF Others
  <2>5. \A v \in Workers :
            \/ pc'[v] = pc[v] /\ sessionKey'[v] = sessionKey[v]
            \/ {pc[v], pc'[v]} \cap {"put", "putSave"} = {}
    BY <2>2, <2>4
  <2> QED
    BY <1>o, <2>1, <2>3, <2>4, <2>5, UsedSame
<1>3. ASSUME NEW w \in Workers, Get(w) PROVE Used'
  <2>1. /\ pc[w] = "get" /\ pc' = [pc EXCEPT ![w] = "run"]
        /\ session' = [session EXCEPT ![w] = stores[store[w]][sessionKey[w]]]
        /\ UNCHANGED <<stores, sessions, file, sessionKey, ids, uses, crashes>>
    BY <1>3 DEF Get, Move, ghostVars
  <2>2. store[w] = sessions
    BY <1>o, <2>1 DEF OneStore
  <2>3. ~Putting(sessionKey[w])
    BY <2>1 DEF Putting, Mutexes, Inside
  <2>4. Within(stores[sessions][sessionKey[w]], crashes)
    BY <1>o, <2>3, HandlerTypes DEF Used
  <2>5. \A v \in Workers : pc'[v] \in {"run", "put"} => Within(session'[v], crashes)
    BY <1>o, <2>1, <2>2, <2>4, HandlerTypes DEF Used
  <2>6. \A v \in Workers :
            \/ pc'[v] = pc[v] /\ sessionKey'[v] = sessionKey[v]
            \/ {pc[v], pc'[v]} \cap {"put", "putSave"} = {}
    BY <2>1, HandlerTypes
  <2> QED
    BY <1>o, <2>1, <2>5, <2>6, UsedSame
<1>4. ASSUME NEW w \in Workers, RunSucceeds(w) PROVE Used'
  <2> DEFINE key == sessionKey[w]
  <2>1. PICK id \in {session[w].id} \cup
                 (IF session[w].id = 0 /\ ids < MaxIds THEN {ids + 1} ELSE {}) :
         /\ session' = [session EXCEPT ![w] = [id |-> id, turns |-> @.turns + 1]]
         /\ uses' = IF id = 0 THEN uses ELSE [uses EXCEPT ![id] = uses[id] + 1]
    BY <1>4 DEF RunSucceeds
  <2>2. /\ pc[w] = "run" /\ pc' = [pc EXCEPT ![w] = "put"]
        /\ UNCHANGED <<stores, sessions, file, sessionKey, crashes>>
    BY <1>4 DEF RunSucceeds, Move
  <2>3. /\ session[w].id \in 0 .. MaxIds /\ session[w].turns \in Nat
        /\ session[w].turns < MaxTurns
        /\ session'[w] = [id |-> id, turns |-> session[w].turns + 1]
        /\ \A v \in Workers \ {w} : session'[v] = session[v]
    BY <1>n, <2>1, <2>2, HandlerTypes DEF Typed, Resumable, Session
  (* The id is the chat's own, or new. *)
  <2>4. /\ id \in 0 .. MaxIds
        /\ id # 0 => \/ id = session[w].id /\ id \in 1 .. ids /\ owner[id] = key
                     \/ id = ids + 1 /\ id \in Ids
    <3>1. Own(session[w], key)
      BY <2>2 DEF Apart, Captured
    <3> QED
      BY <1>n, <2>1, <2>3, <3>1 DEF Own, Ids
  <2>5. id # 0 => uses[id] <= session[w].turns + crashes
    <3>1. CASE id # 0 /\ id = session[w].id
      BY <1>o, <2>2, <3>1 DEF Used, Within
    <3>2. CASE id = ids + 1 /\ id \in Ids
      <4>1. uses[id] = 0
        BY <1>n, <3>2 DEF Used
      <4> QED
        BY <1>n, <2>3, <4>1
    <3> QED
      BY <2>4, <3>1, <3>2
  <2>6. \A i \in Ids : \/ uses'[i] = uses[i]
                       \/ i = id /\ id # 0 /\ uses'[i] = uses[i] + 1
    BY <1>n, <2>1
  <2>7. \A i \in Ids : uses'[i] <= MaxTurns + crashes
    <3> TAKE i \in Ids
    <3>1. CASE uses'[i] = uses[i]
      BY <1>o, <3>1 DEF Used
    <3>2. CASE i = id /\ id # 0 /\ uses'[i] = uses[i] + 1
      BY <1>n, <2>3, <2>5, <3>2
    <3> QED
      BY <2>6, <3>1, <3>2
  (* Another chat's sessions are not concerned. *)
  <2>8. ASSUME NEW k \in Keys, k # key, NEW s \in Session, Own(s, k)
        PROVE  \A n : Within(s, n)' = Within(s, n)
    <3>1. s.id # 0 => s.id \in 1 .. ids /\ owner[s.id] = k
      BY <2>8 DEF Own
    <3>2. s.id # 0 => s.id # id /\ s.id \in Ids
      BY <1>n, <2>4, <2>8, <3>1 DEF Ids
    <3>3. s.id # 0 => uses'[s.id] = uses[s.id]
      BY <2>6, <3>2
    <3> QED
      BY <3>3 DEF Within
  <2>9. Putting(key)' /\ Storing(key)'
    BY <2>2, HandlerTypes DEF Putting, Storing
  <2>10. \A k \in Keys \ {key} : Putting(k)' = Putting(k) /\ Storing(k)' = Storing(k)
    BY <2>2, HandlerTypes DEF Putting, Storing
  (* Nobody else was recording a turn of this chat. *)
  <2>11. ~Putting(key) /\ ~Storing(key)
    BY <2>2 DEF Putting, Storing, Mutexes, Inside
  <2>12. ASSUME NEW s \in Session, Within(s, crashes)
         PROVE  Within(s, crashes + 1)'
    <3>1. s.id \in 0 .. MaxIds /\ s.turns \in Nat
      BY <1>n DEF Session
    <3>2. s.id # 0 => s.id \in Ids
      BY <1>n, <3>1 DEF Ids
    <3>3. s.id # 0 => uses'[s.id] <= uses[s.id] + 1 /\ uses[s.id] \in Nat
      BY <1>n, <2>6, <3>2
    <3>4. uses' \in [Ids -> Nat] /\ crashes' = crashes
      BY <2>2 DEF Counted, LedgerTyped
    <3> QED
      BY <1>n, <2>12, <3>1, <3>2, <3>3, <3>4 DEF Within
  <2>13. \A k \in Keys :
            /\ Within(stores[sessions][k], crashes + 1)'
            /\ ~Putting(k)' => Within(stores[sessions][k], crashes)'
    <3> TAKE k \in Keys
    <3> DEFINE s == stores[sessions][k]
    <3>1. /\ s \in Session /\ Own(s, k) /\ UNCHANGED s
          /\ Within(s, crashes + 1) /\ (~Putting(k) => Within(s, crashes))
      BY <1>o, <2>2, HandlerTypes DEF Apart, Used
    <3> HIDE DEF s
    <3>2. CASE k = key
      BY <2>2, <2>9, <2>11, <2>12, <3>1, <3>2 DEF Within, s
    <3>3. CASE k # key
      BY <2>2, <2>8, <2>10, <3>1, <3>3 DEF Within, s
    <3> QED
      BY <3>2, <3>3
  <2>14. (file # Torn)' => \A k \in Keys :
            /\ Within(file[k], crashes + 1)'
            /\ ~Storing(k)' => Within(file[k], crashes)'
    <3> SUFFICES ASSUME file # Torn, NEW k \in Keys
                 PROVE  /\ Within(file[k], crashes + 1)'
                        /\ ~Storing(k)' => Within(file[k], crashes)'
      BY <2>2 DEF Torn
    <3> DEFINE s == file[k]
    <3>1. /\ s \in Session /\ Own(s, k) /\ UNCHANGED s
          /\ Within(s, crashes + 1) /\ (~Storing(k) => Within(s, crashes))
      BY <1>o, <2>2 DEF Apart, Used, Typed, TypeOK
    <3> HIDE DEF s
    <3>2. CASE k = key
      BY <2>2, <2>9, <2>11, <2>12, <3>1, <3>2 DEF Within, s
    <3>3. CASE k # key
      BY <2>2, <2>8, <2>10, <3>1, <3>3 DEF Within, s
    <3> QED
      BY <3>2, <3>3
  <2>15. ASSUME NEW v \in Workers, pc'[v] \in {"run", "put"}
         PROVE  Within(session[v], crashes)'
    <3>1. CASE v = w
      <4>1. id # 0 => uses'[id] = uses[id] + 1 /\ uses[id] \in Nat
        BY <1>n, <2>1, <2>4 DEF Ids
      <4> QED
        BY <1>n, <2>2, <2>3, <2>5, <3>1, <4>1 DEF Within
    <3>2. CASE v # w
      <4>1. /\ pc[v] \in {"run", "put"} /\ session'[v] = session[v]
            /\ sessionKey[v] # key
        BY <2>2, <2>3, <2>15, <3>2, HandlerTypes DEF Mutexes, Inside
      <4>2. /\ Own(session[v], sessionKey[v]) /\ Within(session[v], crashes)
            /\ session[v] \in Session /\ sessionKey[v] \in Keys
        BY <1>o, <4>1, HandlerTypes DEF Apart, Captured, Used
      <4>3. session[v].id # 0 => uses'[session[v].id] = uses[session[v].id]
        <5>2. session[v].id # 0 =>
                  session[v].id \in 1 .. ids /\ owner[session[v].id] = sessionKey[v]
          BY <4>2 DEF Own
        <5>3. session[v].id # 0 => session[v].id # id /\ session[v].id \in Ids
          BY <1>n, <2>4, <4>1, <5>2 DEF Ids
        <5> QED
          BY <2>6, <5>3
      <4> QED
        BY <2>2, <4>1, <4>2, <4>3 DEF Within
    <3> QED
      BY <3>1, <3>2
  <2> QED
    BY <1>u, <2>2, <2>7, <2>13, <2>14, <2>15 DEF Used
<1>5. ASSUME NEW w \in Workers, Put(w) PROVE Used'
  <2> DEFINE key == sessionKey[w]
  <2>1. /\ pc[w] = "put" /\ pc' = [pc EXCEPT ![w] = "putSave"]
        /\ stores' = [stores EXCEPT ![store[w]][key] = Kept(session[w])]
        /\ UNCHANGED <<sessions, session, sessionKey, file, ids, uses, crashes>>
    BY <1>5 DEF Put, Move, ghostVars
  <2>2. store[w] = sessions
    BY <1>o, <2>1 DEF OneStore
  <2>3. Within(Kept(session[w]), crashes)
    BY <1>o, <2>1, EmptyType DEF Used, Within, Kept
  <2>4. /\ stores'[sessions][key] = Kept(session[w])
        /\ \A k \in Keys \ {key} : stores'[sessions][k] = stores[sessions][k]
        /\ stores'[sessions][key] \in Session
    <3>1. stores'[sessions][key] \in Session
      BY <2>1, HandlerTypes, InServiceType
    <3> QED
      BY <2>1, <2>2, <3>1, HandlerTypes
  <2>5. \A k \in Keys : /\ Storing(k)' = Storing(k)
                        /\ k # key => Putting(k)' = Putting(k)
    BY <2>1, HandlerTypes DEF Putting, Storing
  <2>6. \A k \in Keys :
            /\ Within(stores[sessions][k], crashes + 1)'
            /\ ~Putting(k)' => Within(stores[sessions][k], crashes)'
    <3> TAKE k \in Keys
    <3>1. CASE k = key
      BY <2>1, <2>3, <2>4, <3>1, WithinMore DEF Within
    <3>2. CASE k # key
      BY <1>o, <2>1, <2>4, <2>5, <3>2 DEF Used, Within
    <3> QED
      BY <3>1, <3>2
  <2>7. (file # Torn)' => \A k \in Keys :
            /\ Within(file[k], crashes + 1)'
            /\ ~Storing(k)' => Within(file[k], crashes)'
    BY <1>o, <2>1, <2>5 DEF Used, Within, Torn
  <2>8. \A v \in Workers :
            pc'[v] \in {"run", "put"} => Within(session[v], crashes)'
    BY <1>o, <2>1, HandlerTypes DEF Used, Within
  <2>9. \A i \in Ids : uses'[i] <= MaxTurns + crashes'
    BY <1>o, <2>1 DEF Used
  <2> QED
    BY <1>u, <2>6, <2>7, <2>8, <2>9 DEF Used
<1>6. ASSUME NEW w \in Workers, Truncate(w) PROVE Used'
  <2>1. /\ file' = Torn
        /\ UNCHANGED <<stores, sessions, pc, sessionKey, session, ids, uses, crashes>>
    BY <1>6 DEF Truncate, handlerVars, ghostVars
  <2> QED
    BY <1>o, <2>1, UsedSame DEF Used
<1>7. ASSUME NEW w \in Workers, Write(w) PROVE Used'
  <2>1. /\ Saving(w) /\ store[w] = sessions
        /\ file' = stores[sessions] \/ file' = Torn
        /\ UNCHANGED <<stores, sessions, ids, uses, crashes>>
    BY <1>7, <1>o DEF Write, ghostVars, OneStore, Saving
  <2>2. Others(w) /\ pc'[w] \in {"idle", "acked"}
    <3>1. CASE pc[w] = "putSave"
      BY <1>7, <3>1, ReturnOthers DEF Write
    <3>2. CASE pc[w] = "clearSave"
      BY <1>7, <3>2, HandlerTypes DEF Write, Move, Others
    <3> QED
      BY <2>1, <3>1, <3>2 DEF Saving
  <2>3. \A k \in Keys : /\ Putting(k)' = Putting(k)
                        /\ Putting(k) => Storing(k)'
    BY <2>1, <2>2 DEF Putting, Storing, Others, Saving
  <2>4. \A k \in Keys :
            /\ Within(stores[sessions][k], crashes + 1)'
            /\ ~Putting(k)' => Within(stores[sessions][k], crashes)'
    BY <1>o, <2>1, <2>3 DEF Used, Within
  <2>5. (file # Torn)' => \A k \in Keys :
            /\ Within(file[k], crashes + 1)'
            /\ ~Storing(k)' => Within(file[k], crashes)'
    BY <2>1, <2>3, <2>4 DEF Within, Torn
  <2>6. \A v \in Workers :
            pc'[v] \in {"run", "put"} => Within(session[v], crashes)'
    BY <1>o, <2>1, <2>2 DEF Used, Within, Others
  <2>7. \A i \in Ids : uses'[i] <= MaxTurns + crashes'
    BY <1>o, <2>1 DEF Used
  <2> QED
    BY <1>u, <2>4, <2>5, <2>6, <2>7 DEF Used
<1>8. CASE SetLoad
  <2>1. /\ MakeStore
        /\ UNCHANGED <<sessions, file, pc, sessionKey, session, ids, uses, crashes>>
    BY <1>8 DEF SetLoad, handlerVars, ghostVars
  <2>2. stores'[sessions'] = stores[sessions]
    BY <2>1, MadeApartFrom, HandlerTypes DEF MakeStore
  <2> QED
    BY <1>o, <2>1, <2>2, UsedSame DEF Used
<1>9. CASE SetSwap
  <2>1. /\ set = "swap" /\ sessions' = setStore
        /\ UNCHANGED <<stores, file, pc, sessionKey, session, ids, uses, crashes>>
    BY <1>9 DEF SetSwap, handlerVars, ghostVars
  <2>2. stores[setStore] = Loaded /\ \A v \in Workers : pc[v] \in {"idle", "acked"}
    BY <1>o, <2>1 DEF OneStore, AtRest
  <2>3. \A k \in Keys : Within(stores'[sessions'][k], crashes)
    BY <1>o, <2>1, <2>2, LoadedUsed DEF Saving
  <2> QED
    BY <1>o, <2>1, <2>2, <2>3, UsedSame
<1>10. CASE Crash
  <2>1. /\ stores' = [s \in Stores |-> IF s = 1 THEN Loaded ELSE Empty]
        /\ sessions' = 1 /\ pc' = [v \in Workers |-> "idle"]
        /\ crashes' = crashes + 1
        /\ UNCHANGED <<file, ids, uses>>
    BY <1>10 DEF Crash, ghostVars
  <2>2. stores'[sessions'] = Loaded
    BY <2>1, BoundTypes DEF Stores
  <2>3. \A k \in Keys : Within(Loaded[k], crashes')
    BY <1>o, <2>1, EmptyType DEF Used, Loaded, Within
  <2>4. \A k \in Keys : Within(stores[sessions][k], crashes)'
    BY <2>1, <2>2, <2>3 DEF Within
  <2>5. \A k \in Keys : stores'[sessions'][k] \in Session
    BY InServiceType
  <2>6. \A k \in Keys : Within(stores[sessions][k], crashes + 1)'
    <3> TAKE k \in Keys
    <3>1. /\ stores'[sessions'][k].turns \in Nat
          /\ stores'[sessions'][k].id # 0 => uses[stores'[sessions'][k].id] \in Nat
      BY <1>n, <2>5 DEF Session, Ids
    <3> QED
      BY <1>n, <2>1, <2>4, <3>1 DEF Within
  <2>7. (file # Torn)' => Loaded = file'
    BY <2>1 DEF Loaded, Torn
  <2>8. \A i \in Ids : uses'[i] <= MaxTurns + crashes'
    BY <1>n, <1>o, <2>1 DEF Used
  <2>9. (file # Torn)' => \A k \in Keys :
            /\ Within(file[k], crashes + 1)'
            /\ Within(file[k], crashes)'
    BY <2>2, <2>4, <2>6, <2>7 DEF Within, Torn
  <2> QED
    BY <1>u, <2>1, <2>4, <2>6, <2>8, <2>9 DEF Used
<1>11. CASE UNCHANGED vars
  BY <1>11, <1>o, UsedSame DEF vars, handlerVars, ghostVars, Used
<1> QED
  BY <1>1, <1>2, <1>3, <1>4, <1>5, <1>6, <1>7, <1>8, <1>9, <1>10, <1>11
     DEF Next

Alone == Mutexes /\ OneStore /\ Counted /\ Cleared /\ Used

LEMMA AloneInit == Init => Alone
<1>1. Init => Mutexes
  BY DEF Init, Mutexes, Saving, Inside
<1>2. Init => OneStore
  <2> SUFFICES ASSUME Init PROVE OneStore
    OBVIOUS
  <2>1. /\ stores[sessions] = Empty /\ file = Empty /\ set = "idle"
        /\ \A s \in Stores : locked[s] = "free"
        /\ \A w \in Workers : pc[w] = "idle"
    BY BoundTypes DEF Init, Stores
  <2>2. Loaded = Empty
    BY <2>1 DEF Loaded
  <2> QED
    BY <2>1, <2>2 DEF OneStore
<1> QED
  BY <1>1, <1>2, CountedInit, ClearedInit, UsedInit DEF Alone

LEMMA AloneAlways == Spec => []Alone
<1>1. Typed /\ Apart /\ Alone /\ [Next]_vars => Alone'
  <2> SUFFICES ASSUME Typed, Apart, Alone, [Next]_vars PROVE Alone'
    OBVIOUS
  <2>1. Typed'
    BY TypedNext
  <2>2. Mutexes' /\ OneStore' /\ Counted' /\ Cleared'
    BY MutexesNext, OneStoreNext, CountedNext, ClearedNext DEF Alone
  <2>3. Used'
    BY <2>1, <2>2, UsedNext DEF Alone
  <2> QED
    BY <2>2, <2>3 DEF Alone
<1>2. Typed /\ Apart /\ [Next]_vars => Apart'
  BY ApartNext
<1> QED
  BY <1>1, <1>2, ApartInit, AloneInit, TypedAlways, PTL DEF Spec

(* Without an overlapping update, an acknowledged reset lasts, through     *)
(* any number of further resets, turns and crashes.                        *)
THEOREM ResetsLast == Spec => []ResetEffectiveAlone
<1>1. Typed /\ Alone => ResetEffectiveAlone
  <2> SUFFICES ASSUME Typed, Alone, ~overlapped, NEW w \in Workers,
                      pc[w] = "run", session[w].id # 0
               PROVE  bornIn[session[w].id] >= since[w]
    BY DEF ResetEffectiveAlone, ResetEffective
  <2>1. bornIn[session[w].id] >= resets + Cardinality(Clearers)
    BY DEF Alone, Cleared, Since
  <2>2. session[w].id \in Ids
    <3>1. session[w] \in Session
      BY HandlerTypes
    <3>2. session[w].id \in 0 .. MaxIds
      BY <3>1 DEF Session
    <3> QED
      BY <3>2, BoundAssumption DEF Ids
  <2>3. /\ bornIn[session[w].id] \in Nat /\ Cardinality(Clearers) \in Nat
        /\ resets \in Nat /\ since[w] \in Nat /\ since[w] <= resets
    BY <2>2, PendingTypes, HandlerTypes DEF Alone, Counted, LedgerTyped
  <2> QED
    BY <2>1, <2>3
<1> QED
  BY <1>1, AloneAlways, TypedAlways, PTL

(* Without an overlapping update, only a crash gives a Hermes session a    *)
(* turn beyond max_turns.                                                  *)
THEOREM TurnsAreCounted == Spec => []UsesBoundedAlone
<1>1. Alone => UsesBoundedAlone
  BY DEF Alone, Used, UsesBoundedAlone, UsesBounded
<1> QED
  BY <1>1, AloneAlways, PTL

(* Without an overlapping update, sessions.json holds the sessions in      *)
(* service whenever nobody is changing them.                               *)
THEOREM FileFollowsStore == Spec => []FileAgreesAlone
<1>1. Typed /\ Alone => FileAgreesAlone
  <2> SUFFICES ASSUME Typed, Alone, ~overlapped, Quiet
               PROVE  stores[sessions] = Loaded
    BY DEF FileAgreesAlone, FileAgrees
  <2>1. \A v \in Workers : ~Saving(v)
    BY DEF Quiet, Saving
  <2>2. locked[sessions] = "free"
    BY <2>1, RestFree, HandlerTypes DEF Alone
  <2> QED
    BY <2>2 DEF Alone, OneStore
<1> QED
  BY <1>1, AloneAlways, TypedAlways, PTL

-----------------------------------------------------------------------------
(* Sessions implements SessionLedger.                                      *)
(*                                                                         *)
(* Sequence is what OneStore and Mutexes are for: nobody changes a session *)
(* between the moment a handler reads it and the one it records the turn.  *)

(* The session n is the session s after one more turn. *)
Follows(s, n) ==
    n.turns = s.turns + 1 /\ n.id \in Promise!Continued(s)

Sequence ==
    ~overlapped =>
        \A w \in Workers :
            LET s == stores[sessions][sessionKey[w]]
            IN /\ pc[w] = "run" => session[w] = s
               /\ pc[w] = "put" => Follows(s, session[w])

LEMMA SequenceInit == Init => Sequence
  BY DEF Init, Sequence

(* The others' sessions are as they were, and w runs and records none.     *)
LEMMA SequenceElsewhere ==
    ASSUME Sequence, ~overlapped, NEW w \in Workers, Others(w),
           pc'[w] \notin {"run", "put"},
           stores'[sessions'] = stores[sessions]
    PROVE  Sequence'
  BY DEF Sequence, Others, Follows, Promise!Continued

(* Nobody else is at work. *)
LEMMA SequenceAlone ==
    ASSUME NEW w \in Workers, \A v \in Workers \ {w} : AtRest(v), Others(w),
           pc'[w] \notin {"run", "put"}
    PROVE  Sequence'
  BY DEF Sequence, Others, AtRest

(* One step per action of a handler that reads, runs or records.           *)
LEMMA SequenceNext ==
    Typed /\ Mutexes /\ OneStore /\ Sequence /\ [Next]_vars => Sequence'
<1> SUFFICES ASSUME Typed, Mutexes, OneStore, Sequence, [Next]_vars,
                    ~overlapped'
             PROVE  Sequence'
  BY DEF Sequence
<1>o. ~overlapped
  BY NoOverlap
<1>1. ASSUME NEW w \in Workers,
             \/ \E k \in Keys : Snapshot(w, k)
             \/ LockSession(w) \/ AdminStart(w) \/ RunFails(w)
             \/ AdminAck(w) \/ Truncate(w) \/ Write(w)
      PROVE  Sequence'
  <2>1. Others(w) /\ pc'[w] \notin {"run", "put"}
    BY <1>1, HandlerTypes
       DEF Snapshot, LockSession, AdminStart, RunFails, AdminAck, Truncate,
           Write, Saving, Move, Return, Others, handlerVars
  <2>2. stores' = stores /\ sessions' = sessions
    BY <1>1 DEF Snapshot, LockSession, AdminStart, RunFails, AdminAck,
       Truncate, Write
  <2> QED
    BY <1>o, <2>1, <2>2, SequenceElsewhere
<1>2. ASSUME NEW w \in Workers, Get(w) PROVE Sequence'
  <2>1. /\ pc[w] = "get" /\ pc' = [pc EXCEPT ![w] = "run"]
        /\ session' = [session EXCEPT ![w] = stores[store[w]][sessionKey[w]]]
        /\ UNCHANGED <<stores, sessions, sessionKey>>
    BY <1>2 DEF Get, Move
  <2>2. store[w] = sessions
    BY <1>o, <2>1 DEF OneStore
  <2>3. pc'[w] = "run" /\ session'[w] = stores[sessions][sessionKey[w]]
    BY <2>1, <2>2, HandlerTypes
  <2>4. \A v \in Workers \ {w} : pc'[v] = pc[v] /\ session'[v] = session[v]
    BY <2>1, HandlerTypes
  <2> QED
    BY <1>o, <2>1, <2>3, <2>4 DEF Sequence, Follows, Promise!Continued
<1>3. ASSUME NEW w \in Workers, RunSucceeds(w) PROVE Sequence'
  <2>1. /\ pc[w] = "run" /\ pc' = [pc EXCEPT ![w] = "put"]
        /\ UNCHANGED <<stores, sessions, sessionKey>>
    BY <1>3 DEF RunSucceeds, Move
  <2>2. PICK id \in {session[w].id} \cup
                 (IF session[w].id = 0 /\ ids < MaxIds THEN {ids + 1} ELSE {}) :
            session' = [session EXCEPT ![w] = [id |-> id,
                                               turns |-> session[w].turns + 1]]
    BY <1>3 DEF RunSucceeds
  <2>3. id \in Promise!Continued(session[w])
    <3>1. session[w].id \in 0 .. MaxIds /\ ids \in 0 .. MaxIds /\ MaxIds \in Nat
      BY HandlerTypes DEF Session
    <3> QED
      BY <2>2, <3>1 DEF Promise!Continued
  <2>4. Follows(session[w], session'[w])
    <3>1. session'[w] = [id |-> id, turns |-> session[w].turns + 1]
      BY <2>2, HandlerTypes
    <3> QED
      BY <2>3, <3>1 DEF Follows
  <2>5. session[w] = stores[sessions][sessionKey[w]]
    BY <1>o, <2>1 DEF Sequence
  <2>6. \A v \in Workers \ {w} : pc'[v] = pc[v] /\ session'[v] = session[v]
    BY <2>1, <2>2, HandlerTypes
  <2>7. pc'[w] = "put"
    BY <2>1, HandlerTypes
  <2>8. ASSUME NEW v \in Workers
        PROVE  LET s == stores[sessions][sessionKey[v]]
               IN /\ pc'[v] = "run" => session'[v] = s
                  /\ pc'[v] = "put" => Follows(s, session'[v])
    <3>1. CASE v = w
      BY <2>4, <2>5, <2>7, <3>1
    <3>2. CASE v # w
      BY <1>o, <2>6, <3>2 DEF Sequence
    <3> QED
      BY <3>1, <3>2
  <2> QED
    BY <2>1, <2>8 DEF Sequence, Follows, Promise!Continued
<1>4. ASSUME NEW w \in Workers, Put(w) PROVE Sequence'
  <2>1. /\ pc[w] = "put" /\ pc' = [pc EXCEPT ![w] = "putSave"]
        /\ stores' = [stores EXCEPT ![store[w]][sessionKey[w]] = Kept(session[w])]
        /\ UNCHANGED <<sessions, sessionKey, session>>
    BY <1>4 DEF Put, Move
  <2>2. store[w] = sessions
    BY <1>o, <2>1 DEF OneStore
  <2>3. \A v \in Workers : pc'[v] \in {"run", "put"} =>
            v # w /\ pc'[v] = pc[v] /\ sessionKey[v] # sessionKey[w]
    BY <2>1, HandlerTypes DEF Mutexes, Inside
  <2>4. \A v \in Workers : sessionKey[v] # sessionKey[w] =>
            stores'[sessions][sessionKey[v]] = stores[sessions][sessionKey[v]]
    BY <2>1, <2>2, HandlerTypes
  <2> QED
    BY <1>o, <2>1, <2>3, <2>4 DEF Sequence, Follows, Promise!Continued
<1>5. ASSUME NEW w \in Workers, AdminLoad(w) \/ AdminSwap(w) \/ AdminClear(w)
      PROVE  Sequence'
  <2>1. /\ \A v \in Workers \ {w} : AtRest(v)
        /\ Others(w) /\ pc'[w] \notin {"run", "put"}
    BY <1>5, RestAlone, HandlerTypes
       DEF AdminLoad, AdminSwap, AdminClear, Move, Return, Observe, Others
  <2> QED
    BY <2>1, SequenceAlone
<1>6. CASE SetLoad \/ SetSwap
  <2>1. pc' = pc /\ \A v \in Workers : AtRest(v)
    BY <1>6, RestAlone DEF SetLoad, SetSwap, Observe, handlerVars
  <2> QED
    BY <2>1 DEF Sequence, AtRest
<1>7. CASE Crash
  BY <1>7 DEF Crash, Sequence
<1>8. CASE UNCHANGED vars
  BY <1>8 DEF vars, handlerVars, Sequence, Follows, Promise!Continued
<1> QED
  BY <1>1, <1>2, <1>3, <1>4, <1>5, <1>6, <1>7, <1>8 DEF Next

(* A store that was truncated and not overtaken finds the file as it left  *)
(* it.                                                                     *)
LeftTorn == \A s \in Stores : locked[s] = "truncated" => file = Torn

LEMMA LeftTornInit == Init => LeftTorn
  BY DEF Init, LeftTorn

LEMMA LeftTornNext == Typed /\ LeftTorn /\ [Next]_vars => LeftTorn'
<1> SUFFICES ASSUME Typed, LeftTorn, [Next]_vars PROVE LeftTorn'
  OBVIOUS
<1> USE DEF LeftTorn, Torn
<1>1. ASSUME NEW w \in Workers, Put(w) \/ AdminClear(w) PROVE LeftTorn'
  BY <1>1, HandlerTypes DEF Put, AdminClear
<1>2. ASSUME NEW w \in Workers, Truncate(w) PROVE LeftTorn'
  BY <1>2 DEF Truncate
<1>3. ASSUME NEW w \in Workers, Write(w) PROVE LeftTorn'
  BY <1>3 DEF Write
<1>4. CASE Crash
  BY <1>4 DEF Crash
<1>5. CASE UNCHANGED <<locked, file>>
  BY <1>5
<1> QED
  BY <1>1, <1>2, <1>3, <1>4, <1>5
     DEF Next, vars, Snapshot, LockSession, AdminStart, Get, RunFails,
         RunSucceeds, AdminLoad, AdminSwap, AdminAck, SetLoad, SetSwap

-----------------------------------------------------------------------------
(* The initial states and the steps.                                       *)

LEMMA LedgerInit == Init => Promise!Init
<1> SUFFICES ASSUME Init PROVE Promise!Init
  OBVIOUS
<1>1. stores[sessions] = Empty /\ file = Empty /\ overlapped = FALSE
  BY BoundTypes DEF Init, Stores
<1>2. Empty = Promise!Empty
  BY DEF Empty, NoSession, Promise!Empty, Promise!NoSession
<1> QED
  BY <1>1, <1>2 DEF Promise!Init

(* The two modules' words for the same things.                             *)
LEMMA SameWords ==
    ASSUME ~overlapped
    PROVE  Promise!Torn = Torn /\ Promise!Empty = Empty /\ Promise!OnDisk = Loaded
  BY DEF Promise!Torn, Torn, Promise!Empty, Promise!NoSession, Empty, NoSession,
         Promise!OnDisk, Loaded

LEMMA LedgerNext ==
    Typed /\ Alone /\ Sequence /\ LeftTorn /\ [Next]_vars
    => [Promise!Next]_(Promise!vars)
<1> SUFFICES ASSUME Typed, Alone, Sequence, LeftTorn, [Next]_vars
             PROVE  [Promise!Next]_(Promise!vars)
  OBVIOUS
<1> USE DEF Promise!vars
<1>1. CASE overlapped'
  <2>1. CASE ~overlapped
    <3>1. Empty = Promise!Empty
      BY DEF Empty, NoSession, Promise!Empty, Promise!NoSession
    <3>2. Promise!Overlap
      BY <1>1, <3>1 DEF Promise!Overlap, Empty, NoSession
    <3> QED
      BY <3>2 DEF Promise!Next
  <2>2. CASE overlapped
    BY <1>1, <2>2 DEF Empty, NoSession
  <2> QED
    BY <2>1, <2>2
<1> SUFFICES ASSUME ~overlapped' PROVE [Promise!Next]_(Promise!vars)
  BY <1>1
<1>o. ~overlapped
  BY NoOverlap
<1>2. ASSUME stores'[sessions'] = stores[sessions], file' = file
      PROVE  [Promise!Next]_(Promise!vars)
  BY <1>o, <1>2
<1>3. ASSUME NEW w \in Workers, Put(w) PROVE Promise!Turn(sessionKey[w])
  <2> DEFINE k == sessionKey[w]
             s == stores[sessions][k]
  <2>1. /\ pc[w] = "put" /\ locked[store[w]] = "free"
        /\ stores' = [stores EXCEPT ![store[w]][k] = Kept(session[w])]
        /\ UNCHANGED <<sessions, file>>
    BY <1>3 DEF Put, Move
  <2>2. store[w] = sessions
    BY <1>o, <2>1 DEF Alone, OneStore
  <2>3. stores[sessions] = Promise!OnDisk
    BY <1>o, <2>1, <2>2, SameWords DEF Alone, OneStore
  <2>4. stores'[sessions] = [stores[sessions] EXCEPT ![k] = Kept(session[w])]
    BY <2>1, <2>2, HandlerTypes
  <2>5. Follows(s, session[w]) /\ session[w] \in Session
    BY <1>o, <2>1, HandlerTypes DEF Sequence
  <2>6. session[w] = [id |-> session[w].id, turns |-> s.turns + 1]
    BY <2>5 DEF Follows, Session
  <2>7. Kept(session[w]) = Promise!After(s, session[w].id)
    BY <2>5, <2>6 DEF Kept, Follows, Promise!After, NoSession, Promise!NoSession
  <2>8. session[w].id \in Promise!Continued(s)
    BY <2>5 DEF Follows
  <2> HIDE DEF k, s
  <2> QED
    BY <1>o, <2>1, <2>3, <2>4, <2>7, <2>8 DEF Promise!Turn, k, s
<1>4. ASSUME NEW w \in Workers, AdminClear(w) PROVE Promise!Reset
  <2>1. /\ locked[sessions] = "free"
        /\ stores' = [stores EXCEPT ![sessions] = Empty]
        /\ UNCHANGED <<sessions, file>>
    BY <1>4 DEF AdminClear
  <2>2. stores[sessions] = Promise!OnDisk
    BY <1>o, <2>1, SameWords DEF Alone, OneStore
  <2>3. stores'[sessions] = Promise!Empty
    BY <1>o, <2>1, HandlerTypes, SameWords
  <2> QED
    BY <1>o, <2>1, <2>2, <2>3 DEF Promise!Reset
<1>5. ASSUME NEW w \in Workers, Truncate(w) PROVE Promise!Tear
  BY <1>5, <1>o, SameWords DEF Truncate, Promise!Tear
<1>6. ASSUME NEW w \in Workers, Write(w)
      PROVE  Promise!Save
  <2>1. /\ Saving(w) /\ locked[store[w]] = "truncated"
        /\ file' = stores[store[w]] /\ UNCHANGED <<stores, sessions>>
    BY <1>6, <1>o, HandlerTypes DEF Write, Alone, OneStore
  <2>2. store[w] = sessions
    BY <1>o, <2>1 DEF Alone, OneStore, Saving
  <2>3. file = Torn
    BY <2>1, HandlerTypes DEF LeftTorn
  <2> QED
    BY <1>o, <2>1, <2>2, <2>3, SameWords DEF Promise!Save
<1>7. ASSUME NEW w \in Workers, AdminSwap(w)
      PROVE  stores'[sessions'] = stores[sessions] /\ file' = file
  <2>1. /\ pc[w] = "swap" /\ sessions' = store[w]
        /\ UNCHANGED <<stores, file>>
        /\ \A v \in Workers \ {w} : AtRest(v)
    BY <1>7, RestAlone DEF AdminSwap, Move, Observe
  <2>2. locked[sessions] = "free"
    BY <2>1, RestFree, HandlerTypes DEF Alone, AtRest, Saving
  <2> QED
    BY <1>o, <2>1, <2>2 DEF Alone, OneStore
<1>8. CASE SetSwap
  <2>1. /\ set = "swap" /\ sessions' = setStore
        /\ UNCHANGED <<stores, file>>
        /\ \A v \in Workers : AtRest(v)
    BY <1>8, RestAlone DEF SetSwap, Observe
  <2>2. locked[sessions] = "free"
    BY <2>1, RestFree, HandlerTypes DEF Alone, AtRest, Saving
  <2>3. stores'[sessions'] = stores[sessions]
    BY <1>o, <2>1, <2>2 DEF Alone, OneStore
  <2> QED
    BY <1>2, <2>1, <2>3
<1>9. ASSUME MakeStore, UNCHANGED <<sessions, file>>
      PROVE  stores'[sessions'] = stores[sessions]
  BY <1>9, MadeApartFrom, HandlerTypes DEF MakeStore
<1>10. CASE Crash
  <2>1. stores'[sessions'] = Loaded /\ file' = file
    BY <1>10, BoundTypes DEF Crash, Stores
  <2> QED
    BY <1>o, <2>1, SameWords DEF Promise!Crash, Promise!Next
<1>11. ASSUME NEW w \in Workers,
              \/ \E k \in Keys : Snapshot(w, k)
              \/ LockSession(w) \/ AdminStart(w) \/ Get(w) \/ RunFails(w)
              \/ RunSucceeds(w) \/ AdminAck(w)
       PROVE  UNCHANGED <<stores, sessions, file>>
  BY <1>11 DEF Snapshot, LockSession, AdminStart, Get, RunFails, RunSucceeds,
     AdminAck
<1>12. ASSUME NEW w \in Workers, AdminLoad(w)
       PROVE  stores'[sessions'] = stores[sessions] /\ file' = file
  BY <1>9, <1>12 DEF AdminLoad
<1>13. CASE SetLoad
  BY <1>2, <1>9, <1>13 DEF SetLoad
<1>14. ASSUME NEW w \in Workers,
              Put(w) \/ AdminClear(w) \/ Truncate(w) \/ Write(w)
       PROVE  [Promise!Next]_(Promise!vars)
  <2>1. sessionKey[w] \in Keys
    BY HandlerTypes
  <2> QED
    BY <1>2, <1>3, <1>4, <1>5, <1>6, <1>14, <2>1 DEF Promise!Next
<1>15. CASE UNCHANGED vars
  BY <1>2, <1>15 DEF vars
<1> QED
  BY <1>2, <1>7, <1>8, <1>10, <1>11, <1>12, <1>13, <1>14, <1>15 DEF Next

(* However handlers interleave, each turn of a chat is recorded on top of  *)
(* the one before, and the file follows, until an update of the            *)
(* configuration overlaps other work (lockSession, store.Get, store.Put    *)
(* and saveLocked).                                                        *)
THEOREM KeepsItsPromise == Spec => ImplementsSessionLedger
<1>1. Spec => [](Typed /\ Alone /\ Sequence /\ LeftTorn)
  <2>1. Typed /\ Alone /\ Sequence /\ [Next]_vars => Sequence'
    BY SequenceNext DEF Alone
  <2> QED
    BY <2>1, TypedAlways, AloneAlways, SequenceInit, LeftTornInit, LeftTornNext,
       PTL DEF Spec
<1> QED
  BY <1>1, LedgerInit, LedgerNext, PTL
     DEF Spec, ImplementsSessionLedger, Promise!Spec
=============================================================================
