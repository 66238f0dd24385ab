--------------------------- MODULE SettingsProofs ---------------------------
(***************************************************************************)
(* Theorems about Settings for any number of handlers, users and texts.    *)
(*                                                                         *)
(* NonOwnersStaySandboxed says something about handlers only, but what     *)
(* they run with may come from any copy of the configuration, by way of    *)
(* the file even through a crash.  Closed says it of all copies.           *)
(* FileAgrees is about the moments when nobody saves; SavedAlone says what *)
(* holds in between.                                                       *)
(***************************************************************************)
EXTENDS Settings, TLAPS

(* Unless the operator let everybody out, no copy of the configuration     *)
(* does.                                                                   *)
Closed ==
    ~opened => /\ file # Torn => ~Open(file)
               /\ ~Open(svc) /\ ~Open(prompt)
               /\ \A w \in Workers : ~Open(snap[w])
               /\ \A x \in Writers : ~Open(next[x])

(* What a handler runs with has been downgraded where it must be.          *)
RunsDowngraded ==
    \A w \in Workers :
        pc[w] = "run" => ~ /\ snap[w].mode = "full" /\ snap[w].ownersOnly
                           /\ user[w] \notin snap[w].owners

LEMMA DefaultType == Default \in Config /\ ~Open(Default) /\ AnyUser \in Users
  BY PartiesAssumption DEF Default, Config, Modes, Open, AnyUser

(* The configurations that a file may stand for. *)
LEMMA LoadedType == TypeOK /\ Closed =>
    Loaded \in Config /\ (~opened => ~Open(Loaded))
  BY DefaultType DEF TypeOK, Loaded, Closed

(* No command lets those who are no owners out of the sandbox. *)
LEMMA AdminEditsType ==
    ASSUME NEW cfg \in Config, NEW new \in AdminEdits(cfg)
    PROVE  new \in Config /\ (Open(new) => Open(cfg))
  BY DEF AdminEdits, Config, Modes, Open

LEMMA SetEditsType ==
    ASSUME NEW cfg \in Config, NEW new \in SetEdits(cfg) PROVE new \in Config
  BY DEF SetEdits, Config, Modes

LEMMA DowngradedType ==
    ASSUME NEW cfg \in Config, NEW u
    PROVE  /\ Downgraded(cfg, u) \in Config
           /\ Open(Downgraded(cfg, u)) => Open(cfg)
           /\ ~ /\ Downgraded(cfg, u).mode = "full"
                /\ Downgraded(cfg, u).ownersOnly
                /\ u \notin Downgraded(cfg, u).owners
  BY DEF Downgraded, Config, Modes, Open

IInv == TypeOK /\ Closed /\ RunsDowngraded

LEMMA IInvInit == Init => IInv
<1> SUFFICES ASSUME Init PROVE IInv
  OBVIOUS
<1>1. file \in Config
  BY DefaultType, BoundAssumption DEF Init, Default, Config
<1>2. opened = Open(file) /\ Open(file) \in BOOLEAN
  BY DEF Init, Open
<1>3. TypeOK
  BY <1>1, <1>2, DefaultType DEF Init, TypeOK
<1>4. Closed
  BY <1>2, DefaultType DEF Init, Closed
<1>5. RunsDowngraded
  BY DEF Init, RunsDowngraded, Writers
<1> QED
  BY <1>3, <1>4, <1>5 DEF IInv

(* Who returns keeps the locals' types and opens nothing. *)
LEMMA ReturnKeeps ==
    ASSUME IInv, NEW w \in Workers, Return(w),
           UNCHANGED <<opened>>
    PROVE  /\ pc' \in [Writers -> {"idle", "begun", "run", "save", "write",
                                   "overtaken", "install"}]
           /\ user' \in [Workers -> Users] /\ snap' \in [Workers -> Config]
           /\ next' \in [Writers -> Config]
           /\ ~opened => /\ \A v \in Workers : ~Open(snap'[v])
                         /\ \A x \in Writers : ~Open(next'[x])
           /\ RunsDowngraded'
<1> USE DefaultType DEF IInv, TypeOK, Return, Writers
<1>1. /\ pc' \in [Writers -> {"idle", "begun", "run", "save", "write",
                              "overtaken", "install"}]
      /\ user' \in [Workers -> Users] /\ snap' \in [Workers -> Config]
      /\ next' \in [Writers -> Config]
  OBVIOUS
<1>2. ~opened => /\ \A v \in Workers : ~Open(snap'[v])
                 /\ \A x \in Writers : ~Open(next'[x])
  BY DEF Closed
<1>3. RunsDowngraded'
  BY DEF RunsDowngraded
<1> QED
  BY <1>1, <1>2, <1>3

LEMMA LeaveKeeps ==
    ASSUME IInv, NEW x \in Writers, Leave(x), UNCHANGED <<opened>>
    PROVE  /\ pc' \in [Writers -> {"idle", "begun", "run", "save", "write",
                                   "overtaken", "install"}]
           /\ user' \in [Workers -> Users] /\ snap' \in [Workers -> Config]
           /\ next' \in [Writers -> Config]
           /\ ~opened => /\ \A v \in Workers : ~Open(snap'[v])
                         /\ \A y \in Writers : ~Open(next'[y])
           /\ RunsDowngraded'
<1>1. CASE x \in Workers
  <2>1. Return(x)
    BY <1>1, PartiesAssumption DEF Leave
  <2> QED
    BY <1>1, <2>1, ReturnKeeps
<1>2. CASE x = Prompt
  <2> USE <1>2, DefaultType, PartiesAssumption DEF IInv, TypeOK, Leave, Writers
  <2>1. /\ pc' = [pc EXCEPT ![Prompt] = "idle"]
        /\ next' = [next EXCEPT ![Prompt] = Default]
        /\ UNCHANGED <<user, snap>>
    OBVIOUS
  <2>2. ~opened => /\ \A v \in Workers : ~Open(snap'[v])
                   /\ \A y \in Writers : ~Open(next'[y])
    BY <2>1 DEF Closed
  <2>3. RunsDowngraded'
    BY <2>1 DEF RunsDowngraded
  <2> QED
    BY <2>1, <2>2, <2>3
<1> QED
  BY <1>1, <1>2 DEF Writers

(* Only Set can open a copy, and it says so. *)
LEMMA IInvNext == IInv /\ [Next]_vars => IInv'
<1> SUFFICES ASSUME IInv, [Next]_vars PROVE IInv'
  OBVIOUS
<1>1. ASSUME NEW w \in Workers, NEW u \in Users, Snapshot(w, u) PROVE IInv'
  BY <1>1 DEF Snapshot, copies, IInv, TypeOK, Closed, RunsDowngraded, Writers
<1>2. ASSUME NEW w \in Workers, Answer(w) \/ RunEnds(w) PROVE IInv'
  BY <1>2, ReturnKeeps DEF Answer, RunEnds, copies, IInv, TypeOK, Closed
<1>3. ASSUME NEW w \in Workers, Run(w) PROVE IInv'
  <2>1. /\ pc' = [pc EXCEPT ![w] = "run"]
        /\ snap' = [snap EXCEPT ![w] = Downgraded(snap[w], user[w])]
        /\ UNCHANGED <<file, svc, prompt, user, next, opened, overlapped>>
    BY <1>3 DEF Run, copies, IInv, TypeOK
  <2>2. snap[w] \in Config
    BY DEF IInv, TypeOK
  <2> QED
    BY <2>1, <2>2, DowngradedType
       DEF IInv, TypeOK, Closed, RunsDowngraded, Writers
<1>4. ASSUME NEW w \in Workers, Admin(w) PROVE IInv'
  <2>1. PICK cfg \in AdminEdits(snap[w]) : next' = [next EXCEPT ![w] = cfg]
    BY <1>4 DEF Admin
  <2>2. /\ pc' = [pc EXCEPT ![w] = "save"]
        /\ UNCHANGED <<file, svc, prompt, user, snap, opened, overlapped>>
    BY <1>4 DEF Admin, copies
  <2>3. cfg \in Config /\ (Open(cfg) => Open(snap[w]))
    BY AdminEditsType DEF IInv, TypeOK
  <2> QED
    BY <2>1, <2>2, <2>3 DEF IInv, TypeOK, Closed, RunsDowngraded, Writers
<1>5. CASE Set
  <2>1. PICK cfg \in SetEdits(prompt) :
            /\ next' = [next EXCEPT ![Prompt] = cfg]
            /\ opened' = (opened \/ Open(cfg))
    BY <1>5 DEF Set
  <2>2. /\ pc' = [pc EXCEPT ![Prompt] = "save"]
        /\ UNCHANGED <<file, svc, prompt, user, snap, overlapped>>
    BY <1>5 DEF Set, copies
  <2>3. cfg \in Config
    BY SetEditsType DEF IInv, TypeOK
  <2>4. opened' \in BOOLEAN
    BY <2>1 DEF IInv, TypeOK
  <2>5. TypeOK'
    BY <2>1, <2>2, <2>3, <2>4 DEF IInv, TypeOK, Writers
  <2>6. Closed'
    BY <2>1, <2>2 DEF IInv, TypeOK, Closed, Writers, Torn
  <2>7. RunsDowngraded'
    BY <2>2, PartiesAssumption DEF IInv, TypeOK, RunsDowngraded, Writers
  <2> QED
    BY <2>5, <2>6, <2>7 DEF IInv
<1>6. CASE Detect
  <2>1. svc' \in Config /\ (Open(svc') => Open(svc))
    BY <1>6 DEF Detect, IInv, TypeOK, Config, Open
  <2> QED
    BY <1>6, <2>1 DEF Detect, locals, IInv, TypeOK, Closed, RunsDowngraded
<1>7. ASSUME NEW x \in Writers, SaveFails(x) PROVE IInv'
  BY <1>7, LeaveKeeps DEF SaveFails, copies, IInv, TypeOK, Closed
<1>8. ASSUME NEW x \in Writers, Truncate(x) PROVE IInv'
  <2>1. overlapped' \in BOOLEAN
    BY <1>8 DEF Truncate
  <2>2. /\ pc' = [pc EXCEPT ![x] = "write"] /\ file' = Torn
        /\ UNCHANGED <<svc, prompt, user, snap, next, opened>>
    BY <1>8 DEF Truncate
  <2> QED
    BY <2>1, <2>2 DEF IInv, TypeOK, Closed, RunsDowngraded, Torn, Writers
<1>9. ASSUME NEW x \in Writers, Write(x) PROVE IInv'
  <2>1. file' = next[x] \/ file' = Torn
    BY <1>9 DEF Write
  <2>2. /\ pc' = [y \in Writers |-> IF y = x THEN "install"
                                    ELSE IF pc[y] = "write" THEN "overtaken"
                                    ELSE pc[y]]
        /\ UNCHANGED <<svc, prompt, user, snap, next, opened, overlapped>>
    BY <1>9 DEF Write
  <2>3. TypeOK'
    BY <2>1, <2>2 DEF IInv, TypeOK
  <2>4. Closed'
    BY <2>1, <2>2 DEF IInv, Closed, Torn
  <2>5. RunsDowngraded'
    BY <2>2 DEF IInv, RunsDowngraded, Writers
  <2> QED
    BY <2>3, <2>4, <2>5 DEF IInv
<1>10. ASSUME NEW x \in Writers, Install(x) PROVE IInv'
  <2>1. /\ Leave(x) /\ svc' = next[x]
        /\ prompt' = IF x = Prompt THEN next[x] ELSE prompt
        /\ UNCHANGED <<file, opened, overlapped>>
    BY <1>10 DEF Install
  <2> QED
    BY <2>1, LeaveKeeps DEF IInv, TypeOK, Closed
<1>11. CASE Crash
  BY <1>11, LoadedType, DefaultType
     DEF Crash, IInv, TypeOK, Closed, RunsDowngraded, Writers
<1>12. CASE UNCHANGED vars
  BY <1>12 DEF vars, copies, locals, IInv, TypeOK, Closed, RunsDowngraded
<1> QED
  BY <1>1, <1>2, <1>3, <1>4, <1>5, <1>6, <1>7, <1>8, <1>9, <1>10, <1>11,
     <1>12 DEF Next

LEMMA IInvAlways == Spec => []IInv
<1>1. IInv /\ [Next]_vars => IInv'
  BY IInvNext
<1> QED
  BY <1>1, IInvInit, PTL DEF Spec

(* Every copy is a whole configuration, the file one or truncated.         *)
THEOREM TypeCorrect == Spec => []TypeOK
<1>1. IInv => TypeOK
  BY DEF IInv
<1> QED
  BY <1>1, IInvAlways, PTL

(* Only the operator lets who is no owner run outside of the sandbox,      *)
(* whatever text the mode is; no admin command does, however it overlaps   *)
(* others, the "set" and a crash.                                          *)
THEOREM OnlyTheOperatorOpens == Spec => []NonOwnersStaySandboxed
<1>1. IInv => NonOwnersStaySandboxed
  <2> SUFFICES ASSUME IInv, NEW w \in Workers, pc[w] = "run",
                      snap[w].mode # "sandbox", user[w] \notin snap[w].owners
               PROVE  opened
    BY DEF NonOwnersStaySandboxed
  <2>1. Open(snap[w])
    BY DEF IInv, RunsDowngraded, Open
  <2> QED
    BY <2>1 DEF IInv, Closed
<1> QED
  BY <1>1, IInvAlways, PTL

-----------------------------------------------------------------------------
(* FileAgrees says nothing of the moments when somebody is saving.  What   *)
(* holds then, unless two have been saving at once: it is one only, whom   *)
(* nobody overtakes, and once it has written, the file is what it          *)
(* installs.                                                               *)
SavedAlone ==
    ~overlapped =>
        /\ \A x, y \in Writers : Writing(x) /\ Writing(y) => x = y
        /\ \A x \in Writers :
              /\ pc[x] # "overtaken"
              /\ pc[x] = "install" => file = next[x]

Agreed == SavedAlone /\ FileAgrees

(* A whole configuration is no truncated file. *)
LEMMA WholeType == ASSUME NEW cfg \in Config PROVE cfg # Torn
<1>1. DOMAIN cfg = {"identity", "mode", "ownersOnly", "owners", "napcat"}
  BY DEF Config
<1>2. DOMAIN Torn = {}
  BY DEF Torn
<1> QED
  BY <1>1, <1>2

LEMMA AgreedInit == Init => Agreed
<1> SUFFICES ASSUME Init PROVE Agreed
  OBVIOUS
<1>1. SavedAlone
  BY DEF Init, SavedAlone, Writing
<1>2. TypeOK /\ file \in Config
  BY IInvInit, DefaultType, BoundAssumption DEF IInv, Init, Default, Config
<1>3. Loaded = svc
  BY <1>2, WholeType DEF Init, Loaded
<1>4. [Loaded EXCEPT !.napcat = svc.napcat] = svc
  BY <1>2, <1>3 DEF TypeOK, Config
<1> QED
  BY <1>1, <1>4 DEF Agreed, FileAgrees

(* Who is not writing may do what it likes with its own locals.            *)
LEMMA AgreedElsewhere ==
    ASSUME TypeOK, Agreed, NEW x \in Writers, ~Writing(x), ~Writing(x)',
           \A y \in Writers \ {x} : pc'[y] = pc[y] /\ next'[y] = next[y],
           UNCHANGED <<file, svc, overlapped>>
    PROVE  Agreed'
<1>1. \A y \in Writers : Writing(y)' = Writing(y)
  BY DEF Writing
<1>2. SavedAlone'
  BY <1>1 DEF Agreed, SavedAlone, Writing
<1>3. FileAgrees'
  BY <1>1 DEF Agreed, FileAgrees, Loaded
<1> QED
  BY <1>2, <1>3 DEF Agreed

(* Leaving touches nobody else's locals. *)
LEMMA LeaveOthers ==
    ASSUME TypeOK, NEW x \in Writers, Leave(x)
    PROVE  /\ ~Writing(x)'
           /\ \A y \in Writers \ {x} : pc'[y] = pc[y] /\ next'[y] = next[y]
  BY DEF Leave, Return, Writing, TypeOK, Writers

LEMMA AgreedNext == IInv /\ Agreed /\ [Next]_vars => Agreed'
<1> SUFFICES ASSUME IInv, Agreed, [Next]_vars PROVE Agreed'
  OBVIOUS
<1>t. TypeOK
  BY DEF IInv
<1>1. ASSUME NEW w \in Workers,
             \/ \E u \in Users : Snapshot(w, u)
             \/ Answer(w) \/ Run(w) \/ RunEnds(w) \/ Admin(w)
      PROVE  Agreed'
  <2>1. UNCHANGED <<file, svc, overlapped>>
    BY <1>1 DEF Snapshot, Answer, Run, RunEnds, Admin, copies
  <2>2. /\ ~Writing(w) /\ ~Writing(w)'
        /\ \A y \in Writers \ {w} : pc'[y] = pc[y] /\ next'[y] = next[y]
    BY <1>1, <1>t DEF Snapshot, Answer, Run, RunEnds, Admin, Return, Writing,
                      TypeOK, Writers
  <2> QED
    BY <1>t, <2>1, <2>2, AgreedElsewhere DEF Writers
<1>2. CASE Set
  <2>1. UNCHANGED <<file, svc, overlapped>>
    BY <1>2 DEF Set, copies
  <2>2. /\ ~Writing(Prompt) /\ ~Writing(Prompt)'
        /\ \A y \in Writers \ {Prompt} : pc'[y] = pc[y] /\ next'[y] = next[y]
    BY <1>2, <1>t DEF Set, Writing, TypeOK, Writers
  <2> QED
    BY <1>t, <2>1, <2>2, AgreedElsewhere DEF Writers
<1>3. CASE Detect
  <2>1. SavedAlone'
    BY <1>3 DEF Detect, locals, Agreed, SavedAlone, Writing
  <2>2. /\ svc' = [svc EXCEPT !.napcat = "found"] /\ svc \in Config
        /\ UNCHANGED <<file, pc, overlapped>>
    BY <1>3, <1>t DEF Detect, locals, TypeOK
  <2>3. Loaded' = Loaded /\ Loaded \in Config
    BY <2>2, LoadedType DEF Loaded, IInv
  <2>4. [Loaded EXCEPT !.napcat = svc.napcat] = svc =>
            [Loaded EXCEPT !.napcat = "found"] = svc'
    BY <2>2, <2>3 DEF Config
  <2>5. svc'.napcat = "found"
    BY <2>2 DEF Config
  <2>6. FileAgrees'
    BY <2>2, <2>3, <2>4, <2>5 DEF Agreed, FileAgrees, Writing
  <2> QED
    BY <2>1, <2>6 DEF Agreed
<1>4. ASSUME NEW x \in Writers, SaveFails(x) PROVE Agreed'
  <2>1. ~Writing(x) /\ Leave(x) /\ UNCHANGED <<file, svc, overlapped>>
    BY <1>4 DEF SaveFails, copies, Writing
  <2> QED
    BY <1>t, <2>1, LeaveOthers, AgreedElsewhere
<1>5. ASSUME NEW x \in Writers, Truncate(x) PROVE Agreed'
  <2>1. /\ pc' = [pc EXCEPT ![x] = "write"]
        /\ overlapped' = \E y \in Writers \ {x} : Writing(y)
    BY <1>5 DEF Truncate
  <2>2. /\ Writing(x)'
        /\ \A y \in Writers \ {x} : pc'[y] = pc[y] /\ Writing(y)' = Writing(y)
    BY <1>t, <2>1 DEF TypeOK, Writing
  <2>3. FileAgrees'
    BY <2>2 DEF FileAgrees
  <2>4. SavedAlone'
    BY <1>t, <2>1, <2>2 DEF SavedAlone, TypeOK, Writing
  <2> QED
    BY <2>3, <2>4 DEF Agreed
<1>6. ASSUME NEW x \in Writers, Write(x) PROVE Agreed'
  <2>1. /\ pc[x] \in {"write", "overtaken"}
        /\ pc[x] = "write" => file' = next[x]
        /\ pc' = [y \in Writers |-> IF y = x THEN "install"
                                    ELSE IF pc[y] = "write" THEN "overtaken"
                                    ELSE pc[y]]
        /\ UNCHANGED <<next, overlapped>>
    BY <1>6 DEF Write
  <2>2. Writing(x)'
    BY <2>1 DEF Writing
  <2>3. SavedAlone'
    <3> SUFFICES ASSUME ~overlapped PROVE SavedAlone'
      BY <2>1 DEF SavedAlone
    <3>1. pc[x] = "write" /\ \A y \in Writers \ {x} : ~Writing(y)
      BY <2>1 DEF Agreed, SavedAlone, Writing
    <3>2. \A y \in Writers \ {x} : pc'[y] = pc[y] /\ ~Writing(y)'
      BY <2>1, <3>1 DEF Writing
    <3> QED
      BY <2>1, <3>1, <3>2 DEF SavedAlone, Writing
  <2>4. FileAgrees'
    BY <2>2 DEF FileAgrees
  <2> QED
    BY <2>3, <2>4 DEF Agreed
<1>7. ASSUME NEW x \in Writers, Install(x) PROVE Agreed'
  <2>1. /\ pc[x] = "install" /\ Leave(x) /\ svc' = next[x]
        /\ UNCHANGED <<file, overlapped>>
    BY <1>7 DEF Install
  <2> SUFFICES ASSUME ~overlapped PROVE Agreed'
    BY <2>1 DEF Agreed, SavedAlone, FileAgrees
  <2>2. /\ file = next[x] /\ next[x] \in Config
        /\ \A y \in Writers \ {x} : ~Writing(y)
    BY <1>t, <2>1 DEF Agreed, SavedAlone, Writing, TypeOK
  <2>3. \A y \in Writers : ~Writing(y)'
    BY <1>t, <2>1, <2>2, LeaveOthers DEF Writing
  <2>4. SavedAlone'
    BY <2>3 DEF SavedAlone, Writing
  <2>5. Loaded' = svc' /\ svc' \in Config
    BY <2>1, <2>2, WholeType DEF Loaded
  <2>6. [Loaded' EXCEPT !.napcat = svc'.napcat] = svc'
    BY <2>5 DEF Config
  <2> QED
    BY <2>4, <2>6 DEF Agreed, FileAgrees
<1>8. CASE Crash
  <2>1. svc' = Loaded /\ file' = file /\ pc' = [x \in Writers |-> "idle"]
    BY <1>8 DEF Crash
  <2>2. Loaded' = svc' /\ svc' \in Config
    BY <2>1, LoadedType DEF Loaded, IInv
  <2>3. [Loaded' EXCEPT !.napcat = svc'.napcat] = svc'
    BY <2>2 DEF Config
  <2>4. SavedAlone'
    BY <2>1 DEF SavedAlone, Writing
  <2> QED
    BY <2>3, <2>4 DEF Agreed, FileAgrees
<1>9. CASE UNCHANGED vars
  BY <1>9 DEF vars, copies, locals, Agreed, SavedAlone, FileAgrees, Loaded,
              Writing
<1> QED
  BY <1>1, <1>2, <1>3, <1>4, <1>5, <1>6, <1>7, <1>8, <1>9 DEF Next

(* However commands, set and crashes overlap, the file and the service     *)
(* differ only after two have been saving at once.                         *)
THEOREM FileAndServiceAgree == Spec => []FileAgrees
<1>1. IInv /\ Agreed /\ [Next]_vars => Agreed'
  BY AgreedNext
<1>2. Agreed => FileAgrees
  BY DEF Agreed
<1> QED
  BY <1>1, <1>2, IInvAlways, AgreedInit, PTL DEF Spec
=============================================================================
