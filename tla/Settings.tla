------------------------------ MODULE Settings ------------------------------
(***************************************************************************)
(* The copies of the configuration and who changes them: the file          *)
(* (internal/config/types.go), the service's s.cfg and the copies that its *)
(* handlers take (internal/bridge/service.go), and the copy of the         *)
(* operator's prompt (cmd/billbot/main.go).  The operator's "set" changes  *)
(* the prompt's copy, an admin command that of its handler; each then      *)
(* saves all of it and installs all of it in the service.                  *)
(*                                                                         *)
(* A configuration keeps the fields that are changed in different places.  *)
(* The file is TOML, truncated before it is written; saving may fail       *)
(* before that.  Session mutexes do not order admin commands, which may    *)
(* come from different chats.                                              *)
(***************************************************************************)
EXTENDS Naturals

CONSTANTS
    Workers,     \* handler goroutines
    Prompt,      \* the operator's prompt
    Users,       \* QQ users
    Named,       \* those who are ever named as owners
    Texts,       \* identities and styles
    DefaultText, \* the one in config.Default
    FirstModes,  \* bound: modes that the file may hold at first
    MaxSets,     \* bound: the operator's changes
    MaxAdmins,   \* bound: admin commands that change something
    MaxCrashes   \* bound: crashes of the program

ASSUME PartiesAssumption ==
    /\ Prompt \notin Workers /\ DefaultText \in Texts
    /\ Users # {} /\ Named \subseteq Users

(* "other" is any text but the two that the code compares the mode with. *)
Modes == {"sandbox", "full", "other"}

ASSUME BoundAssumption == /\ FirstModes \subseteq Modes
                          /\ {MaxSets, MaxAdmins, MaxCrashes} \subseteq Nat

VARIABLES
    file,        \* the configuration file
    svc,         \* s.cfg
    prompt,      \* cliState.cfg
    pc,          \* where each handler and the prompt are
    user,        \* the sender of each handler's message
    snap,        \* the cfg of each handler
    next,        \* what each of them saves and installs
    opened,      \* the operator has let everybody out of the sandbox
    overlapped,  \* two have been saving at once since one last did alone
    sets, admins, crashes   \* counters for the bounds

copies == <<file, svc, prompt>>
locals == <<pc, user, snap, next>>
vars == <<copies, locals, opened, overlapped, sets, admins, crashes>>

Writers == Workers \cup {Prompt}

Config == [identity : Texts, mode : Modes, ownersOnly : BOOLEAN,
           owners : SUBSET Named, napcat : {"configured", "found"}]

(* config.Default *)
Default == [identity |-> DefaultText, mode |-> "sandbox", ownersOnly |-> TRUE,
            owners |-> {}, napcat |-> "configured"]

Torn == <<>>   \* a truncated file

(* Load: decoding into the defaults, which is what an empty text leaves. *)
Loaded == IF file = Torn THEN Default ELSE file

(* With cfg, those who are no owners run outside of the sandbox: the full  *)
(* mode is not restricted to owners, or the mode is one that the downgrade *)
(* does not know.                                                          *)
Open(cfg) == cfg.mode # "sandbox" /\ (cfg.mode = "full" => ~cfg.ownersOnly)

AnyUser == CHOOSE u \in Users : TRUE

Init ==
    /\ \E m \in FirstModes, o \in BOOLEAN, O \in SUBSET Named :
          file = [Default EXCEPT !.mode = m, !.ownersOnly = o, !.owners = O]
    /\ svc = file /\ prompt = file
    /\ pc = [x \in Writers |-> "idle"]
    /\ user = [w \in Workers |-> AnyUser]
    /\ snap = [w \in Workers |-> Default]
    /\ next = [x \in Writers |-> Default]
    /\ opened = Open(file)
    /\ overlapped = FALSE
    /\ sets = 0 /\ admins = 0 /\ crashes = 0

-----------------------------------------------------------------------------
(* handleMessage *)

(* The handler returns; its locals are gone. *)
Return(w) ==
    /\ pc' = [pc EXCEPT ![w] = "idle"]
    /\ user' = [user EXCEPT ![w] = AnyUser]
    /\ snap' = [snap EXCEPT ![w] = Default]
    /\ next' = [next EXCEPT ![w] = Default]

(* The snapshot of s.cfg; the wait for the session's mutex follows. *)
Snapshot(w, u) ==
    /\ pc[w] = "idle"
    /\ pc' = [pc EXCEPT ![w] = "begun"]
    /\ user' = [user EXCEPT ![w] = u]
    /\ snap' = [snap EXCEPT ![w] = svc]
    /\ UNCHANGED <<copies, next, opened, overlapped, sets, admins, crashes>>

(* The message is answered without more ado: help, a command of somebody   *)
(* who is no owner, a text to show or one that could not be normalised, a  *)
(* refused request.                                                        *)
Answer(w) ==
    /\ pc[w] = "begun" /\ Return(w)
    /\ UNCHANGED <<copies, opened, overlapped, sets, admins, crashes>>

(* What the messages of who is no owner are handled with. *)
Downgraded(cfg, u) ==
    IF cfg.mode = "full" /\ cfg.ownersOnly /\ u \notin cfg.owners
    THEN [cfg EXCEPT !.mode = "sandbox"]
    ELSE cfg

(* The message goes to Hermes. *)
Run(w) ==
    /\ pc[w] = "begun"
    /\ pc' = [pc EXCEPT ![w] = "run"]
    /\ snap' = [snap EXCEPT ![w] = Downgraded(@, user[w])]
    /\ UNCHANGED <<copies, user, next, opened, overlapped, sets, admins, crashes>>

RunEnds(w) ==
    /\ pc[w] = "run" /\ Return(w)
    /\ UNCHANGED <<copies, opened, overlapped, sets, admins, crashes>>

(* A faulty variant of AdminEdits: /full leaves the restriction as it is. *)
AdminEditsOneField(cfg) ==
    {[cfg EXCEPT !.identity = t] : t \in Texts} \cup
    {[cfg EXCEPT !.mode = m] : m \in {"sandbox", "full"}}

(* What /identity (as well as /style), /sandbox and /full make of cfg. *)
AdminEdits(cfg) ==
    {[cfg EXCEPT !.identity = t] : t \in Texts} \cup
    {[cfg EXCEPT !.mode = "sandbox"],
     [cfg EXCEPT !.mode = "full", !.ownersOnly = TRUE]}

(* An owner's command, a new identity after Hermes has normalised it. *)
Admin(w) ==
    /\ pc[w] = "begun" /\ user[w] \in snap[w].owners
    /\ admins < MaxAdmins /\ admins' = admins + 1
    /\ \E cfg \in AdminEdits(snap[w]) : next' = [next EXCEPT ![w] = cfg]
    /\ pc' = [pc EXCEPT ![w] = "save"]
    /\ UNCHANGED <<copies, user, snap, opened, overlapped, sets, crashes>>

-----------------------------------------------------------------------------
(* The operator's prompt. *)

(* A faulty variant of SetEdits: without Normalize. *)
SetEditsAsTyped(cfg) ==
    {[cfg EXCEPT !.ownersOnly = b] : b \in BOOLEAN} \cup
    {[cfg EXCEPT !.mode = m] : m \in Modes \cup {""}}

(* What "set KEY VALUE" makes of cfg; the mode may be any text, of which   *)
(* only an empty one is normalised.  Of the owners it names those in Named *)
(* count here.  Of most keys, and of "route off", no field is kept here.   *)
SetEdits(cfg) ==
    {cfg} \cup
    {[cfg EXCEPT !.owners = O] : O \in SUBSET Named} \cup
    {[cfg EXCEPT !.ownersOnly = b] : b \in BOOLEAN} \cup
    {[cfg EXCEPT !.mode = IF m = "" THEN "sandbox" ELSE m] :
        m \in Modes \cup {""}} \cup
    {[cfg EXCEPT !.napcat = "configured"]}

Set ==
    /\ pc[Prompt] = "idle"
    /\ sets < MaxSets /\ sets' = sets + 1
    /\ \E cfg \in SetEdits(prompt) :
          /\ next' = [next EXCEPT ![Prompt] = cfg]
          /\ opened' = (opened \/ Open(cfg))
    /\ pc' = [pc EXCEPT ![Prompt] = "save"]
    /\ UNCHANGED <<copies, user, snap, overlapped, admins, crashes>>

(* Start installs what it detected in the service, and only there. *)
Detect ==
    /\ pc[Prompt] = "idle"
    /\ svc' = [svc EXCEPT !.napcat = "found"]
    /\ UNCHANGED <<file, prompt, locals, opened, overlapped, sets, admins,
                   crashes>>

-----------------------------------------------------------------------------
(* config.Save and UpdateConfig, for handlers and the prompt alike. *)

Leave(x) ==
    IF x = Prompt
    THEN /\ pc' = [pc EXCEPT ![x] = "idle"]
         /\ next' = [next EXCEPT ![x] = Default]
         /\ UNCHANGED <<user, snap>>
    ELSE Return(x)

(* A faulty variant of SaveFails: the configuration is installed anyway. *)
SaveFailsUnnoticed(x) ==
    /\ pc[x] = "save"
    /\ pc' = [pc EXCEPT ![x] = "install"]
    /\ UNCHANGED <<copies, user, snap, next, opened, overlapped, sets, admins,
                   crashes>>

(* The file cannot be opened: nothing is changed. *)
SaveFails(x) ==
    /\ pc[x] = "save" /\ Leave(x)
    /\ UNCHANGED <<copies, opened, overlapped, sets, admins, crashes>>

Writing(x) == pc[x] \in {"write", "overtaken", "install"}

(* os.WriteFile truncates the file *)
Truncate(x) ==
    /\ pc[x] = "save"
    /\ pc' = [pc EXCEPT ![x] = "write"]
    /\ file' = Torn
    /\ overlapped' = \E y \in Writers \ {x} : Writing(y)
    /\ UNCHANGED <<svc, prompt, user, snap, next, opened, sets, admins, crashes>>

(* and writes it; one that another overtook between its two steps may      *)
(* leave a mixture of both texts behind, taken to be as good as none.      *)
Write(x) ==
    /\ pc[x] \in {"write", "overtaken"}
    /\ \/ file' = next[x]
       \/ pc[x] = "overtaken" /\ file' = Torn
    /\ pc' = [y \in Writers |->
                IF y = x THEN "install"
                ELSE IF pc[y] = "write" THEN "overtaken"
                ELSE pc[y]]
    /\ UNCHANGED <<svc, prompt, user, snap, next, opened, overlapped, sets,
                   admins, crashes>>

(* UpdateConfig, the prompt having updated its own copy. *)
Install(x) ==
    /\ pc[x] = "install" /\ Leave(x)
    /\ svc' = next[x]
    /\ prompt' = IF x = Prompt THEN next[x] ELSE prompt
    /\ UNCHANGED <<file, opened, overlapped, sets, admins, crashes>>

(* The program ends at any point and is started again. *)
Crash ==
    /\ crashes < MaxCrashes /\ crashes' = crashes + 1
    /\ svc' = Loaded /\ prompt' = Loaded
    /\ pc' = [x \in Writers |-> "idle"]
    /\ user' = [w \in Workers |-> AnyUser]
    /\ snap' = [w \in Workers |-> Default]
    /\ next' = [x \in Writers |-> Default]
    /\ overlapped' = FALSE
    /\ UNCHANGED <<file, opened, sets, admins>>

Next ==
    \/ \E w \in Workers :
          \/ \E u \in Users : Snapshot(w, u)
          \/ Answer(w) \/ Run(w) \/ RunEnds(w) \/ Admin(w)
    \/ \E x \in Writers : SaveFails(x) \/ Truncate(x) \/ Write(x) \/ Install(x)
    \/ Set \/ Detect \/ Crash

Spec == Init /\ [][Next]_vars

-----------------------------------------------------------------------------
(* Properties. *)

TypeOK ==
    /\ file \in Config \/ file = Torn
    /\ svc \in Config /\ prompt \in Config
    /\ pc \in [Writers -> {"idle", "begun", "run", "save", "write", "overtaken",
                         "install"}]
    /\ user \in [Workers -> Users]
    /\ snap \in [Workers -> Config] /\ next \in [Writers -> Config]
    /\ opened \in BOOLEAN /\ overlapped \in BOOLEAN

(* Only the operator lets those who are no owners out of the sandbox: a    *)
(* message of theirs runs outside of it, in full mode or in one of another *)
(* name, only when the operator has once chosen a configuration that says  *)
(* so.  No /full or /sandbox does it, whatever copies of the configuration *)
(* overtake each other, and no crash (handleAdminCommand, handleMessage).  *)
NonOwnersStaySandboxed ==
    \A w \in Workers :
        pc[w] = "run" /\ snap[w].mode # "sandbox" /\ user[w] \notin snap[w].owners
            => opened

(* The file and the service agree, but for the detected NapCat, when       *)
(* nobody is saving: a crash then loses nothing of what was acknowledged.  *)
(* Only two that saved at once can have left them apart.                   *)
FileAgrees ==
    (\A x \in Writers : ~Writing(x)) /\ ~overlapped
        => [Loaded EXCEPT !.napcat = svc.napcat] = svc

(* The answer to /identity says that the new text holds from the next turn *)
(* on: the operator's "set" of something else does not take it back.       *)
SetKeepsIdentity ==
    [][Install(Prompt) => svc'.identity = svc.identity]_vars
=============================================================================
