------------------------------ MODULE Startup -------------------------------
(***************************************************************************)
(* What Service.Start and Service.Stop do outside the bridge               *)
(* (internal/bridge/service.go): Start looks for a reachable NapCat        *)
(* (internal/connector/napcat/discovery.go), clears the Hermes profile,    *)
(* has the manager of module NapCatProcess launch NapCat, and dials; Stop  *)
(* ends that NapCat and the persistent Hermes.  Both are called by the     *)
(* prompt, one at a time.  What they do to the bridge itself, its queue    *)
(* and its goroutines is in module Bridge.                                 *)
(*                                                                         *)
(* A NapCat address stands for a pair of HTTP and WebSocket URLs.  Whether *)
(* one answers may change from probe to probe.                             *)
(***************************************************************************)
EXTENDS NapCatProcess, Sequences, FiniteSets

CONSTANTS
    Configured,    \* addresses the operator may have configured
    ResetOnStart,  \* values of hermes.reset_profile_on_start
    StopOnExit,    \* processes.napcat.stop_on_exit
    FirstEntries   \* what the profile directory may hold at first

Blank == "blank"   \* one of its URLs is not configured
Addresses == Configured \cup {"loopback", "localhost"}
Entries == {"marker", "memory", "foreign"}

ASSUME StartupAssumption ==
    /\ Configured \subseteq STRING
    /\ ResetOnStart \subseteq BOOLEAN /\ StopOnExit \in BOOLEAN
    /\ FirstEntries \subseteq SUBSET Entries

VARIABLES
    step,     \* where Start or Stop is
    running,  \* s.running
    napcat,   \* s.cfg.NapCat
    operator, \* what the operator configured
    probes,   \* what each candidate answered, of this detection
    best,     \* the candidate that Detect would return, 0 for none
    reset,    \* s.cfg.Hermes.ResetProfileOnStart
    entries,  \* what the profile directory holds
    unmarked, \* what Start last found there without BillBot's marker
    opened,   \* a bridge has been opened
    hermes,   \* a persistent Hermes is alive
    leftover  \* one was, at some time since this Start began

detectVars == <<napcat, operator, probes, best>>
hermesVars == <<opened, hermes, leftover>>
profileVars == <<reset, entries, unmarked>>
startupVars == <<step, running, detectVars, profileVars, hermesVars>>
allVars == <<vars, startupVars>>

StartupInit ==
    /\ Init
    /\ step = "idle" /\ running = FALSE
    /\ operator \in Configured /\ napcat = operator
    /\ probes = <<>> /\ best = 0
    /\ reset \in ResetOnStart
    /\ entries \in FirstEntries
    /\ unmarked = {}
    /\ opened = FALSE /\ hermes = FALSE /\ leftover = FALSE

Goto(from, to) == step = from /\ step' = to

-----------------------------------------------------------------------------
(* Detect *)

(* candidateConfigs: the configured address, if it is one, and then the    *)
(* defaults, none twice.                                                   *)
Candidates ==
    CASE napcat \in {Blank, "loopback"} -> <<"loopback", "localhost">>
      [] napcat = "localhost" -> <<"localhost", "loopback">>
      [] OTHER -> <<napcat, "loopback", "localhost">>

Both == {"http", "ws"}
Score(i) == Cardinality(probes[i])

StartBeginsDetect ==
    /\ Goto("idle", "probe") /\ ~running
    /\ leftover' = hermes
    /\ UNCHANGED <<vars, running, detectVars, profileVars, opened, hermes>>

(* A faulty variant of Better: a tie is won by the last. *)
BetterOrEqual(r) == best = 0 \/ Cardinality(r) >= Score(best)

Better(r) == best = 0 \/ Cardinality(r) > Score(best)

(* The next candidate is asked over HTTP and dialled for its WebSocket.    *)
Probe ==
    /\ step = "probe" /\ Len(probes) < Len(Candidates)
    /\ \E r \in SUBSET Both :
         /\ probes' = Append(probes, r)
         /\ best' = IF Better(r) THEN Len(probes) + 1 ELSE best
         /\ step' = IF r = Both THEN "found" ELSE "probe"
    /\ UNCHANGED <<vars, running, napcat, operator, profileVars, hermesVars>>

(* Start returns an error before it opened a bridge. *)
FailStart ==
    /\ probes' = <<>> /\ best' = 0
    /\ UNCHANGED <<vars, running, napcat, operator, reset, entries, hermesVars>>

(* None answered on both: Start fails, and launches nothing. *)
NotReady ==
    /\ Goto("probe", "idle") /\ Len(probes) = Len(Candidates)
    /\ FailStart /\ UNCHANGED unmarked

-----------------------------------------------------------------------------
(* resetHermesProfileOnStart, if it is configured *)

SkipReset ==
    /\ step = "found" /\ ~reset
    /\ step' = "open"
    /\ UNCHANGED <<vars, running, detectVars, profileVars, hermesVars>>

(* What Start finds in a directory without BillBot's marker. *)
Noted == unmarked' = IF "marker" \in entries THEN {} ELSE entries

(* A faulty variant of MayClear: the marker is not asked for. *)
MayClearAny == entries # {}

(* Only a directory with BillBot's marker is cleared; *)
MayClear == "marker" \in entries

ReadProfile ==
    /\ step = "found" /\ reset /\ Noted
    /\ \/ entries = {} /\ step' = "mark"
       \/ MayClear /\ step' = "clear"
    /\ UNCHANGED <<vars, running, detectVars, reset, entries, hermesVars>>

(* with other contents and no marker it is refused, and so are the root    *)
(* and the home directory.  Reading or marking it may also fail.           *)
RefuseProfile ==
    /\ reset
    /\ \/ Goto("found", "idle") /\ Noted
       \/ Goto("mark", "idle") /\ UNCHANGED unmarked
    /\ FailStart

(* os.RemoveAll removes the entries in no particular order, *)
RemoveEntry ==
    /\ step = "clear"
    /\ \E e \in entries : entries' = entries \ {e}
    /\ UNCHANGED <<vars, step, running, detectVars, reset, unmarked, hermesVars>>

RemoveDirectory ==
    /\ Goto("clear", "mark") /\ entries = {}
    /\ UNCHANGED <<vars, running, detectVars, profileVars, hermesVars>>

(* A faulty variant of ClearFails: the error is not looked at. *)
ClearFailsUnnoticed ==
    /\ Goto("clear", "mark") /\ entries # {}
    /\ UNCHANGED <<vars, running, detectVars, profileVars, hermesVars>>

(* and may leave some that it cannot remove, the marker perhaps not among  *)
(* them, which Start reports.                                              *)
ClearFails ==
    /\ Goto("clear", "idle") /\ entries # {}
    /\ FailStart /\ UNCHANGED unmarked

(* os.MkdirAll and the marker. *)
Mark ==
    /\ Goto("mark", "open")
    /\ entries' = entries \cup {"marker"}
    /\ UNCHANGED <<vars, running, detectVars, reset, unmarked, hermesVars>>

-----------------------------------------------------------------------------
(* The rest of Start *)

(* The bridge opens with the address that was found. *)
Open ==
    /\ Goto("open", "napcat")
    /\ running' = TRUE /\ opened' = TRUE
    /\ napcat' = Candidates[best] /\ probes' = <<>> /\ best' = 0
    /\ UNCHANGED <<vars, operator, profileVars, hermes, leftover>>

(* processes.StartNapCat: nothing to do, or the call of NapCatProcess, *)
StartNapCat ==
    /\ \/ StartSkips /\ Goto("napcat", "dial")
       \/ StartBegins /\ Goto("napcat", "launching")
    /\ UNCHANGED <<running, detectVars, profileVars, hermesVars>>

StartNapCatSteps ==
    /\ Tracked \/ Launch \/ LaunchFails \/ WaitEnds
    /\ UNCHANGED startupVars

(* A faulty variant of StartNapCatReturns: Start does not wait for it. *)
StartNapCatForgotten ==
    /\ Goto("launching", "dial")
    /\ UNCHANGED <<vars, running, detectVars, profileVars, hermesVars>>

(* which returns with or without an error; the dial may fail as well.      *)
StartNapCatReturns ==
    /\ step = "launching" /\ pc = "idle"
    /\ \/ step' = "dial" /\ UNCHANGED running
       \/ step' = "idle" /\ running' = FALSE
    /\ UNCHANGED <<vars, detectVars, profileVars, hermesVars>>

Dial ==
    /\ Goto("dial", "idle")
    /\ running' \in {running, FALSE}
    /\ UNCHANGED <<vars, detectVars, profileVars, hermesVars>>

-----------------------------------------------------------------------------
(* Stop *)

(* conn.Stop, if there is a connection, whose error ends Stop at once.     *)
StopConn ==
    /\ step = "idle"
    /\ step' \in {"stopping"} \cup (IF running THEN {"idle"} ELSE {})
    /\ running' = FALSE
    /\ UNCHANGED <<vars, detectVars, profileVars, hermesVars>>

(* processes.StopNapCat, if configured: nothing to kill, or a kill, *)
StopNapCat ==
    /\ \/ (~StopOnExit \/ processes = Nobody) /\ Goto("stopping", "closing")
          /\ UNCHANGED vars
       \/ StopOnExit /\ Goto("stopping", "killing") /\ StopTake
    /\ UNCHANGED <<running, detectVars, profileVars, hermesVars>>

(* whose error ends Stop: the process had been waited for. *)
StopNapCatKills ==
    /\ StopKill /\ step = "killing"
    /\ step' = IF state[taken] \in {"waited", "gone"} THEN "idle" ELSE "closing"
    /\ UNCHANGED <<running, detectVars, profileVars, hermesVars>>

(* hermes.ClosePersistentACP *)
CloseACP ==
    /\ Goto("closing", "idle")
    /\ hermes' = FALSE
    /\ UNCHANGED <<vars, running, detectVars, profileVars, opened, leftover>>

-----------------------------------------------------------------------------
(* Beside them *)

(* A message of this bridge, or of an earlier one, starts a persistent     *)
(* Hermes, which keeps its memory and skills in the profile.               *)
HermesStarts ==
    /\ opened /\ ~hermes
    /\ hermes' = TRUE /\ leftover' = TRUE
    /\ UNCHANGED <<vars, step, running, detectVars, profileVars, opened>>

HermesWrites ==
    /\ hermes /\ entries' = entries \cup {"memory"}
    /\ UNCHANGED <<vars, step, running, detectVars, reset, unmarked, hermesVars>>

HermesEnds ==
    /\ hermes /\ hermes' = FALSE
    /\ UNCHANGED <<vars, step, running, detectVars, profileVars, opened,
                   leftover>>

(* The operator's "set" hands the service the configuration of the prompt. *)
Set ==
    /\ step = "idle" /\ napcat' = operator
    /\ UNCHANGED <<vars, step, running, operator, probes, best, profileVars,
                   hermesVars>>

NapCatChanges ==
    /\ (\E p \in Procs : WaiterSteps(p) \/ Dies(p)) \/ ReadyChanges
    /\ UNCHANGED startupVars

StartSteps ==
    \/ Probe \/ NotReady \/ SkipReset \/ ReadProfile \/ RefuseProfile
    \/ RemoveEntry \/ RemoveDirectory \/ ClearFails \/ Mark \/ Open
    \/ StartNapCat \/ StartNapCatSteps \/ StartNapCatReturns \/ Dial
StopSteps == StopNapCat \/ StopNapCatKills \/ CloseACP

StartupNext ==
    \/ StartBeginsDetect \/ StartSteps
    \/ StopConn \/ StopSteps
    \/ HermesStarts \/ HermesWrites \/ HermesEnds \/ Set
    \/ NapCatChanges

StartupSpec == StartupInit /\ [][StartupNext]_allVars

(* The prompt's calls go on, and so do the goroutines that wait.           *)
StartupFairness ==
    /\ WF_allVars(StartSteps) /\ WF_allVars(StopSteps)
    /\ \A p \in Procs : WF_allVars(WaiterSteps(p) /\ UNCHANGED startupVars)

StartupFairSpec == StartupSpec /\ StartupFairness

-----------------------------------------------------------------------------
(* Properties. *)

StartupTypeOK ==
    /\ TypeOK
    /\ step \in {"idle", "probe", "found", "clear", "mark", "open", "napcat",
                 "launching", "dial", "stopping", "killing", "closing"}
    /\ pc # "idle" => step \in {"launching", "killing"}
    /\ {running, reset, opened, hermes, leftover} \subseteq BOOLEAN
    /\ operator \in Configured /\ napcat \in Addresses
    /\ probes \in Seq(SUBSET Both) /\ best \in 0 .. Len(probes)
    /\ entries \subseteq Entries /\ unmarked \subseteq Entries

(* What Detect promises: the first candidate that answers on both, and     *)
(* else the first of those that answered best.  Start goes on only with    *)
(* one that answered on both; so NapCat is launched, auto_start or not,    *)
(* only where a NapCat was reachable already.                              *)
Promised ==
    CHOOSE i \in DOMAIN probes :
        /\ \A j \in DOMAIN probes : Score(j) <= Score(i)
        /\ \A j \in 1 .. i - 1 : Score(j) < Score(i)
DetectionIsBest ==
    /\ probes # <<>> => best = Promised
    /\ step \in {"found", "clear", "mark", "open"} => probes[best] = Both

(* reset_profile_on_start: the bridge starts with an empty profile, unless *)
(* a persistent Hermes of an earlier bridge was still there to write to    *)
(* it, after a Stop that gave up before closing it.                        *)
FreshProfile ==
    step \in {"open", "napcat", "launching", "dial"} /\ reset /\ ~leftover =>
        entries = {"marker"}

(* A directory that is not empty and has no marker when Start reads it is  *)
(* refused: no bridge opens on it, it loses nothing of what it held, and   *)
(* it does not get the marker with which a later Start might clear it.     *)
(* That is so too of what a clearing left behind that failed half way,     *)
(* when the marker was among what it removed (resetHermesProfileOnStart).  *)
UnmarkedKept ==
    unmarked # {} =>
        /\ unmarked \subseteq entries /\ "marker" \notin entries
        /\ step \notin {"open", "napcat", "launching", "dial"}

(* Start and Stop return, whatever NapCat answers or does, unless for ever *)
(* a persistent Hermes is there to write to the profile while Start is     *)
(* clearing it (os.RemoveAll in resetHermesProfileOnStart).                *)
Returns ==
    <>[]~(step = "clear" /\ hermes) => (step # "idle" ~> step = "idle")
=============================================================================
