--------------------------- MODULE StartupProofs ----------------------------
(***************************************************************************)
(* Theorems about Startup for any configured addresses, profiles and       *)
(* number of launches.                                                     *)
(*                                                                         *)
(* What the manager of the NapCat process promises (NapCatProofs) holds    *)
(* under Start and Stop because each of their steps is one of its steps or *)
(* leaves it alone.  The detection and the profile have an inductive       *)
(* invariant of their own.                                                 *)
(***************************************************************************)
EXTENDS Startup, NapCatProofs, FiniteSetTheorems

(* Start and Stop drive the manager as its specification allows.           *)
LEMMA StepImplements == StartupNext => [Next]_vars
<1> SUFFICES ASSUME StartupNext PROVE [Next]_vars
  OBVIOUS
<1> USE DEF vars
<1>1. CASE StartBeginsDetect
  BY <1>1 DEF StartBeginsDetect
<1>2. CASE StartSteps
  <2>1. CASE Probe \/ NotReady \/ SkipReset \/ ReadProfile \/ RefuseProfile
    BY <2>1 DEF Probe, NotReady, SkipReset, ReadProfile, RefuseProfile,
                FailStart
  <2>2. CASE RemoveEntry \/ RemoveDirectory \/ ClearFails \/ Mark \/ Open
    BY <2>2 DEF RemoveEntry, RemoveDirectory, ClearFails, Mark, Open, FailStart
  <2>3. CASE StartNapCat
    BY <2>3 DEF StartNapCat, StartSkips, Next
  <2>4. CASE StartNapCatSteps
    BY <2>4 DEF StartNapCatSteps, Next, CallSteps
  <2>5. CASE StartNapCatReturns \/ Dial
    BY <2>5 DEF StartNapCatReturns, Dial
  <2> QED
    BY <1>2, <2>1, <2>2, <2>3, <2>4, <2>5 DEF StartSteps
<1>3. CASE StopConn
  BY <1>3 DEF StopConn
<1>4. CASE StopSteps
  BY <1>4 DEF StopSteps, StopNapCat, StopNapCatKills, CloseACP, Next, CallSteps
<1>5. CASE HermesStarts \/ HermesWrites \/ HermesEnds \/ Set
  BY <1>5 DEF HermesStarts, HermesWrites, HermesEnds, Set
<1>6. CASE NapCatChanges
  BY <1>6 DEF NapCatChanges, Next
<1> QED
  BY <1>1, <1>2, <1>3, <1>4, <1>5, <1>6 DEF StartupNext

(* Startup implements NapCatProcess: what Start, Stop and everything       *)
(* beside them do to the NapCat process, the manager's specification       *)
(* allows.                                                                 *)
THEOREM ImplementsManager == StartupSpec => Spec
<1>1. StartupInit => Init
  BY DEF StartupInit
<1>2. [StartupNext]_allVars => [Next]_vars
  BY StepImplements DEF allVars, vars
<1> QED
  BY <1>1, <1>2, PTL DEF StartupSpec, Spec

(* Through Starts that fail and Stops that give up, a running NapCat is in *)
(* the manager's table or about to be killed.                              *)
THEOREM RunningStaysTracked == StartupSpec => []RunningIsTracked
  BY ImplementsManager, RunningAreTracked, PTL

(* Nor does any sequence of Starts and Stops run two of them at once. *)
THEOREM OneNapCatRuns == StartupSpec => []AtMostOne
  BY ImplementsManager, AtMostOneRuns, PTL

-----------------------------------------------------------------------------
(* The detection. *)

(* While Start has the results of Detect, the best so far is the first of  *)
(* those with the best score; while it still probes, none had both.        *)
Detecting == {"probe", "found", "clear", "mark", "open"}
BestOf(i) ==
    /\ i \in DOMAIN probes
    /\ \A j \in DOMAIN probes : Score(j) <= Score(i)
    /\ \A j \in 1 .. i - 1 : Score(j) < Score(i)
DetectionInv ==
    /\ probes \in Seq(SUBSET Both)
    /\ best \in 0 .. Len(probes)
    /\ probes = <<>> => best = 0
    /\ probes # <<>> => BestOf(best)
    /\ step \notin Detecting => probes = <<>>
    /\ step = "probe" => \A j \in DOMAIN probes : probes[j] # Both
    /\ step \in {"found", "clear", "mark", "open"} =>
           best # 0 /\ probes[best] = Both

(* What a probe can answer counts 0, 1 or 2, and 2 only if it is both.     *)
LEMMA Scores ==
  ASSUME NEW r \in SUBSET Both
  PROVE  /\ Cardinality(r) \in Nat
         /\ Cardinality(r) <= Cardinality(Both)
         /\ Cardinality(r) = Cardinality(Both) => r = Both
<1>1. IsFiniteSet(Both)
  <2>1. IsFiniteSet({"http"} \cup {"ws"})
    BY FS_Singleton, FS_AddElement
  <2>2. Both = {"http"} \cup {"ws"}
    BY DEF Both
  <2> QED
    BY <2>1, <2>2
<1> QED
  BY <1>1, FS_Subset, FS_CardinalityType

(* A probe keeps it, *)
LEMMA ProbeKeeps == DetectionInv /\ Probe => DetectionInv'
<1> SUFFICES ASSUME DetectionInv, Probe PROVE DetectionInv'
  OBVIOUS
<1>1. PICK r \in SUBSET Both :
         /\ step = "probe"
         /\ probes' = Append(probes, r)
         /\ best' = IF Better(r) THEN Len(probes) + 1 ELSE best
         /\ step' = IF r = Both THEN "found" ELSE "probe"
  BY DEF Probe
<1>0. PICK n \in Nat : n = Len(probes) + 1
  BY DEF DetectionInv
<1>2. /\ probes \in Seq(SUBSET Both) /\ probes' \in Seq(SUBSET Both)
      /\ Len(probes') = n /\ n \in Nat \ {0}
      /\ DOMAIN probes = 1 .. n - 1 /\ DOMAIN probes' = 1 .. n
      /\ probes'[n] = r
      /\ \A j \in 1 .. n - 1 : probes'[j] = probes[j]
  BY <1>0, <1>1 DEF DetectionInv
<1>3. \A j \in 1 .. n - 1 :
         /\ Score(j)' = Score(j) /\ Score(j) \in Nat
         /\ Score(j) < Cardinality(Both)
  <2>1. ASSUME NEW j \in 1 .. n - 1
        PROVE  /\ probes[j] \in SUBSET Both /\ probes[j] # Both
               /\ probes'[j] = probes[j]
    BY <1>1, <1>2 DEF DetectionInv
  <2>2. Cardinality(Both) \in Nat
    BY Scores
  <2> QED
    BY <2>1, <2>2, Scores DEF Score
<1>4. /\ Score(n)' = Cardinality(r) /\ Cardinality(r) \in Nat
      /\ Cardinality(r) <= Cardinality(Both) /\ Cardinality(Both) \in Nat
      /\ r # Both => Cardinality(r) # Cardinality(Both)
  BY <1>2, Scores DEF Score
<1>5. CASE Better(r)
  <2>1. best' = n
    BY <1>0, <1>1, <1>5
  <2>2. \A j \in 1 .. n - 1 : Score(j) < Cardinality(r)
    <3>1. CASE n = 1
      BY <3>1
    <3>2. CASE n # 1
      <4>1. probes # <<>>
        BY <1>2, <3>2
      <4>2. BestOf(best) /\ best # 0
        BY <4>1, <1>2 DEF DetectionInv, BestOf
      <4>3. Cardinality(r) > Score(best)
        BY <4>2, <1>5 DEF Better
      <4>4. best \in 1 .. n - 1 /\ \A j \in 1 .. n - 1 : Score(j) <= Score(best)
        BY <4>2, <1>2 DEF BestOf
      <4> QED
        BY <4>3, <4>4, <1>3, <1>4
    <3> QED
      BY <3>1, <3>2
  <2>3. BestOf(n)'
    <3>1. n \in DOMAIN probes'
      BY <1>2
    <3>2. \A j \in 1 .. n : Score(j)' <= Score(n)'
      BY <2>2, <1>2, <1>3, <1>4
    <3>3. \A j \in 1 .. n - 1 : Score(j)' < Score(n)'
      BY <2>2, <1>2, <1>3, <1>4
    <3> QED
      BY <3>1, <3>2, <3>3, <1>2 DEF BestOf
  <2>4. BestOf(best)'
    BY <2>1, <2>3 DEF BestOf
  <2> QED
    BY <1>1, <1>2, <2>1, <2>4 DEF DetectionInv, Detecting
<1>6. CASE ~Better(r)
  <2>1. best' = best /\ best # 0 /\ ~(Cardinality(r) > Score(best))
    BY <1>1, <1>6 DEF Better
  <2>2. BestOf(best) /\ best \in 1 .. n - 1
    BY <2>1, <1>2 DEF DetectionInv, BestOf
  <2>3. r # Both
    BY <2>1, <2>2, <1>3, <1>4
  <2>4. BestOf(best)'
    <3>1. PICK b \in 1 .. n - 1 : b = best /\ b = best'
      BY <2>1, <2>2
    <3>2. /\ \A j \in 1 .. n - 1 : Score(j) <= Score(b)
          /\ \A j \in 1 .. b - 1 : Score(j) < Score(b)
      BY <2>2, <3>1, <1>2 DEF BestOf
    <3>3. ~(Cardinality(r) > Score(b))
      BY <2>1, <3>1
    <3>4. Score(b)' = Score(b) /\ Score(b) \in Nat
      BY <3>1, <1>3
    <3>5. \A j \in 1 .. n : Score(j)' <= Score(b)'
      BY <3>2, <3>3, <3>4, <1>3, <1>4
    <3>6. ASSUME NEW j \in 1 .. b - 1 PROVE Score(j)' < Score(b)'
      <4>1. b <= n - 1 /\ b \in Nat
        BY <3>1
      <4>2. j \in 1 .. n - 1
        BY <4>1
      <4> QED
        BY <3>2, <3>4, <4>2, <1>3
    <3>7. b \in DOMAIN probes'
      BY <3>1, <1>2
    <3> QED
      BY <3>1, <3>5, <3>6, <3>7, <1>2 DEF BestOf, Score
  <2> QED
    BY <1>1, <1>2, <2>1, <2>2, <2>3, <2>4 DEF DetectionInv, Detecting
<1> QED
  BY <1>5, <1>6

(* every other step of Start leaves it or drops the results, and nobody    *)
(* else touches them.                                                      *)
LEMMA DetectionNext == DetectionInv /\ [StartupNext]_allVars => DetectionInv'
<1> SUFFICES ASSUME DetectionInv, [StartupNext]_allVars PROVE DetectionInv'
  OBVIOUS
<1> USE DEF DetectionInv, Detecting, BestOf, Score, detectVars, Goto
<1>1. CASE StartBeginsDetect
  BY <1>1 DEF StartBeginsDetect
<1>2. CASE StartSteps
  <2>1. CASE Probe
    BY <2>1, ProbeKeeps
  <2>2. CASE SkipReset \/ ReadProfile
    BY <2>2 DEF SkipReset, ReadProfile
  <2>3. CASE NotReady \/ RefuseProfile \/ ClearFails
    <3>1. step' = "idle" /\ probes' = <<>> /\ best' = 0
      BY <2>3 DEF NotReady, RefuseProfile, ClearFails, FailStart
    <3> QED
      BY <3>1
  <2>4. CASE RemoveEntry \/ RemoveDirectory \/ Mark
    BY <2>4 DEF RemoveEntry, RemoveDirectory, Mark
  <2>5. CASE Open
    BY <2>5 DEF Open
  <2>6. CASE StartNapCat
    BY <2>6 DEF StartNapCat
  <2>7. CASE StartNapCatSteps
    BY <2>7 DEF StartNapCatSteps, startupVars
  <2>8. CASE StartNapCatReturns \/ Dial
    BY <2>8 DEF StartNapCatReturns, Dial
  <2> QED
    BY <1>2, <2>1, <2>2, <2>3, <2>4, <2>5, <2>6, <2>7, <2>8 DEF StartSteps
<1>3. CASE StopConn
  BY <1>3 DEF StopConn
<1>4. CASE StopSteps
  BY <1>4 DEF StopSteps, StopNapCat, StopNapCatKills, CloseACP
<1>5. CASE HermesStarts \/ HermesWrites \/ HermesEnds \/ Set
  BY <1>5 DEF HermesStarts, HermesWrites, HermesEnds, Set
<1>6. CASE NapCatChanges \/ UNCHANGED allVars
  BY <1>6 DEF NapCatChanges, startupVars, allVars
<1> QED
  BY <1>1, <1>2, <1>3, <1>4, <1>5, <1>6 DEF StartupNext

LEMMA DetectionAlways == StartupSpec => []DetectionInv
<1>1. StartupInit => DetectionInv
  BY DEF StartupInit, DetectionInv, Detecting
<1> QED
  BY <1>1, DetectionNext, PTL DEF StartupSpec

(* Whatever the candidates answer, Detect returns the first of the best,   *)
(* and Start goes on only with a NapCat that answered on both.             *)
THEOREM DetectsTheBest == StartupSpec => []DetectionIsBest
<1>1. DetectionInv => DetectionIsBest
  <2> SUFFICES ASSUME DetectionInv, probes # <<>> PROVE best = Promised
    BY DEF DetectionInv, DetectionIsBest
  <2>1. BestOf(best) /\ DOMAIN probes = 1 .. Len(probes) /\ Len(probes) \in Nat
    BY DEF DetectionInv
  <2>2. \A i \in DOMAIN probes : Score(i) \in Nat
    BY Scores DEF DetectionInv, Score
  <2>3. \A i : BestOf(i) => i = best
    <3> SUFFICES ASSUME NEW i, BestOf(i) PROVE i = best
      OBVIOUS
    <3>1. /\ i \in 1 .. Len(probes) /\ best \in 1 .. Len(probes)
          /\ Score(i) \in Nat /\ Score(best) \in Nat
          /\ Score(i) = Score(best)
      BY <2>1, <2>2 DEF BestOf
    <3>2. ~(i < best) /\ ~(best < i)
      BY <2>1, <3>1 DEF BestOf
    <3> QED
      BY <3>1, <3>2
  <2>4. Promised = CHOOSE i \in DOMAIN probes : BestOf(i)
    BY DEF Promised, BestOf
  <2> QED
    BY <2>1, <2>3, <2>4 DEF BestOf
<1> QED
  BY <1>1, DetectionAlways, PTL

-----------------------------------------------------------------------------
(* The profile. *)

(* A directory that is being cleared or marked was BillBot's or empty when *)
(* Start read it, and one that was neither is as Start found it.  Unless a *)
(* Hermes was there since Start began, the directory is empty when it is   *)
(* marked and holds the marker alone from then on.                         *)
Starting == {"probe", "found", "clear", "mark", "open", "napcat", "launching",
             "dial"}
ProfileInv ==
    /\ unmarked # {} => reset
    /\ step \in {"clear", "mark"} => unmarked = {}
    /\ UnmarkedKept
    /\ step \in Starting /\ ~leftover => ~hermes
    /\ step = "mark" /\ ~leftover => entries = {}
    /\ FreshProfile

LEMMA ProfileNext == ProfileInv /\ [StartupNext]_allVars => ProfileInv'
<1> SUFFICES ASSUME ProfileInv, [StartupNext]_allVars PROVE ProfileInv'
  OBVIOUS
<1> USE DEF ProfileInv, FreshProfile, UnmarkedKept, Starting, profileVars,
            hermesVars, Goto
<1>1. CASE StartBeginsDetect
  BY <1>1 DEF StartBeginsDetect
<1>2. CASE StartSteps
  <2>1. CASE Probe \/ SkipReset
    BY <2>1 DEF Probe, SkipReset
  <2>2. CASE ReadProfile
    BY <2>2 DEF ReadProfile, MayClear, Noted
  <2>3. CASE NotReady \/ RefuseProfile \/ ClearFails
    BY <2>3 DEF NotReady, RefuseProfile, Noted, ClearFails, FailStart
  <2>4. CASE RemoveEntry \/ RemoveDirectory
    BY <2>4 DEF RemoveEntry, RemoveDirectory
  <2>5. CASE Mark
    BY <2>5 DEF Mark
  <2>6. CASE Open
    BY <2>6 DEF Open
  <2>7. CASE StartNapCat
    BY <2>7 DEF StartNapCat
  <2>8. CASE StartNapCatSteps
    BY <2>8 DEF StartNapCatSteps, startupVars
  <2>9. CASE StartNapCatReturns
    BY <2>9 DEF StartNapCatReturns
  <2>10. CASE Dial
    BY <2>10 DEF Dial
  <2> QED
    BY <1>2, <2>1, <2>2, <2>3, <2>4, <2>5, <2>6, <2>7, <2>8, <2>9, <2>10
       DEF StartSteps
<1>3. CASE StopConn
  BY <1>3 DEF StopConn
<1>4. CASE StopSteps
  BY <1>4 DEF StopSteps, StopNapCat, StopNapCatKills, CloseACP
<1>5. CASE HermesStarts \/ HermesWrites \/ HermesEnds \/ Set
  BY <1>5 DEF HermesStarts, HermesWrites, HermesEnds, Set
<1>6. CASE NapCatChanges \/ UNCHANGED allVars
  BY <1>6 DEF NapCatChanges, startupVars, allVars
<1> QED
  BY <1>1, <1>2, <1>3, <1>4, <1>5, <1>6 DEF StartupNext

LEMMA ProfileAlways == StartupSpec => []ProfileInv
<1>1. StartupInit => ProfileInv
  BY DEF StartupInit, ProfileInv, FreshProfile, UnmarkedKept, Starting
<1> QED
  BY <1>1, ProfileNext, PTL DEF StartupSpec

(* A bridge that resets the profile starts with an empty one, unless a     *)
(* Hermes of an earlier bridge was alive.                                  *)
THEOREM ProfileIsFresh == StartupSpec => []FreshProfile
<1>1. ProfileInv => FreshProfile
  BY DEF ProfileInv
<1> QED
  BY <1>1, ProfileAlways, PTL

(* What Start refused it never clears and never marks, however many        *)
(* clearings failed before and whatever they left.                         *)
THEOREM UnmarkedIsKept == StartupSpec => []UnmarkedKept
<1>1. ProfileInv => UnmarkedKept
  BY DEF ProfileInv
<1> QED
  BY <1>1, ProfileAlways, PTL

-----------------------------------------------------------------------------
(* The types.  There are never more results than candidates, so the best   *)
(* of them is one.                                                         *)
Steps == {"idle", "probe", "found", "clear", "mark", "open", "napcat",
          "launching", "dial", "stopping", "killing", "closing"}
TypesInv ==
    /\ step \in Steps
    /\ pc # "idle" => step \in {"launching", "killing"}
    /\ {running, reset, opened, hermes, leftover} \subseteq BOOLEAN
    /\ operator \in Configured /\ napcat \in Addresses
    /\ Len(probes) <= Len(Candidates)
    /\ entries \subseteq Entries /\ unmarked \subseteq Entries

LEMMA CandidatesType ==
  ASSUME napcat \in Addresses
  PROVE  /\ Len(Candidates) \in Nat
         /\ \A i \in 1 .. Len(Candidates) : Candidates[i] \in Addresses
<1>1. CASE napcat \in {Blank, "loopback"}
  BY <1>1 DEF Candidates, Addresses
<1>2. CASE napcat = "localhost"
  BY <1>2 DEF Candidates, Blank, Addresses
<1>3. CASE napcat \notin {Blank, "loopback", "localhost"}
  BY <1>3 DEF Candidates, Addresses
<1> QED
  BY <1>1, <1>2, <1>3

LEMMA TypesNext ==
  DetectionInv /\ TypesInv /\ [StartupNext]_allVars => TypesInv'
<1> SUFFICES ASSUME DetectionInv, TypesInv, [StartupNext]_allVars
             PROVE  TypesInv'
  OBVIOUS
<1> USE DEF TypesInv, Steps, Candidates, detectVars, profileVars, hermesVars,
            Goto
<1>1. CASE StartBeginsDetect
  BY <1>1 DEF StartBeginsDetect, vars
<1>2. CASE StartSteps
  <2>1. CASE Probe
    BY <2>1 DEF Probe, DetectionInv, vars
  <2>2. CASE SkipReset \/ ReadProfile
    BY <2>2 DEF SkipReset, ReadProfile, Noted, vars
  <2>3. CASE NotReady \/ RefuseProfile \/ ClearFails
    <3>1. /\ step' = "idle" /\ probes' = <<>> /\ pc = "idle"
          /\ unmarked' \in {{}, entries, unmarked}
          /\ UNCHANGED <<vars, running, napcat, operator, reset, entries,
                         hermesVars>>
      BY <2>3 DEF NotReady, RefuseProfile, Noted, ClearFails, FailStart
    <3>2. Len(probes') = 0 /\ Len(Candidates) \in Nat
      BY <3>1, CandidatesType
    <3> QED
      BY <3>1, <3>2 DEF vars
  <2>4. CASE RemoveEntry \/ RemoveDirectory \/ Mark
    BY <2>4 DEF RemoveEntry, RemoveDirectory, Mark, Entries, vars
  <2>5. CASE Open
    <3>1. /\ step = "open" /\ step' = "napcat" /\ probes' = <<>>
          /\ running' = TRUE /\ opened' = TRUE
          /\ napcat' = Candidates[best]
          /\ UNCHANGED <<vars, operator, profileVars, hermes, leftover>>
      BY <2>5 DEF Open
    <3>2. best \in 1 .. Len(Candidates)
      BY <3>1, CandidatesType DEF DetectionInv
    <3>3. napcat' \in Addresses
      BY <3>1, <3>2, CandidatesType
    <3>4. (napcat \in Addresses)' => (Len(Candidates) \in Nat)'
      BY CandidatesType, PTL
    <3>5. Len(probes') <= Len(Candidates)'
      BY <3>1, <3>3, <3>4
    <3> QED
      BY <3>1, <3>3, <3>5 DEF vars
  <2>6. CASE StartNapCat
    BY <2>6 DEF StartNapCat, StartSkips, StartBegins, vars
  <2>7. CASE StartNapCatSteps
    BY <2>7 DEF StartNapCatSteps, startupVars, Tracked, Launch, LaunchFails,
                WaitEnds
  <2>8. CASE StartNapCatReturns \/ Dial
    BY <2>8 DEF StartNapCatReturns, Dial, vars
  <2> QED
    BY <1>2, <2>1, <2>2, <2>3, <2>4, <2>5, <2>6, <2>7, <2>8 DEF StartSteps
<1>3. CASE StopConn
  BY <1>3 DEF StopConn, vars
<1>4. CASE StopSteps
  BY <1>4 DEF StopSteps, StopNapCat, StopTake, StopNapCatKills, StopKill,
              CloseACP, vars
<1>5. CASE HermesStarts \/ HermesWrites \/ HermesEnds
  BY <1>5 DEF HermesStarts, HermesWrites, HermesEnds, Entries, vars
<1>6. CASE Set
  <2>1. probes = <<>> /\ operator \in Addresses
    BY <1>6 DEF Set, DetectionInv, Detecting, Addresses
  <2>2. (napcat \in Addresses)' => (Len(Candidates) \in Nat)'
    BY CandidatesType, PTL
  <2>3. napcat' \in Addresses /\ Len(probes') = 0
    BY <1>6, <2>1 DEF Set
  <2>4. Len(probes') <= Len(Candidates)'
    BY <2>2, <2>3
  <2> QED
    BY <1>6, <2>3, <2>4 DEF Set, vars
<1>7. CASE NapCatChanges \/ UNCHANGED allVars
  BY <1>7 DEF NapCatChanges, WaiterSteps, Wait, Untrack, Dies, ReadyChanges,
              startupVars, allVars, vars
<1> QED
  BY <1>1, <1>2, <1>3, <1>4, <1>5, <1>6, <1>7 DEF StartupNext

(* Start's and Stop's own variables and the manager's keep their types,    *)
(* and the manager is only at work while one of them is calling it.        *)
THEOREM StartupTypeCorrect == StartupSpec => []StartupTypeOK
<1>1. StartupInit => TypesInv
  <2> SUFFICES ASSUME StartupInit PROVE TypesInv
    OBVIOUS
  <2>1. napcat \in Addresses /\ Len(probes) = 0
    BY DEF StartupInit, Addresses
  <2>2. Len(probes) <= Len(Candidates)
    BY <2>1, CandidatesType
  <2>3. entries \subseteq Entries /\ unmarked = {} /\ reset \in BOOLEAN
    BY StartupAssumption DEF StartupInit
  <2> QED
    BY <2>1, <2>2, <2>3 DEF StartupInit, Init, TypesInv, Steps
<1>2. DetectionInv /\ TypesInv /\ TypeOK => StartupTypeOK
  BY DEF DetectionInv, TypesInv, StartupTypeOK, Steps
<1> QED
  BY <1>1, <1>2, TypesNext, DetectionAlways, ImplementsManager, TypeCorrect, PTL
     DEF StartupSpec
=============================================================================
