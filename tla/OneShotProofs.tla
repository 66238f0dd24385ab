---------------------------- MODULE OneShotProofs -----------------------------
(***************************************************************************)
(* Facts about OneShot for any number of lines that a process prints: what *)
(* cleanOutput makes of a buffer, and that the call's state keeps its      *)
(* type and its bound on what is copied.                                   *)
(*                                                                         *)
(* VisibleUpTo is defined by recursion over a sequence.  What it computes  *)
(* is proved by induction, in the form of SetInduction; that rests on the  *)
(* library's fact that the strict inclusion of finite sets is well founded.*)
(***************************************************************************)
EXTENDS OneShot, FiniteSetTheorems, SequenceTheorems, WellFoundedInduction,
        TLAPS

-----------------------------------------------------------------------------
(* Induction over the natural numbers.  The least element of a set: the    *)
(* one whose initial segment is smallest.                                  *)
LEMMA LeastElement ==
  ASSUME NEW S \in SUBSET Nat, S # {}
  PROVE  \E m \in S : \A k \in S : k >= m
<1> DEFINE Segments == {1 .. n : n \in S}
<1>1. Segments \subseteq FiniteSubsetsOf(Nat)
  <2>1. ASSUME NEW n \in S PROVE 1 .. n \in FiniteSubsetsOf(Nat)
    <3>1. IsFiniteSet(1 .. n)
      BY FS_Interval
    <3>2. 1 .. n \in SUBSET Nat
      OBVIOUS
    <3> QED
      BY <3>1, <3>2 DEF FiniteSubsetsOf
  <2> QED
    BY <2>1
<1>2. Segments # {}
  OBVIOUS
<1>3. PICK x \in Segments :
         \A y \in Segments : ~(<<y, x>> \in StrictSubsetOrdering(Nat))
  <2> HIDE DEF Segments
  <2>1. IsWellFoundedOn(StrictSubsetOrdering(Nat), FiniteSubsetsOf(Nat))
    BY FS_StrictSubsetOrderingWellFounded
  <2> QED
    BY <1>1, <1>2, <2>1, WFMin
<1>4. PICK m \in S : x = 1 .. m
  OBVIOUS
<1>5. ASSUME NEW k \in S, ~(k >= m) PROVE FALSE
  <2>1. 1 .. k \in Segments
    OBVIOUS
  <2>2. m \in 1 .. m /\ m \notin 1 .. k
    BY <1>5
  <2>3. 1 .. k \subseteq 1 .. m
    BY <1>5
  <2>4. 1 .. k \in SUBSET Nat /\ 1 .. m \in SUBSET Nat
    OBVIOUS
  <2>5. <<1 .. k, 1 .. m>> \in StrictSubsetOrdering(Nat)
    BY <2>2, <2>3, <2>4 DEF StrictSubsetOrdering
  <2> QED
    BY <1>3, <1>4, <2>1, <2>5
<1> QED
  BY <1>5

(* A set with 0 and with the successor of each of its numbers. *)
LEMMA SetInduction ==
  ASSUME NEW S, 0 \in S, \A n \in Nat : n \in S => n + 1 \in S
  PROVE  Nat \subseteq S
<1> SUFFICES ASSUME Nat \ S # {} PROVE FALSE
  OBVIOUS
<1>1. PICK m \in Nat \ S : \A k \in Nat \ S : k >= m
  BY LeastElement
<1>2. m # 0 /\ m - 1 \in Nat /\ m - 1 < m
  OBVIOUS
<1> QED
  BY <1>1, <1>2

-----------------------------------------------------------------------------
(* cleanOutput.  VisibleUpTo is the function that its equation describes:  *)
(* there is one, line by line.                                             *)
Shown(o, shown, i) ==
    IF o[i] \in VisibleLines THEN Append(shown, o[i]) ELSE shown
IsVisible(o, n, f) ==
    f = [i \in 0 .. n |-> IF i = 0 THEN <<>> ELSE Shown(o, f[i - 1], i)]

LEMMA VisibleExists ==
  ASSUME NEW o, NEW n \in Nat
  PROVE  \E f : IsVisible(o, n, f)
<1> DEFINE S == {k \in Nat : \E f : IsVisible(o, k, f)}
<1>1. 0 \in S
  <2> DEFINE f == [i \in 0 .. 0 |-> <<>>]
  <2>1. IsVisible(o, 0, f)
    BY DEF IsVisible
  <2> QED
    BY <2>1
<1>2. ASSUME NEW k \in Nat, k \in S PROVE k + 1 \in S
  <2>1. PICK f : IsVisible(o, k, f)
    BY <1>2
  <2> DEFINE g == [i \in 0 .. k + 1 |->
                     IF i = k + 1 THEN Shown(o, f[k], k + 1) ELSE f[i]]
  <2>2. \A i \in 0 .. k : f[i] = IF i = 0 THEN <<>> ELSE Shown(o, f[i - 1], i)
    BY <2>1, Zenon DEF IsVisible
  <2>3. ASSUME NEW i \in 0 .. k + 1
        PROVE  g[i] = IF i = 0 THEN <<>> ELSE Shown(o, g[i - 1], i)
    <3>1. CASE i = k + 1
      <4>1. g[i - 1] = f[k] /\ i # 0
        BY <3>1
      <4> QED
        BY <3>1, <4>1
    <3>2. CASE i \in 0 .. k /\ i # 0
      <4>1. g[i - 1] = f[i - 1] /\ g[i] = f[i]
        BY <3>2
      <4> QED
        BY <3>2, <4>1, <2>2
    <3>3. CASE i = 0
      BY <3>3, <2>2
    <3> QED
      BY <3>1, <3>2, <3>3
  <2>4. IsVisible(o, k + 1, g)
    <3>1. g = [i \in 0 .. k + 1 |-> g[i]]
      OBVIOUS
    <3> HIDE DEF g
    <3> QED
      BY <3>1, <2>3 DEF IsVisible
  <2> QED
    BY <2>4
<1> QED
  BY <1>1, <1>2, SetInduction

LEMMA VisibleDefined ==
  ASSUME NEW S, NEW o \in Seq(S)
  PROVE  /\ VisibleUpTo(o)[0] = <<>>
         /\ \A i \in 1 .. Len(o) :
               VisibleUpTo(o)[i] = Shown(o, VisibleUpTo(o)[i - 1], i)
<1>1. VisibleUpTo(o) = CHOOSE f : IsVisible(o, Len(o), f)
  BY DEF VisibleUpTo, IsVisible, Shown
<1>2. IsVisible(o, Len(o), VisibleUpTo(o))
  <2>1. Len(o) \in Nat
    OBVIOUS
  <2> QED
  BY <1>1, <2>1, VisibleExists, Zenon
<1>3. \A i \in 0 .. Len(o) :
         VisibleUpTo(o)[i] =
             IF i = 0 THEN <<>> ELSE Shown(o, VisibleUpTo(o)[i - 1], i)
  BY <1>2, Zenon DEF IsVisible
<1> QED
  BY <1>3

(* What is visible are lines for the user, and it is empty just when none  *)
(* was printed.                                                            *)
LEMMA VisibleProperties ==
  ASSUME NEW S, NEW o \in Seq(S)
  PROVE  /\ Visible(o) \in Seq(S \cap VisibleLines)
         /\ Visible(o) = <<>> <=> \A i \in 1 .. Len(o) : o[i] \notin VisibleLines
<1> DEFINE v == VisibleUpTo(o)
           None(n) == \A i \in 1 .. n : o[i] \notin VisibleLines
           Right(n) == /\ v[n] \in Seq(S \cap VisibleLines)
                       /\ v[n] = <<>> <=> None(n)
           T == {n \in Nat : n <= Len(o) => Right(n)}
<1>1. Len(o) \in Nat /\ \A i \in 1 .. Len(o) : o[i] \in S
  OBVIOUS
<1>2. v[0] = <<>> /\ \A i \in 1 .. Len(o) : v[i] = Shown(o, v[i - 1], i)
  BY VisibleDefined
<1> HIDE DEF v
<1>3. Right(0)
  <2>1. <<>> \in Seq(S \cap VisibleLines) /\ 1 .. 0 = {}
    OBVIOUS
  <2> QED
    BY <1>2, <2>1
<1>4. ASSUME NEW n \in Nat, n + 1 <= Len(o), Right(n) PROVE Right(n + 1)
  <2>1. v[n + 1] = Shown(o, v[n], n + 1) /\ o[n + 1] \in S
    <3>1. n + 1 \in 1 .. Len(o) /\ (n + 1) - 1 = n
      BY <1>1, <1>4
    <3> QED
      BY <1>1, <1>2, <3>1
  <2>2. None(n + 1) <=> None(n) /\ o[n + 1] \notin VisibleLines
    <3>1. 1 .. n + 1 = (1 .. n) \cup {n + 1}
      OBVIOUS
    <3> QED
      BY <3>1
  <2> HIDE DEF None
  <2>3. CASE o[n + 1] \in VisibleLines
    <3>1. v[n + 1] = Append(v[n], o[n + 1])
      BY <2>1, <2>3, Zenon DEF Shown
    <3>2. v[n] \in Seq(S \cap VisibleLines) /\ o[n + 1] \in S \cap VisibleLines
      BY <1>4, <2>1, <2>3
    <3>3. /\ Append(v[n], o[n + 1]) \in Seq(S \cap VisibleLines)
          /\ Append(v[n], o[n + 1]) # <<>>
      BY <3>2, AppendProperties
    <3> QED
      BY <2>2, <2>3, <3>1, <3>3
  <2>4. CASE o[n + 1] \notin VisibleLines
    <3>1. v[n + 1] = v[n]
      BY <2>1, <2>4, Zenon DEF Shown
    <3> QED
      BY <1>4, <2>2, <2>4, <3>1
  <2> QED
    BY <2>3, <2>4
<1> HIDE DEF Right
<1>5. 0 \in T /\ \A n \in Nat : n \in T => n + 1 \in T
  BY <1>1, <1>3, <1>4
<1>6. Right(Len(o))
  <2>1. Nat \subseteq T
    <3> HIDE DEF T
    <3> QED
      BY <1>5, SetInduction
  <2> QED
    BY <1>1, <2>1
<1> QED
  BY <1>6 DEF Visible, v, Right

LEMMA CleanedType ==
  ASSUME NEW o \in Seq(Lines), NEW ok \in BOOLEAN
  PROVE  Cleaned(o, ok) \in [text : Seq(Lines), session : BOOLEAN, ok : BOOLEAN]
<1>1. Visible(o) \in Seq(Lines)
  <2>1. Visible(o) \in Seq(Lines \cap VisibleLines)
    BY VisibleProperties
  <2> QED
    BY <2>1
<1> QED
  BY <1>1 DEF Cleaned, HasSession

LEMMA NothingType ==
  /\ NoResult \in [text : Seq(Lines), session : BOOLEAN, ok : BOOLEAN]
  /\ Nothing \in [Streams -> Seq(Lines)]
  /\ <<>> \in Seq(Lines) /\ Len(<<>>) = 0
  /\ \A s \in Streams : Nothing[s] = <<>>
  /\ "stdout" \in Streams /\ "stderr" \in Streams
  BY DEF NoResult, Nothing, Streams

-----------------------------------------------------------------------------
(* The lines that were printed and are not lost: copying moves them,       *)
(* printing adds one.                                                      *)
Kept(o, p) == Len(o) + Len(p["stdout"]) + Len(p["stderr"])

LEMMA Sums ==
  ASSUME NEW a \in Nat, NEW b \in Nat, NEW c \in Nat
  PROVE  /\ a + b + c \in Nat /\ a <= a + b + c /\ a + 0 + 0 = a
         /\ (a + b) + 0 + c = a + b + c /\ (a + c) + b + 0 = a + b + c
         /\ a + (b + 1) + c = a + b + c + 1
         /\ a + b + (c + 1) = a + b + c + 1
  OBVIOUS

LEMMA KeptTypes ==
  ASSUME NEW o \in Seq(Lines), NEW p \in [Streams -> Seq(Lines)]
  PROVE  /\ Len(o) \in Nat /\ Kept(o, p) \in Nat
         /\ Len(p["stdout"]) \in Nat /\ Len(p["stderr"]) \in Nat
         /\ Kept(o, Nothing) = Len(o) /\ Len(o) <= Kept(o, p)
<1>1. p["stdout"] \in Seq(Lines) /\ p["stderr"] \in Seq(Lines)
  BY DEF Streams
<1>2. Nothing["stdout"] = <<>> /\ Nothing["stderr"] = <<>> /\ Len(<<>>) = 0
  BY DEF Nothing, Streams
<1>3. Len(o) \in Nat /\ Len(p["stdout"]) \in Nat /\ Len(p["stderr"]) \in Nat
  BY <1>1, LenProperties
<1>4. Kept(o, Nothing) = Len(o)
  BY <1>2, <1>3 DEF Kept
<1> QED
  BY <1>3, <1>4, Sums, Zenon DEF Kept

LEMMA KeptByCopy ==
  ASSUME NEW o \in Seq(Lines), NEW p \in [Streams -> Seq(Lines)],
         NEW s \in Streams
  PROVE  /\ o \o p[s] \in Seq(Lines)
         /\ [p EXCEPT ![s] = <<>>] \in [Streams -> Seq(Lines)]
         /\ Kept(o \o p[s], [p EXCEPT ![s] = <<>>]) = Kept(o, p)
<1> DEFINE q == [p EXCEPT ![s] = <<>>]
<1>1. <<>> \in Seq(Lines) /\ Len(<<>>) = 0 /\ p[s] \in Seq(Lines)
  OBVIOUS
<1>2. o \o p[s] \in Seq(Lines) /\ Len(o \o p[s]) = Len(o) + Len(p[s])
  BY <1>1, ConcatProperties
<1>3. q \in [Streams -> Seq(Lines)] /\ q[s] = <<>>
      /\ \A t \in Streams \ {s} : q[t] = p[t]
  BY <1>1
<1>4. Len(o) \in Nat /\ Len(p["stdout"]) \in Nat /\ Len(p["stderr"]) \in Nat
  BY KeptTypes
<1> HIDE DEF q
<1>7. SUFFICES Kept(o \o p[s], q) = Kept(o, p)
  BY <1>2, <1>3 DEF q
<1>a. PICK a \in Nat, b \in Nat, c \in Nat :
         a = Len(o) /\ b = Len(p["stdout"]) /\ c = Len(p["stderr"])
  BY <1>4
<1>b. Kept(o, p) = a + b + c
  BY <1>a, Zenon DEF Kept
<1>5. CASE s = "stdout"
  <2>1. Len(q["stdout"]) = 0 /\ q["stderr"] = p["stderr"]
    BY <1>1, <1>3, <1>5 DEF Streams
  <2>2. Kept(o \o p[s], q)
            = (Len(o) + Len(p["stdout"])) + 0 + Len(p["stderr"])
    BY <1>2, <1>5, <2>1, Zenon DEF Kept
  <2>3. (a + b) + 0 + c = a + b + c
    BY Sums
  <2> QED
    BY <1>a, <1>b, <2>2, <2>3, Zenon
<1>6. CASE s = "stderr"
  <2>1. Len(q["stderr"]) = 0 /\ q["stdout"] = p["stdout"]
    BY <1>1, <1>3, <1>6 DEF Streams
  <2>2. Kept(o \o p[s], q)
            = (Len(o) + Len(p["stderr"])) + Len(p["stdout"]) + 0
    BY <1>2, <1>6, <2>1, Zenon DEF Kept
  <2>3. (a + c) + b + 0 = a + b + c
    BY Sums
  <2> QED
    BY <1>a, <1>b, <2>2, <2>3, Zenon
<1> QED
  BY <1>5, <1>6 DEF Streams

LEMMA KeptByEmit ==
  ASSUME NEW o \in Seq(Lines), NEW p \in [Streams -> Seq(Lines)],
         NEW s \in Streams, NEW l \in Lines
  PROVE  Kept(o, [p EXCEPT ![s] = Append(@, l)]) = Kept(o, p) + 1
<1> DEFINE q == [p EXCEPT ![s] = Append(@, l)]
<1>1. Append(p[s], l) \in Seq(Lines) /\ Len(Append(p[s], l)) = Len(p[s]) + 1
  BY AppendProperties
<1>2. q \in [Streams -> Seq(Lines)] /\ q[s] = Append(p[s], l)
      /\ \A t \in Streams \ {s} : q[t] = p[t]
  BY <1>1
<1>3. Len(o) \in Nat /\ Len(p["stdout"]) \in Nat /\ Len(p["stderr"]) \in Nat
  BY KeptTypes
<1> HIDE DEF q
<1>4. SUFFICES Kept(o, q) = Kept(o, p) + 1
  BY <1>2 DEF q
<1>a. PICK a \in Nat, b \in Nat, c \in Nat :
         a = Len(o) /\ b = Len(p["stdout"]) /\ c = Len(p["stderr"])
  BY <1>3
<1>b. Kept(o, p) = a + b + c
  BY <1>a, Zenon DEF Kept
<1>5. CASE s = "stdout"
  <2>1. Len(q["stdout"]) = Len(p["stdout"]) + 1 /\ q["stderr"] = p["stderr"]
    BY <1>1, <1>2, <1>5 DEF Streams
  <2>2. Kept(o, q) = Len(o) + (Len(p["stdout"]) + 1) + Len(p["stderr"])
    BY <2>1, Zenon DEF Kept
  <2>3. a + (b + 1) + c = a + b + c + 1
    BY Sums
  <2> QED
    BY <1>a, <1>b, <2>2, <2>3, Zenon
<1>6. CASE s = "stderr"
  <2>1. Len(q["stderr"]) = Len(p["stderr"]) + 1 /\ q["stdout"] = p["stdout"]
    BY <1>1, <1>2, <1>6 DEF Streams
  <2>2. Kept(o, q) = Len(o) + Len(p["stdout"]) + (Len(p["stderr"]) + 1)
    BY <2>1, Zenon DEF Kept
  <2>3. a + b + (c + 1) = a + b + c + 1
    BY Sums
  <2> QED
    BY <1>a, <1>b, <2>2, <2>3, Zenon
<1> QED
  BY <1>5, <1>6 DEF Streams

LEMMA EmitKept ==
  ASSUME out \in Seq(Lines), pipe \in [Streams -> Seq(Lines)],
         NEW s \in Streams, NEW l \in Lines,
         pipe' = [pipe EXCEPT ![s] = Append(@, l)]
  PROVE  /\ pipe' \in [Streams -> Seq(Lines)]
         /\ Kept(out, pipe') = Kept(out, pipe) + 1
<1>1. pipe' \in [Streams -> Seq(Lines)]
  <2>1. Append(pipe[s], l) \in Seq(Lines)
    BY AppendProperties
  <2> QED
    BY <2>1
<1>2. Kept(out, pipe') = Kept(out, pipe) + 1
  BY KeptByEmit
<1> QED
  BY <1>1, <1>2

-----------------------------------------------------------------------------
(* OneShotTypeOK, with the sum of lengths named. *)
LEMMA OneShotTypes ==
  OneShotTypeOK =>
    /\ out \in Seq(Lines) /\ pipe \in [Streams -> Seq(Lines)]
    /\ printed \in 0 .. MaxLines /\ Kept(out, pipe) <= printed
  BY DEF OneShotTypeOK, Kept

LEMMA OneShotTypeNext ==
  OneShotTypeOK /\ (OneShotNext \/ Launch \/ LaunchFails) => OneShotTypeOK'
<1> SUFFICES ASSUME OneShotTypeOK, OneShotNext \/ Launch \/ LaunchFails
             PROVE  OneShotTypeOK'
  OBVIOUS
<1> DEFINE Counted == /\ out \in Seq(Lines) /\ pipe \in [Streams -> Seq(Lines)]
                      /\ printed \in 0 .. MaxLines
                      /\ Kept(out, pipe) <= printed
           Rest == /\ call \in {"idle", "loop", "idleKill", "contextKill",
                                "returned"}
                   /\ proc \in {"none", "running", "exited", "failed", "killed"}
                   /\ done \in {"none", "ok", "error", "taken"}
                   /\ ctx \in {"live", "done"}
                   /\ touch \in BOOLEAN /\ seenOutput \in BOOLEAN
                   /\ result \in [text : Seq(Lines), session : BOOLEAN,
                                  ok : BOOLEAN]
<1>a. Counted /\ Rest
  BY DEF OneShotTypeOK, Kept
<1>b. SUFFICES Counted' /\ Rest'
  BY DEF OneShotTypeOK, Kept
<1>c. /\ Kept(out, pipe) \in Nat /\ Kept(out, Nothing) = Len(out)
      /\ Len(out) \in Nat /\ Len(out) <= Kept(out, pipe)
  BY <1>a, KeptTypes
<1>d. Kept(<<>>, Nothing) = 0 /\ <<>> \in Seq(Lines) /\ 0 \in 0 .. MaxLines
      /\ 0 <= 0
  BY NothingType, KeptTypes, MaxLinesAssumption
<1>e. ASSUME UNCHANGED <<out, pipe, printed>> PROVE Counted'
  BY <1>a, <1>e
<1>1. ASSUME NEW r \in [text : Seq(Lines), session : BOOLEAN, ok : BOOLEAN],
             Return(r), UNCHANGED proc,
             done' \in {"none", "ok", "error", "taken"}
      PROVE  Counted' /\ Rest'
  <2>1. out' = <<>> /\ pipe' = Nothing /\ printed' = 0
    BY <1>1 DEF Return
  <2>2. Counted'
    BY <1>d, <2>1, NothingType
  <2> HIDE DEF Counted
  <2> QED
    BY <1>1, <1>a, <2>2 DEF Return
<1>2. CASE Launch
  BY <1>2, <1>a, <1>e DEF Launch, outputVars
<1>3. CASE LaunchFails
  BY <1>1, <1>3, <1>a, NothingType DEF LaunchFails
<1>4. CASE TakeDone
  BY <1>1, <1>4, <1>a, CleanedType DEF TakeDone
<1>5. CASE TakeTouch
  BY <1>5, <1>a, <1>e DEF TakeTouch
<1>6. CASE TakeIdle \/ TakeContext
  BY <1>6, <1>a, <1>e, CleanedType DEF TakeIdle, TakeContext, Kill, outputVars
<1>7. CASE AfterKill
  BY <1>1, <1>7, <1>a, CleanedType, NothingType DEF AfterKill
<1>8. CASE Wait
  <2>1. /\ pipe' = Nothing /\ done' \in {"ok", "error"}
        /\ UNCHANGED <<call, seenOutput, result, proc, printed, out, touch, ctx>>
    BY <1>8 DEF Wait, loopVars
  <2>2. Counted'
    BY <1>a, <1>c, <2>1, NothingType
  <2> HIDE DEF Counted
  <2> QED
    BY <1>a, <2>1, <2>2
<1>9. CASE WatchContext \/ Exit
  BY <1>9, <1>a, <1>e DEF WatchContext, Exit, loopVars, outputVars
<1>10. ASSUME NEW s \in Streams, Copy(s) PROVE Counted' /\ Rest'
  <2>1. /\ out' = out \o pipe[s] /\ touch' = TRUE
        /\ pipe' = [pipe EXCEPT ![s] = <<>>]
        /\ UNCHANGED <<call, seenOutput, result, proc, printed, done, ctx>>
    BY <1>10 DEF Copy, loopVars
  <2>2. Counted'
    BY <1>a, <2>1, KeptByCopy
  <2> HIDE DEF Counted
  <2> QED
    BY <1>a, <2>1, <2>2
<1>11. ASSUME NEW s \in Streams, NEW l \in Lines, Emit(s, l)
       PROVE  Counted' /\ Rest'
  <2>1. /\ printed' = printed + 1 /\ printed < MaxLines
        /\ pipe' = [pipe EXCEPT ![s] = Append(@, l)]
        /\ UNCHANGED <<call, seenOutput, result, proc, out, touch, done, ctx>>
    BY <1>11 DEF Emit, loopVars
  <2>2. pipe' \in [Streams -> Seq(Lines)] /\ Kept(out, pipe') = Kept(out, pipe) + 1
    BY <1>a, <2>1, EmitKept
  <2>3. printed' \in 0 .. MaxLines
    BY <1>a, <2>1, MaxLinesAssumption
  <2>4. Kept(out', pipe') <= printed'
    <3>1. printed \in Nat /\ Kept(out, pipe) <= printed
      BY <1>a, MaxLinesAssumption
    <3> HIDE DEF Counted, Rest
    <3> QED
      BY <1>c, <2>1, <2>2, <3>1
  <2>5. Counted'
    BY <1>a, <2>1, <2>2, <2>3, <2>4
  <2> HIDE DEF Counted
  <2> QED
    BY <1>a, <2>1, <2>5
<1> QED
  BY <1>2, <1>3, <1>4, <1>5, <1>6, <1>7, <1>8, <1>9, <1>10, <1>11
     DEF OneShotNext
=============================================================================
