------------------------ MODULE KextSelectionProofs ------------------------
(***************************************************************************)
(* Theorems about the selection of kexts for every dataset that satisfies  *)
(* KextAssumption: any number of kexts, any requirements, cyclic or not,   *)
(* any conflict groups and any macOS versions.                             *)
(***************************************************************************)
EXTENDS KextSelection, SequenceTheorems, TLAPS

-----------------------------------------------------------------------------
(* The stack of calls.                                                     *)

\* What a push does to the calls, and which kexts they run for.
LEMMA PushCall ==
    ASSUME NEW s, Calls(s), NEW k \in Kexts
    PROVE  /\ Calls(Append(s, [kext |-> k, next |-> 1]))
           /\ Len(Append(s, [kext |-> k, next |-> 1])) = Len(s) + 1
           /\ \A i \in 1 .. Len(s) : Append(s, [kext |-> k, next |-> 1])[i] = s[i]
           /\ Append(s, [kext |-> k, next |-> 1])[Len(s) + 1].kext = k
  <1> DEFINE t == Append(s, [kext |-> k, next |-> 1])
  <1>1. [kext |-> k, next |-> 1] \in Frames
    BY DEF Frames
  <1>2. /\ t \in Seq(Frames)
        /\ Len(t) = Len(s) + 1
        /\ \A i \in 1 .. Len(s) : t[i] = s[i]
        /\ t[Len(s) + 1] = [kext |-> k, next |-> 1]
    BY <1>1, AppendProperties DEF Calls
  <1>3. Len(s) \in Nat /\ Len(Requires[k]) \in Nat
    BY KextAssumption DEF Calls
  <1> HIDE DEF t
  <1>4. ASSUME NEW i \in 1 .. Len(t)
        PROVE  t[i].next \in 1 .. Len(Requires[t[i].kext]) + 1
    <2>1. CASE i \in 1 .. Len(s)
      BY <2>1, <1>2 DEF Calls
    <2>2. CASE i = Len(s) + 1
      BY <2>2, <1>2, <1>3
    <2>3. QED BY <2>1, <2>2, <1>2, <1>3
  <1>5. Calls(t)
    BY <1>2, <1>3, <1>4 DEF Calls
  <1>6. QED BY <1>2, <1>5 DEF t

\* The innermost call is for a kext; its next requirement is one too.
LEMMA TopCall ==
    ASSUME Calls(stack), stack # <<>>
    PROVE  /\ Len(stack) \in Nat \ {0}
           /\ Top \in Frames
           /\ Top.kext \in Kexts
           /\ Top.next \in 1 .. Len(Requires[Top.kext]) + 1
           /\ Top.next <= Len(Requires[Top.kext]) => Requires[Top.kext][Top.next] \in Kexts
  <1>1. Len(stack) \in Nat \ {0}
    BY EmptySeq DEF Calls
  <1>2. Top \in Frames /\ Top.next \in 1 .. Len(Requires[Top.kext]) + 1
    BY <1>1 DEF Calls, Top
  <1>3. Top.kext \in Kexts
    BY <1>2 DEF Frames
  <1>4. Requires[Top.kext] \in Seq(Kexts)
    BY <1>3, KextAssumption
  <1>5. QED BY <1>1, <1>2, <1>3, <1>4, ElementOfSeq

\* The innermost call moves on to its next requirement.
LEMMA AdvanceCall ==
    ASSUME Calls(stack), stack # <<>>, Top.next <= Len(Requires[Top.kext]),
           NEW t, t = [stack EXCEPT ![Len(stack)] = [Top EXCEPT !.next = @ + 1]]
    PROVE  /\ Calls(t)
           /\ Len(t) = Len(stack)
           /\ \A i \in 1 .. Len(stack) : t[i].kext = stack[i].kext
  <1>1. /\ Len(stack) \in Nat \ {0} /\ Top \in Frames /\ Top.kext \in Kexts
        /\ Top.next \in 1 .. Len(Requires[Top.kext]) + 1
    BY TopCall
  <1>2. Len(Requires[Top.kext]) \in Nat
    BY <1>1, KextAssumption
  <1> DEFINE f == [Top EXCEPT !.next = @ + 1]
  <1>3. /\ f \in Frames /\ f.kext = Top.kext
        /\ f.next \in 1 .. Len(Requires[f.kext]) + 1
    BY <1>1, <1>2 DEF Frames
  <1> HIDE DEF f
  <1>4. /\ t \in Seq(Frames) /\ Len(t) = Len(stack)
        /\ t[Len(stack)] = f
        /\ \A i \in 1 .. Len(stack) : i # Len(stack) => t[i] = stack[i]
    BY <1>1, <1>3, ExceptSeq DEF Calls, f
  <1>5. QED BY <1>3, <1>4 DEF Calls, Top

\* The innermost call returns.
LEMMA PopCall ==
    ASSUME Calls(stack), stack # <<>>, NEW t, t = SubSeq(stack, 1, Len(stack) - 1)
    PROVE  /\ Calls(t)
           /\ Len(t) = Len(stack) - 1
           /\ \A i \in 1 .. Len(t) : t[i] = stack[i]
  <1>1. Len(stack) \in Nat \ {0}
    BY TopCall
  <1>2. /\ t \in Seq(Frames)
        /\ Len(t) = Len(stack) - 1
        /\ \A i \in 1 .. Len(stack) - 1 : t[i] = stack[i]
    <2>1. \A i \in 1 .. Len(stack) - 1 : stack[i] \in Frames
      BY <1>1 DEF Calls
    <2>2. 1 \in Int /\ Len(stack) - 1 \in Int
      BY <1>1
    <2>3. /\ SubSeq(stack, 1, Len(stack) - 1) \in Seq(Frames)
          /\ Len(SubSeq(stack, 1, Len(stack) - 1))
               = IF 1 <= Len(stack) - 1 THEN (Len(stack) - 1) - 1 + 1 ELSE 0
          /\ \A i \in 1 .. (Len(stack) - 1) - 1 + 1 :
               SubSeq(stack, 1, Len(stack) - 1)[i] = stack[1 + i - 1]
      BY <2>1, <2>2, SubSeqProperties
    <2>4. /\ (Len(stack) - 1) - 1 + 1 = Len(stack) - 1
          /\ \A i \in 1 .. Len(stack) - 1 : 1 + i - 1 = i
      BY <1>1
    <2>5. QED BY <1>1, <2>3, <2>4
  <1>3. QED BY <1>1, <1>2 DEF Calls
-----------------------------------------------------------------------------
(* One call, and the loop that makes it.                                   *)

\* A call made on top of the calls below keeps the types, and checks its kext
\* only when the version supports it or the user agreed to force kexts.
LEMMA CheckCall ==
    ASSUME checked \in SUBSET Kexts, NEW k \in Kexts, NEW below, Calls(below), Check(k, below)
    PROVE  /\ checked' \in SUBSET Kexts
           /\ Calls(stack')
           /\ checked \subseteq checked' /\ checked' \subseteq checked \cup {k}
           /\ Len(stack') \in Nat /\ Len(below) \in Nat
           /\ Len(below) <= Len(stack')
           /\ \A i \in 1 .. Len(below) : stack'[i] = below[i]
           /\ checked' # checked => /\ allow \/ Supported(k)
                                    /\ \E i \in 1 .. Len(stack') : stack'[i].kext = k
  <1>l. Len(below) \in Nat
    BY DEF Calls
  <1>1. CASE k \in checked \/ ~(allow \/ Supported(k))
    BY <1>1, <1>l DEF Check
  <1>2. CASE ~(k \in checked \/ ~(allow \/ Supported(k)))
    <2>1. checked' = checked \cup {k} /\ stack' = Append(below, [kext |-> k, next |-> 1])
      BY <1>2 DEF Check
    <2>2. /\ Calls(stack')
          /\ Len(stack') = Len(below) + 1
          /\ \A i \in 1 .. Len(below) : stack'[i] = below[i]
          /\ stack'[Len(stack')].kext = k
      BY <2>1, <1>l, PushCall
    <2>3. QED BY <1>2, <2>1, <2>2, <1>l
  <1>3. QED BY <1>1, <1>2

\* The kexts named to a loop.
LEMMA Named ==
    ASSUME NEW names, names \in Batches(Kexts)
    PROVE  /\ Len(names) \in Nat
           /\ \A i \in 1 .. Len(names) : names[i] \in Kexts
  <1>1. PICK n \in 0 .. MaxBatch : names \in [1 .. n -> Kexts]
    BY DEF Batches
  <1>2. n \in Nat
    BY <1>1, KextAssumption
  <1>3. names \in Seq(Kexts) /\ Len(names) = n
    BY <1>1, <1>2, SeqDef, LenProperties
  <1>4. QED BY <1>1, <1>2, <1>3

LEMMA NamedSubset ==
    ASSUME NEW S, S \subseteq Kexts, NEW names \in Batches(S)
    PROVE  names \in Batches(Kexts)
  <1>1. PICK n \in 0 .. MaxBatch : names \in [1 .. n -> S]
    BY DEF Batches
  <1>2. names \in [1 .. n -> Kexts]
    BY <1>1
  <1>3. QED BY <1>2 DEF Batches

LEMMA EmptyBatch == <<>> \in Batches(Kexts) /\ Len(<<>>) = 0 /\ Calls(<<>>)
  <1>1. 0 \in 0 .. MaxBatch
    BY KextAssumption
  <1>2. <<>> \in [1 .. 0 -> Kexts]
    OBVIOUS
  <1>3. <<>> \in Batches(Kexts)
    BY <1>1, <1>2 DEF Batches
  <1>4. QED BY <1>3 DEF Calls

\* A step of check_kext adds at most one kext, for which a call is then running,
\* and ends no call.
Grows ==
    /\ checked \subseteq checked'
    /\ \E k \in Kexts : /\ checked' \subseteq checked \cup {k}
                        /\ checked' # checked => (allow \/ Supported(k)) /\ Running(k)'
    /\ \A k \in Kexts : Running(k) => Running(k)'

LEMMA NextRequirementGrows ==
    ASSUME KextTypeOK, NextRequirement
    PROVE  checked' \in SUBSET Kexts /\ Calls(stack') /\ Grows
  <1> DEFINE needed == Requires[Top.kext][Top.next]
             below  == [stack EXCEPT ![Len(stack)] = [Top EXCEPT !.next = @ + 1]]
  <1>1. /\ Calls(stack) /\ checked \in SUBSET Kexts
        /\ stack # <<>> /\ Top.next <= Len(Requires[Top.kext])
    BY DEF KextTypeOK, NextRequirement
  <1>2. needed \in Kexts /\ Len(stack) \in Nat \ {0} /\ Top.kext \in Kexts
    BY <1>1, TopCall
  <1>3. /\ Calls(below) /\ Len(below) = Len(stack)
        /\ \A i \in 1 .. Len(stack) : below[i].kext = stack[i].kext
    BY <1>1, AdvanceCall
  <1>4. IF needed = FirstKext THEN stack' = below /\ UNCHANGED checked ELSE Check(needed, below)
    BY DEF NextRequirement
  <1> HIDE DEF needed, below
  <1>5. CASE needed = FirstKext
    BY <1>1, <1>2, <1>3, <1>4, <1>5 DEF Grows, Running
  <1>6. CASE needed # FirstKext
    <2>1. /\ checked' \in SUBSET Kexts /\ Calls(stack')
          /\ checked \subseteq checked' /\ checked' \subseteq checked \cup {needed}
          /\ Len(stack') \in Nat /\ Len(below) \in Nat /\ Len(below) <= Len(stack')
          /\ \A i \in 1 .. Len(below) : stack'[i] = below[i]
          /\ checked' # checked => /\ allow \/ Supported(needed)
                                   /\ \E i \in 1 .. Len(stack') : stack'[i].kext = needed
      BY <1>1, <1>2, <1>3, <1>4, <1>6, CheckCall
    <2>2. ASSUME NEW k \in Kexts, Running(k)
          PROVE  Running(k)'
      <3>1. PICK i \in 1 .. Len(stack) : stack[i].kext = k
        BY <2>2 DEF Running
      <3>2. i \in 1 .. Len(stack') /\ stack'[i].kext = k
        BY <3>1, <2>1, <1>3, <1>2
      <3>3. QED BY <3>2 DEF Running
    <2>3. QED BY <2>1, <2>2, <1>2 DEF Grows, Running
  <1>7. QED BY <1>5, <1>6

LEMMA NextNamedGrows ==
    ASSUME KextTypeOK, NextNamed
    PROVE  /\ checked' \in SUBSET Kexts /\ Calls(stack')
           /\ Grows \/ \E k \in checked \ Required : Uncheck(k)
  <1> DEFINE k == batch[position]
  <1>1. /\ Calls(stack) /\ checked \in SUBSET Kexts /\ stack = <<>>
        /\ batch \in Batches(Kexts) /\ position \in 1 .. Len(batch)
    <2>1. Len(batch) \in Nat
      BY Named DEF KextTypeOK
    <2>2. QED BY <2>1 DEF KextTypeOK, NextNamed
  <1>2. k \in Kexts
    BY <1>1, Named
  <1>3. (Uncheck(k) /\ k \in checked \ Required) \/ Check(k, stack)
    BY DEF NextNamed
  <1> HIDE DEF k
  <1>4. CASE Uncheck(k) /\ k \in checked \ Required
    BY <1>1, <1>4 DEF Uncheck
  <1>5. CASE Check(k, stack)
    <2>1. /\ checked' \in SUBSET Kexts /\ Calls(stack')
          /\ checked \subseteq checked' /\ checked' \subseteq checked \cup {k}
          /\ checked' # checked => /\ allow \/ Supported(k)
                                   /\ \E i \in 1 .. Len(stack') : stack'[i].kext = k
      BY <1>1, <1>2, <1>5, CheckCall
    <2>2. \A o \in Kexts : ~Running(o)
      BY <1>1, EmptyBatch DEF Running
    <2>3. QED BY <2>1, <2>2, <1>2 DEF Grows, Running
  <1>6. QED BY <1>3, <1>4, <1>5

LEMMA FinishCheckShrinks ==
    ASSUME KextTypeOK, FinishCheck
    PROVE  /\ checked' \in SUBSET Kexts /\ Calls(stack')
           /\ Top.kext \in Kexts /\ checked' = checked \ Rivals(Top.kext)
           /\ \A k \in Kexts : Running(k) => k = Top.kext \/ Running(k)'
  <1>1. /\ Calls(stack) /\ checked \in SUBSET Kexts /\ stack # <<>>
        /\ checked' = checked \ Rivals(Top.kext)
        /\ stack' = SubSeq(stack, 1, Len(stack) - 1)
    BY DEF KextTypeOK, FinishCheck
  <1>2. /\ Calls(stack') /\ Len(stack') = Len(stack) - 1
        /\ \A i \in 1 .. Len(stack') : stack'[i] = stack[i]
        /\ Len(stack) \in Nat \ {0} /\ Top.kext \in Kexts
    <2>1. Len(stack) \in Nat \ {0} /\ Top.kext \in Kexts
      BY <1>1, TopCall
    <2>2. QED BY <1>1, <2>1, PopCall
  <1>3. ASSUME NEW k \in Kexts, Running(k), k # Top.kext
        PROVE  Running(k)'
    <2>1. PICK i \in 1 .. Len(stack) : stack[i].kext = k
      BY <1>3 DEF Running
    <2>2. i # Len(stack)
      BY <2>1, <1>3 DEF Top
    <2>3. i \in 1 .. Len(stack') /\ stack'[i].kext = k
      BY <2>1, <2>2, <1>2
    <2>4. QED BY <2>3 DEF Running
  <1>4. QED BY <1>1, <1>2, <1>3

-----------------------------------------------------------------------------
(* Type correctness.                                                       *)

LEMMA StartLoopType ==
    ASSUME NEW names \in Batches(Kexts), NEW loop \in Loops, StartLoop(names, loop)
    PROVE  /\ batch' \in Batches(Kexts)
           /\ position' \in 1 .. Len(batch') + 1
           /\ mode' \in Modes
  <1>1. Len(names) \in Nat
    BY Named
  <1>2. QED BY <1>1 DEF StartLoop, Modes

LEMMA AnswersType == ASSUME NEW names, NEW t PROVE Answers(names, t) \subseteq BOOLEAN
  BY DEF Answers

LEMMA KextTypeStep ==
    ASSUME KextTypeOK, [Next]_vars
    PROVE  KextTypeOK'
  <1>m. /\ {"required", "smbios", "toggling"} \subseteq Loops
        /\ {"start", "main", "menu"} \subseteq Modes
    BY DEF Loops, Modes
  <1>r. Required \subseteq Kexts /\ HardwareKexts \subseteq Kexts /\ SmbiosKexts \subseteq Kexts
        /\ PatchKext \in Kexts
    BY KextAssumption
  <1>1. ASSUME NEW names \in Batches(HardwareKexts), NEW t \in Targets, SelectRequired(names, t)
        PROVE  KextTypeOK'
    <2>1. names \in Batches(Kexts)
      BY <1>r, NamedSubset
    <2>2. /\ batch' \in Batches(Kexts) /\ position' \in 1 .. Len(batch') + 1 /\ mode' \in Modes
      BY <1>1, <2>1, <1>m, StartLoopType DEF SelectRequired
    <2>3. QED BY <1>1, <1>r, <2>2, AnswersType DEF SelectRequired, KextTypeOK
  <1>2. ASSUME NEW names \in Batches(SmbiosKexts), SmbiosOptions(names)
        PROVE  KextTypeOK'
    <2>1. names \in Batches(Kexts)
      BY <1>r, NamedSubset
    <2>2. /\ batch' \in Batches(Kexts) /\ position' \in 1 .. Len(batch') + 1 /\ mode' \in Modes
      BY <1>2, <2>1, <1>m, StartLoopType DEF SmbiosOptions
    <2>3. QED BY <1>2, <2>2 DEF SmbiosOptions, KextTypeOK
  <1>3. ASSUME NEW names \in Batches(Kexts), Pick(names)
        PROVE  KextTypeOK'
    <2>1. /\ batch' \in Batches(Kexts) /\ position' \in 1 .. Len(batch') + 1 /\ mode' \in Modes
      BY <1>3, <1>m, StartLoopType DEF Pick
    <2>2. allow' \in BOOLEAN /\ forced' \in BOOLEAN
      BY <1>3, AnswersType DEF Pick, KextTypeOK
    <2>3. QED BY <1>3, <2>1, <2>2 DEF Pick, KextTypeOK
  <1>4. CASE OpenMenu \/ LeaveMenu \/ PickOutOfRange \/ OptionFails
    BY <1>4, <1>m DEF OpenMenu, LeaveMenu, PickOutOfRange, OptionFails, Go, KextTypeOK
  <1>5. ASSUME NEW applied \in BOOLEAN, Build(applied)
        PROVE  KextTypeOK'
    BY <1>5, <1>r DEF Build, loopVars, KextTypeOK
  <1>6. CASE NextRequirement
    BY <1>6, NextRequirementGrows DEF NextRequirement, loopVars, KextTypeOK
  <1>7. CASE FinishCheck
    BY <1>7, FinishCheckShrinks DEF FinishCheck, loopVars, KextTypeOK
  <1>8. CASE NextNamed
    <2>1. Len(batch) \in Nat
      BY Named DEF KextTypeOK
    <2>2. position' \in 1 .. Len(batch) + 1
      BY <1>8, <2>1 DEF NextNamed, KextTypeOK
    <2>3. QED BY <1>8, <2>2, NextNamedGrows DEF NextNamed, KextTypeOK
  <1>9. CASE Return("smbios", "main") \/ Return("toggling", "menu")
    BY <1>9, <1>m, EmptyBatch DEF Return, KextTypeOK
  <1>10. CASE UNCHANGED vars
    BY <1>10 DEF vars, loopVars, KextTypeOK
  <1>11. QED
    BY <1>1, <1>2, <1>3, <1>4, <1>5, <1>6, <1>7, <1>8, <1>9, <1>10 DEF Next, User, Program

LEMMA InitKextType == Init => KextTypeOK
  <1>1. "start" \in Modes /\ Required \in SUBSET Kexts
    BY KextAssumption DEF Modes
  <1>2. 1 \in 1 .. 0 + 1
    OBVIOUS
  <1>3. ASSUME Init
        PROVE  KextTypeOK
    <2>1. batch \in Batches(Kexts) /\ Len(batch) = 0 /\ Calls(stack)
      BY <1>3, EmptyBatch DEF Init
    <2>2. position \in 1 .. Len(batch) + 1
      BY <1>2, <1>3, <2>1 DEF Init
    <2>3. QED BY <1>1, <1>3, <2>1, <2>2 DEF Init, KextTypeOK
  <1>4. QED BY <1>3

\* No call of check_kext ever looks past the requirements of its kext, and no
\* loop past the kexts named to it (kext_maestro.py:80-96, 431-432, 711-717).
THEOREM KextTypeCorrect == Spec => []KextTypeOK
  BY InitKextType, KextTypeStep, PTL DEF Spec

-----------------------------------------------------------------------------
(* What is checked.                                                        *)

\* allow_unsupported_kexts is true only after the user agreed to it.
SelectionInv ==
    /\ KextTypeOK
    /\ OneOfEachGroup
    /\ RequiredStayChecked
    /\ UnsupportedAreForced
    /\ allow => forced

\* Rivals are of one group, and rivals of each other.
LEMMA RivalsAreMutual ==
    ASSUME NEW k \in Kexts, NEW o \in Kexts, o \in Rivals(k)
    PROVE  k \in Rivals(o) /\ Group[k] # NoGroup /\ Group[o] # NoGroup
  BY DEF Rivals

\* A step that grows the selection by one call keeps the invariant.
LEMMA GrowsKeeps ==
    ASSUME SelectionInv, Grows, KextTypeOK', UNCHANGED <<mode, allow, target, forced>>
    PROVE  SelectionInv'
  <1>1. PICK k \in Kexts : /\ checked' \subseteq checked \cup {k}
                           /\ checked' # checked => (allow \/ Supported(k)) /\ Running(k)'
    BY DEF Grows
  <1>2. checked \subseteq checked' /\ \A o \in Kexts : Running(o) => Running(o)'
    BY DEF Grows
  <1>3. OneOfEachGroup'
    <2> SUFFICES ASSUME NEW x \in checked', NEW y \in checked', y \in Rivals(x)
                 PROVE  Running(x)' \/ Running(y)'
      BY DEF OneOfEachGroup, Rivals
    <2>1. x \in Kexts /\ y \in Kexts
      BY DEF KextTypeOK
    <2>2. CASE x \in checked /\ y \in checked
      BY <2>1, <2>2, <1>2 DEF SelectionInv, OneOfEachGroup
    <2>3. CASE ~(x \in checked /\ y \in checked)
      BY <2>3, <1>1
    <2>4. QED BY <2>2, <2>3
  <1>4. RequiredStayChecked'
    BY <1>2 DEF SelectionInv, RequiredStayChecked
  <1>5. UnsupportedAreForced'
    BY <1>1 DEF SelectionInv, UnsupportedAreForced, Supported
  <1>6. QED BY <1>3, <1>4, <1>5 DEF SelectionInv

\* A step that only unchecks kexts, none of them required, and ends no call keeps
\* it as well.
LEMMA ShrinksKeeps ==
    ASSUME SelectionInv, checked' \subseteq checked, Required \subseteq checked', KextTypeOK',
           UNCHANGED <<stack, mode, allow, target, forced>>
    PROVE  SelectionInv'
  <1>1. OneOfEachGroup'
    BY DEF SelectionInv, OneOfEachGroup, Rivals, Running
  <1>2. QED BY <1>1 DEF SelectionInv, RequiredStayChecked, UnsupportedAreForced

\* So does a call that returns: it leaves no rival of its kext checked.
LEMMA FinishKeeps ==
    ASSUME SelectionInv, FinishCheck, KextTypeOK'
    PROVE  SelectionInv'
  <1> DEFINE k == Top.kext
  <1>1. /\ k \in Kexts /\ checked' = checked \ Rivals(k)
        /\ \A o \in Kexts : Running(o) => o = k \/ Running(o)'
    BY FinishCheckShrinks DEF SelectionInv
  <1>2. UNCHANGED <<mode, allow, target, forced>>
    BY DEF FinishCheck, loopVars
  <1> HIDE DEF k
  <1>3. OneOfEachGroup'
    <2> SUFFICES ASSUME NEW x \in checked', NEW y \in checked', y \in Rivals(x)
                 PROVE  Running(x)' \/ Running(y)'
      BY DEF OneOfEachGroup, Rivals
    <2>1. x \in Kexts /\ y \in Kexts /\ x \in checked /\ y \in checked
      BY <1>1 DEF KextTypeOK
    <2>2. x # k /\ y # k
      BY <1>1, <2>1, RivalsAreMutual
    <2>3. Running(x) \/ Running(y)
      BY <2>1 DEF SelectionInv, OneOfEachGroup
    <2>4. QED BY <2>1, <2>2, <2>3, <1>1
  <1>4. RequiredStayChecked'
    <2>1. \A o \in Required : o \notin Rivals(k)
      BY KextAssumption DEF Rivals
    <2>2. QED BY <1>1, <2>1 DEF SelectionInv, RequiredStayChecked
  <1>5. QED BY <1>1, <1>2, <1>3, <1>4 DEF SelectionInv, UnsupportedAreForced

LEMMA SelectionInvStep ==
    ASSUME SelectionInv, [Next]_vars
    PROVE  SelectionInv'
  <1>t. KextTypeOK'
    BY KextTypeStep DEF SelectionInv
  <1>1. ASSUME NEW names \in Batches(HardwareKexts), NEW t \in Targets, SelectRequired(names, t)
        PROVE  SelectionInv'
    <2>1. checked' = Required /\ Required \subseteq Supports[t] /\ target' = t
      BY <1>1, KextAssumption DEF SelectRequired
    <2>2. \A k \in Required : Rivals(k) = {}
      BY KextAssumption DEF Rivals
    <2>3. OneOfEachGroup'
      BY <2>1, <2>2 DEF OneOfEachGroup, Rivals
    <2>4. allow' => forced'
      BY <1>1 DEF SelectRequired
    <2>5. QED
      BY <1>t, <2>1, <2>3, <2>4 DEF SelectionInv, RequiredStayChecked, UnsupportedAreForced
  <1>2. ASSUME NEW names \in Batches(SmbiosKexts), SmbiosOptions(names)
        PROVE  SelectionInv'
    <2>1. UNCHANGED <<checked, stack, target, forced>> /\ allow' = FALSE /\ mode # "start"
      BY <1>2 DEF SmbiosOptions
    <2>2. OneOfEachGroup'
      BY <2>1 DEF SelectionInv, OneOfEachGroup, Rivals, Running
    <2>3. QED
      BY <1>t, <2>1, <2>2 DEF SelectionInv, RequiredStayChecked, UnsupportedAreForced
  <1>3. ASSUME NEW names \in Batches(Kexts), Pick(names)
        PROVE  SelectionInv'
    <2>1. /\ UNCHANGED <<checked, stack, target>> /\ forced' = (forced \/ allow')
          /\ mode # "start" /\ allow' \in BOOLEAN
      BY <1>3, AnswersType DEF Pick
    <2>2. OneOfEachGroup'
      BY <2>1 DEF SelectionInv, OneOfEachGroup, Rivals, Running
    <2>3. (checked \subseteq Supports[target] \/ forced) /\ Required \subseteq checked
      BY <2>1 DEF SelectionInv, UnsupportedAreForced, RequiredStayChecked
    <2>4. UnsupportedAreForced' /\ RequiredStayChecked' /\ (allow => forced)'
      BY <2>1, <2>3 DEF UnsupportedAreForced, RequiredStayChecked
    <2>5. QED BY <1>t, <2>2, <2>4 DEF SelectionInv
  <1>4. CASE OpenMenu \/ LeaveMenu \/ PickOutOfRange \/ OptionFails
    <2>1. UNCHANGED <<checked, stack, allow, target, forced>> /\ (mode' # "start" => mode # "start")
      BY <1>4 DEF OpenMenu, LeaveMenu, PickOutOfRange, OptionFails, Go
    <2>2. OneOfEachGroup'
      BY <2>1 DEF SelectionInv, OneOfEachGroup, Rivals, Running
    <2>3. QED
      BY <1>t, <2>1, <2>2 DEF SelectionInv, RequiredStayChecked, UnsupportedAreForced
  <1>5. ASSUME NEW applied \in BOOLEAN, Build(applied)
        PROVE  SelectionInv'
    <2>1. /\ checked' = IF applied THEN checked \cup {PatchKext} ELSE checked \ {PatchKext}
          /\ UNCHANGED <<stack, mode, allow, target, forced>>
      BY <1>5 DEF Build, loopVars
    <2>2. Group[PatchKext] = NoGroup /\ PatchKext \notin Required /\ PatchKext \in Kexts
      BY KextAssumption
    <2>3. OneOfEachGroup'
      <3> SUFFICES ASSUME NEW x \in checked', NEW y \in checked', y \in Rivals(x)
                   PROVE  Running(x)' \/ Running(y)'
        BY DEF OneOfEachGroup, Rivals
      <3>1. x \in Kexts /\ y \in Kexts
        BY <1>t DEF KextTypeOK
      <3>2. x # PatchKext /\ y # PatchKext
        BY <2>2, <3>1, RivalsAreMutual
      <3>3. Running(x) \/ Running(y)
        BY <2>1, <3>2 DEF SelectionInv, OneOfEachGroup
      <3>4. QED BY <2>1, <3>3 DEF Running
    <2>4. RequiredStayChecked'
      BY <2>1, <2>2 DEF SelectionInv, RequiredStayChecked
    <2>5. PatchKext \in Supports[target]
      BY KextAssumption DEF SelectionInv, KextTypeOK
    <2>6. UnsupportedAreForced'
      BY <2>1, <2>5 DEF SelectionInv, UnsupportedAreForced
    <2>7. QED BY <1>t, <2>1, <2>3, <2>4, <2>6 DEF SelectionInv
  <1>6. CASE NextRequirement
    BY <1>t, <1>6, NextRequirementGrows, GrowsKeeps DEF SelectionInv, NextRequirement, loopVars
  <1>7. CASE FinishCheck
    BY <1>t, <1>7, FinishKeeps
  <1>8. CASE NextNamed
    <2>1. UNCHANGED <<mode, allow, target, forced>>
      BY <1>8 DEF NextNamed
    <2>2. CASE Grows
      BY <1>t, <2>1, <2>2, GrowsKeeps
    <2>3. ASSUME NEW k \in checked \ Required, Uncheck(k)
          PROVE  SelectionInv'
      BY <1>t, <2>1, <2>3, ShrinksKeeps DEF Uncheck, SelectionInv, RequiredStayChecked
    <2>4. QED BY <1>8, <2>2, <2>3, NextNamedGrows DEF SelectionInv
  <1>9. CASE Return("smbios", "main") \/ Return("toggling", "menu")
    <2>1. UNCHANGED <<checked, stack, allow, target, forced>> /\ mode # "start"
      BY <1>9 DEF Return
    <2>2. OneOfEachGroup'
      BY <2>1 DEF SelectionInv, OneOfEachGroup, Rivals, Running
    <2>3. QED
      BY <1>t, <2>1, <2>2 DEF SelectionInv, RequiredStayChecked, UnsupportedAreForced
  <1>10. CASE UNCHANGED vars
    <2>1. OneOfEachGroup'
      BY <1>10 DEF vars, loopVars, SelectionInv, OneOfEachGroup, Rivals, Running
    <2>2. QED
      BY <1>10, <1>t, <2>1
      DEF vars, loopVars, SelectionInv, RequiredStayChecked, UnsupportedAreForced
  <1>11. QED
    BY <1>1, <1>2, <1>3, <1>4, <1>5, <1>6, <1>7, <1>8, <1>9, <1>10 DEF Next, User, Program

LEMMA InitSelectionInv == Init => SelectionInv
  <1> SUFFICES ASSUME Init
               PROVE  SelectionInv
    OBVIOUS
  <1>1. \A k \in Required : Rivals(k) = {}
    BY KextAssumption DEF Rivals
  <1>2. QED
    BY <1>1, InitKextType
    DEF Init, SelectionInv, OneOfEachGroup, RequiredStayChecked, UnsupportedAreForced

LEMMA SelectionInvHolds == Spec => []SelectionInv
  BY InitSelectionInv, SelectionInvStep, PTL DEF Spec

\* At any moment two checked kexts of one conflict group mean that a call for one
\* of them is running; at rest there are none (kext_maestro.py:80-96).
THEOREM OneOfEachGroupHolds == Spec => []OneOfEachGroup
  <1>1. SelectionInv => OneOfEachGroup
    BY DEF SelectionInv
  <1>2. QED BY <1>1, SelectionInvHolds, PTL

\* A required kext is checked at every moment (kext_maestro.py:619-625).
THEOREM RequiredStayCheckedHolds == Spec => []RequiredStayChecked
  <1>1. SelectionInv => RequiredStayChecked
    BY DEF SelectionInv
  <1>2. QED BY <1>1, SelectionInvHolds, PTL

\* Whatever a kext requires, nothing the macOS version does not support is checked
\* unless the user agreed to force kexts (kext_maestro.py:627-666, 709-717).
THEOREM UnsupportedAreForcedHolds == Spec => []UnsupportedAreForced
  <1>1. SelectionInv => UnsupportedAreForced
    BY DEF SelectionInv
  <1>2. QED BY <1>1, SelectionInvHolds, PTL

-----------------------------------------------------------------------------
(* The automatic selection is closed, for every dataset that satisfies the   *)
(* two assumptions.                                                          *)
(*                                                                           *)
(* A requirement may be missing while the call that is to check it runs,     *)
(* and a call may uncheck what others have checked.  What holds all along    *)
(* is that every kext with a running call is checked, and that each          *)
(* requirement of a checked kext is met, or excused, or still to be looked   *)
(* at by a running call for that kext.                                       *)


\* A requirement that is nothing to complain about.
Met(o) == o \in checked \/ ~Supported(o) \/ Rivals(o) \cap checked # {}

\* A running call for k has not come to the i-th requirement yet.
Pending(k, i) == \E c \in 1 .. Len(stack) : stack[c].kext = k /\ stack[c].next <= i

\* A call is for a kext that the calls below it have brought in, and stays checked.
CallsAreChecked ==
    \A i \in 1 .. Len(stack) :
        /\ stack[i].kext \in checked
        /\ \A j \in 1 .. i : stack[i].kext \in Reached(stack[j].kext)

RequirementsMet ==
    \A k \in checked : \A i \in 1 .. Len(Requires[k]) : Met(Requires[k][i]) \/ Pending(k, i)

\* Only the loops make calls, and the menu's loop comes after an edit.
CallsInLoops == (mode \notin Loops => LoopDone) /\ (mode = "toggling" => edited)

ClosureInv ==
    /\ SelectionInv
    /\ CallsInLoops
    /\ CallsAreChecked
    /\ ~edited => RequirementsMet

-----------------------------------------------------------------------------
(* What a kext brings with it, and its rivals.                             *)

LEMMA ReachesItself ==
    ASSUME NEW k \in Kexts
    PROVE  k \in Reached(k)
  BY DEF Reached

LEMMA ReachesRequirements ==
    ASSUME NEW k \in Kexts, NEW o \in Reached(k), NEW i \in 1 .. Len(Requires[o])
    PROVE  Requires[o][i] \in Reached(k)
  <1>1. o \in Kexts /\ Requires[o][i] \in Kexts
    <2>1. o \in Kexts
      BY DEF Reached
    <2>2. Requires[o] \in Seq(Kexts)
      BY <2>1, KextAssumption
    <2>3. QED BY <2>1, <2>2, ElementOfSeq
  <1>2. ASSUME NEW names \in SUBSET Kexts, k \in names, Closed(names)
        PROVE  Requires[o][i] \in names
    <2>1. o \in names
      BY <1>2 DEF Reached
    <2>2. QED BY <1>2, <2>1 DEF Closed
  <1>3. QED BY <1>1, <1>2 DEF Reached

\* No call unchecks the kext of a call it was made from.
LEMMA NoRivalReached ==
    ASSUME NEW k \in Kexts, NEW o \in Reached(k)
    PROVE  k \notin Rivals(o)
  <1>1. o \in Kexts /\ o \notin Rivals(k)
    BY RequirementAssumption DEF Reached
  <1>2. QED BY <1>1, RivalsAreMutual

\* If a rival of r goes because t stays, then t is r itself or a rival of r.
LEMMA RivalsOfRival ==
    ASSUME NEW r \in Kexts, NEW q \in Rivals(r), NEW t \in Kexts, q \in Rivals(t)
    PROVE  t = r \/ t \in Rivals(r)
  BY DEF Rivals

-----------------------------------------------------------------------------
(* One call of check_kext.                                                 *)

\* The two ways of a call: it returns at once, or checks its kext and goes on.
LEMMA CheckCases ==
    ASSUME NEW k \in Kexts, NEW below, Calls(below), Check(k, below)
    PROVE  \/ /\ stack' = below /\ checked' = checked
              /\ k \in checked \/ ~Supported(k)
           \/ /\ Calls(stack') /\ Len(below) \in Nat /\ Len(stack') = Len(below) + 1
              /\ \A i \in 1 .. Len(below) : stack'[i] = below[i]
              /\ stack'[Len(below) + 1] = [kext |-> k, next |-> 1]
              /\ checked' = checked \cup {k}
  <1>1. CASE k \in checked \/ ~(allow \/ Supported(k))
    BY <1>1 DEF Check
  <1>2. CASE ~(k \in checked \/ ~(allow \/ Supported(k)))
    <2>1. stack' = Append(below, [kext |-> k, next |-> 1]) /\ checked' = checked \cup {k}
      BY <1>2 DEF Check
    <2>2. [kext |-> k, next |-> 1] \in Frames
      BY DEF Frames
    <2>3. Len(below) \in Nat /\ stack'[Len(below) + 1] = [kext |-> k, next |-> 1]
      BY <2>1, <2>2, AppendProperties DEF Calls
    <2>4. QED BY <2>1, <2>3, PushCall
  <1>3. QED BY <1>1, <1>2

LEMMA CheckKeepsCalls ==
    ASSUME NEW k \in Kexts, NEW below, Calls(below), Check(k, below),
           \A i \in 1 .. Len(below) :
               /\ below[i].kext \in checked
               /\ \A j \in 1 .. i : below[i].kext \in Reached(below[j].kext)
               /\ k \in Reached(below[i].kext)
    PROVE  CallsAreChecked'
  <1>1. CASE stack' = below /\ checked' = checked
    BY <1>1 DEF CallsAreChecked
  <1>2. CASE /\ Len(below) \in Nat /\ Len(stack') = Len(below) + 1
             /\ \A i \in 1 .. Len(below) : stack'[i] = below[i]
             /\ stack'[Len(below) + 1] = [kext |-> k, next |-> 1]
             /\ checked' = checked \cup {k}
    <2> SUFFICES ASSUME NEW i \in 1 .. Len(stack')
                 PROVE  /\ stack'[i].kext \in checked'
                        /\ \A j \in 1 .. i : stack'[i].kext \in Reached(stack'[j].kext)
      BY DEF CallsAreChecked
    <2>1. CASE i \in 1 .. Len(below)
      <3>1. \A j \in 1 .. i : j \in 1 .. Len(below) /\ stack'[j] = below[j]
        BY <1>2, <2>1
      <3>2. QED BY <1>2, <2>1, <3>1
    <2>2. CASE i = Len(below) + 1
      <3>1. stack'[i].kext = k /\ k \in Reached(k) /\ k \in checked'
        BY <1>2, <2>2, ReachesItself
      <3>2. ASSUME NEW j \in 1 .. i
            PROVE  k \in Reached(stack'[j].kext)
        <4>1. CASE j \in 1 .. Len(below)
          BY <1>2, <4>1
        <4>2. CASE j = i
          BY <3>1, <4>2
        <4>3. QED BY <1>2, <2>2, <4>1, <4>2
      <3>3. QED BY <3>1, <3>2
    <2>3. QED BY <1>2, <2>1, <2>2
  <1>3. QED BY <1>1, <1>2, CheckCases

LEMMA MetStays ==
    ASSUME checked \subseteq checked', UNCHANGED target, NEW o, Met(o)
    PROVE  Met(o)'
  BY DEF Met, Supported

\* A call leaves met what was met, and settles the requirement it is made for.
LEMMA CheckKeepsMet ==
    ASSUME KextTypeOK, NEW k \in Kexts, NEW below, Calls(below), Check(k, below), UNCHANGED target,
           \A x \in checked : \A i \in 1 .. Len(Requires[x]) :
               \/ Met(Requires[x][i])
               \/ \E c \in 1 .. Len(below) : below[c].kext = x /\ below[c].next <= i
               \/ Requires[x][i] = k
    PROVE  RequirementsMet'
  <1> SUFFICES ASSUME NEW x \in checked', NEW i \in 1 .. Len(Requires[x])
               PROVE  Met(Requires[x][i])' \/ Pending(x, i)'
    BY DEF RequirementsMet
  <1>1. CASE stack' = below /\ checked' = checked /\ (k \in checked \/ ~Supported(k))
    <2>1. \A o : Met(o) => Met(o)'
      BY <1>1 DEF Met, Supported
    <2>2. Met(k)'
      BY <1>1 DEF Met, Supported
    <2>3. QED BY <1>1, <2>1, <2>2 DEF Pending
  <1>2. CASE /\ Len(below) \in Nat /\ Len(stack') = Len(below) + 1
             /\ \A c \in 1 .. Len(below) : stack'[c] = below[c]
             /\ stack'[Len(below) + 1] = [kext |-> k, next |-> 1]
             /\ checked' = checked \cup {k}
    <2>1. \A o : Met(o) => Met(o)'
      BY <1>2 DEF Met, Supported
    <2>2. Met(k)'
      BY <1>2 DEF Met
    <2>3. CASE x = k
      <3>1. i >= 1
        OBVIOUS
      <3>2. Len(below) + 1 \in 1 .. Len(stack') /\ stack'[Len(below) + 1].kext = k
            /\ stack'[Len(below) + 1].next <= i
        BY <1>2, <3>1
      <3>3. QED BY <2>3, <3>2 DEF Pending
    <2>4. CASE x # k
      <3>1. x \in checked
        BY <1>2, <2>4
      <3>2. ASSUME NEW c \in 1 .. Len(below), below[c].kext = x, below[c].next <= i
            PROVE  Pending(x, i)'
        <4>1. c \in 1 .. Len(stack') /\ stack'[c] = below[c]
          BY <1>2, <3>2
        <4>2. QED BY <4>1, <3>2 DEF Pending
      <3>3. QED BY <2>1, <2>2, <3>1, <3>2
    <2>5. QED BY <2>3, <2>4
  <1>3. QED BY <1>1, <1>2, CheckCases

-----------------------------------------------------------------------------
(* The steps of the calls.                                                 *)

\* The innermost call moves on: the calls stay, and only its next requirement stops
\* being pending.
LEMMA NextRequirementCalls ==
    ASSUME ClosureInv, NextRequirement,
           NEW below, below = [stack EXCEPT ![Len(stack)] = [Top EXCEPT !.next = @ + 1]]
    PROVE  /\ Calls(below) /\ Len(below) = Len(stack) /\ Len(stack) \in Nat \ {0}
           /\ \A i \in 1 .. Len(stack) : below[i].kext = stack[i].kext
           /\ \A i \in 1 .. Len(stack) - 1 : below[i] = stack[i]
           /\ below[Len(stack)].next = Top.next + 1 /\ Top.next \in Nat
           /\ Top.kext \in Kexts /\ Top.next \in 1 .. Len(Requires[Top.kext])
           /\ Requires[Top.kext][Top.next] \in Kexts
  <1>1. Calls(stack) /\ stack # <<>> /\ Top.next <= Len(Requires[Top.kext])
    BY DEF ClosureInv, SelectionInv, KextTypeOK, NextRequirement
  <1>2. /\ Len(stack) \in Nat \ {0} /\ Top \in Frames /\ Top.kext \in Kexts
        /\ Top.next \in 1 .. Len(Requires[Top.kext]) + 1
        /\ Requires[Top.kext][Top.next] \in Kexts
    BY <1>1, TopCall
  <1>3. /\ Calls(below) /\ Len(below) = Len(stack)
        /\ \A i \in 1 .. Len(stack) : below[i].kext = stack[i].kext
    BY <1>1, AdvanceCall
  <1>4. Len(Requires[Top.kext]) \in Nat
    BY <1>2, KextAssumption
  <1>5. stack \in Seq(Frames) /\ [Top EXCEPT !.next = @ + 1] \in Frames
    <2>1. stack \in Seq(Frames)
      BY <1>1 DEF Calls
    <2>2. [Top EXCEPT !.next = @ + 1] \in Frames
      BY <1>2, <1>4 DEF Frames
    <2>3. QED BY <2>1, <2>2
  <1>6. \A i \in 1 .. Len(stack) :
           below[i] = IF i = Len(stack) THEN [Top EXCEPT !.next = @ + 1] ELSE stack[i]
    BY <1>2, <1>5, ExceptSeq
  <1>7. [Top EXCEPT !.next = @ + 1].next = Top.next + 1
    BY <1>2 DEF Frames
  <1>8. QED BY <1>1, <1>2, <1>3, <1>4, <1>6, <1>7

LEMMA NextRequirementKeeps ==
    ASSUME ClosureInv, NextRequirement
    PROVE  CallsAreChecked' /\ (~edited => RequirementsMet')
  <1> DEFINE needed == Requires[Top.kext][Top.next]
             below  == [stack EXCEPT ![Len(stack)] = [Top EXCEPT !.next = @ + 1]]
  <1>1. /\ Calls(below) /\ Len(below) = Len(stack) /\ Len(stack) \in Nat \ {0}
        /\ \A i \in 1 .. Len(stack) : below[i].kext = stack[i].kext
        /\ \A i \in 1 .. Len(stack) - 1 : below[i] = stack[i]
        /\ below[Len(stack)].next = Top.next + 1 /\ Top.next \in Nat
        /\ Top.kext \in Kexts /\ Top.next \in 1 .. Len(Requires[Top.kext])
        /\ needed \in Kexts
    BY NextRequirementCalls
  <1>2. /\ IF needed = FirstKext THEN stack' = below /\ UNCHANGED checked ELSE Check(needed, below)
        /\ UNCHANGED target
    BY DEF NextRequirement, loopVars
  <1>3. CallsAreChecked /\ KextTypeOK /\ Required \subseteq checked
    BY DEF ClosureInv, SelectionInv, RequiredStayChecked
  <1>t. Top = stack[Len(stack)]
    BY DEF Top
  <1> HIDE DEF below
  <1>4. \A i \in 1 .. Len(below) :
           /\ below[i].kext \in checked
           /\ \A j \in 1 .. i : below[i].kext \in Reached(below[j].kext)
           /\ needed \in Reached(below[i].kext)
    <2> SUFFICES ASSUME NEW i \in 1 .. Len(stack)
                 PROVE  /\ below[i].kext \in checked
                        /\ \A j \in 1 .. i : below[i].kext \in Reached(below[j].kext)
                        /\ needed \in Reached(below[i].kext)
      BY <1>1
    <2>1. below[i].kext = stack[i].kext /\ stack[i].kext \in checked
      BY <1>1, <1>3 DEF CallsAreChecked
    <2>2. \A j \in 1 .. i : below[j].kext = stack[j].kext
      BY <1>1
    <2>3. \A j \in 1 .. i : stack[i].kext \in Reached(stack[j].kext)
      BY <1>3 DEF CallsAreChecked
    <2>4. stack[i].kext \in Kexts
      BY <2>1, <1>3 DEF KextTypeOK
    <2>5. Top.kext \in Reached(stack[i].kext)
      <3>1. Len(stack) \in 1 .. Len(stack) /\ i \in 1 .. Len(stack)
        BY <1>1
      <3>2. QED BY <3>1, <1>3, <1>t DEF CallsAreChecked
    <2>6. needed \in Reached(stack[i].kext)
      BY <2>4, <2>5, <1>1, ReachesRequirements
    <2>7. QED BY <2>1, <2>2, <2>3, <2>6
  <1>5. ASSUME ~edited, NEW x \in checked, NEW i \in 1 .. Len(Requires[x])
        PROVE  \/ Met(Requires[x][i])
               \/ \E c \in 1 .. Len(below) : below[c].kext = x /\ below[c].next <= i
               \/ Requires[x][i] = needed
    <2>1. Met(Requires[x][i]) \/ Pending(x, i)
      BY <1>5 DEF ClosureInv, RequirementsMet
    <2>2. ASSUME NEW c \in 1 .. Len(stack), stack[c].kext = x, stack[c].next <= i
          PROVE  \/ below[c].kext = x /\ below[c].next <= i
                 \/ Requires[x][i] = needed
      <3>1. CASE c \in 1 .. Len(stack) - 1
        BY <3>1, <2>2, <1>1
      <3>2. CASE c = Len(stack)
        <4>1. x = Top.kext /\ Top.next <= i
          BY <2>2, <3>2, <1>t
        <4>2. CASE i = Top.next
          BY <4>1, <4>2
        <4>3. CASE i # Top.next
          BY <4>1, <4>3, <2>2, <3>2, <1>1
        <4>4. QED BY <4>2, <4>3
      <3>3. QED BY <3>1, <3>2, <1>1
    <2>3. QED BY <2>1, <2>2, <1>1 DEF Pending
  <1> HIDE DEF needed
  <1>6. CASE needed = FirstKext
    <2>1. stack' = below /\ checked' = checked
      BY <1>2, <1>6
    <2>2. CallsAreChecked'
      BY <2>1, <1>4 DEF CallsAreChecked
    <2>3. Met(FirstKext)
      BY <1>3, KextAssumption DEF Met
    <2>4. \A o : Met(o) => Met(o)'
      BY <2>1, <1>2, MetStays
    <2>5. ASSUME ~edited
          PROVE  RequirementsMet'
      <3>1. \A x \in checked : \A i \in 1 .. Len(Requires[x]) :
               \/ Met(Requires[x][i])
               \/ \E c \in 1 .. Len(below) : below[c].kext = x /\ below[c].next <= i
        BY <2>3, <2>5, <1>5, <1>6
      <3>2. QED BY <2>1, <2>4, <3>1 DEF RequirementsMet, Pending
    <2>6. QED BY <2>2, <2>5
  <1>7. CASE needed # FirstKext
    <2>1. Check(needed, below)
      BY <1>2, <1>7
    <2>2. CallsAreChecked'
      BY <2>1, <1>1, <1>4, CheckKeepsCalls
    <2>3. ASSUME ~edited
          PROVE  RequirementsMet'
      BY <2>1, <2>3, <1>1, <1>2, <1>3, <1>5, CheckKeepsMet
    <2>4. QED BY <2>2, <2>3
  <1>8. QED BY <1>6, <1>7

\* The kext of the call that returns stands in for the rivals it unchecks.
LEMMA MetAfterReturn ==
    ASSUME NEW r \in Kexts, NEW t \in Kexts, t \in checked',
           checked' = checked \ Rivals(t), UNCHANGED target, Met(r)
    PROVE  Met(r)'
  <1>1. CASE r \in checked
    <2>1. CASE r \in Rivals(t)
      BY <2>1, RivalsAreMutual DEF Met
    <2>2. CASE r \notin Rivals(t)
      BY <2>2, <1>1 DEF Met
    <2>3. QED BY <2>1, <2>2
  <1>2. CASE ~Supported(r)
    BY <1>2 DEF Met, Supported
  <1>3. ASSUME NEW q \in Rivals(r) \cap checked
        PROVE  Met(r)'
    <2>1. CASE q \in Rivals(t)
      BY <2>1, RivalsOfRival DEF Met
    <2>2. CASE q \notin Rivals(t)
      BY <2>2 DEF Met
    <2>3. QED BY <2>1, <2>2
  <1>4. QED BY <1>1, <1>2, <1>3 DEF Met

LEMMA FinishCheckKeeps ==
    ASSUME ClosureInv, FinishCheck
    PROVE  CallsAreChecked' /\ (~edited => RequirementsMet')
  <1> DEFINE t == Top.kext
  <1>1. /\ Calls(stack) /\ checked \in SUBSET Kexts /\ stack # <<>>
        /\ Top.next > Len(Requires[Top.kext])
        /\ checked' = checked \ Rivals(t) /\ UNCHANGED target
        /\ stack' = SubSeq(stack, 1, Len(stack) - 1)
    BY DEF ClosureInv, SelectionInv, KextTypeOK, FinishCheck, loopVars
  <1>2. /\ Len(stack) \in Nat \ {0} /\ t \in Kexts /\ Len(stack') = Len(stack) - 1
        /\ \A i \in 1 .. Len(stack') : stack'[i] = stack[i]
    BY <1>1, TopCall, PopCall
  <1>3. /\ t \in checked
        /\ \A i \in 1 .. Len(stack) : t \in Reached(stack[i].kext)
    <2>1. Len(stack) \in 1 .. Len(stack) /\ t = stack[Len(stack)].kext
      BY <1>2 DEF Top
    <2>2. QED BY <2>1 DEF ClosureInv, CallsAreChecked
  <1>4. t \in checked'
    BY <1>1, <1>3 DEF Rivals
  <1>5. CallsAreChecked'
    <2> SUFFICES ASSUME NEW i \in 1 .. Len(stack')
                 PROVE  /\ stack'[i].kext \in checked'
                        /\ \A j \in 1 .. i : stack'[i].kext \in Reached(stack'[j].kext)
      BY DEF CallsAreChecked
    <2>1. i \in 1 .. Len(stack) /\ stack'[i] = stack[i]
      BY <1>2
    <2>2. \A j \in 1 .. i : j \in 1 .. Len(stack') /\ stack'[j] = stack[j]
      BY <1>2
    <2>3. /\ stack[i].kext \in checked
          /\ \A j \in 1 .. i : stack[i].kext \in Reached(stack[j].kext)
      BY <2>1 DEF ClosureInv, CallsAreChecked
    <2>4. stack[i].kext \notin Rivals(t)
      BY <2>1, <2>3, <1>1, <1>3, NoRivalReached
    <2>5. QED BY <2>1, <2>2, <2>3, <2>4, <1>1
  <1>6. ASSUME ~edited, NEW k \in checked', NEW i \in 1 .. Len(Requires[k])
        PROVE  Met(Requires[k][i])' \/ Pending(k, i)'
    <2> DEFINE r == Requires[k][i]
    <2>1. k \in checked /\ r \in Kexts
      <3>1. k \in checked /\ k \in Kexts
        BY <1>1, <1>6
      <3>2. Requires[k] \in Seq(Kexts)
        BY <3>1, KextAssumption
      <3>3. QED BY <3>1, <3>2, ElementOfSeq
    <2>2. Met(r) \/ Pending(k, i)
      BY <1>6, <2>1 DEF ClosureInv, RequirementsMet
    <2>3. CASE Pending(k, i)
      <3>1. PICK c \in 1 .. Len(stack) : stack[c].kext = k /\ stack[c].next <= i
        BY <2>3 DEF Pending
      <3>2. c # Len(stack)
        <4>1. Len(Requires[k]) \in Nat
          BY <2>1, <1>1, KextAssumption
        <4>2. Top.next \in Nat
          BY <1>1, TopCall DEF Frames
        <4>3. QED BY <3>1, <4>1, <4>2, <1>1 DEF Top
      <3>3. c \in 1 .. Len(stack') /\ stack'[c] = stack[c]
        BY <1>2, <3>2
      <3>4. QED BY <3>1, <3>3 DEF Pending
    <2>4. CASE Met(r)
      BY <2>1, <2>4, <1>1, <1>2, <1>4, MetAfterReturn
    <2>5. QED BY <2>2, <2>3, <2>4
  <1>7. QED BY <1>5, <1>6 DEF RequirementsMet

-----------------------------------------------------------------------------
(* The steps of the program and of the user.                               *)

\* A step that makes no call, ends none and changes no selection.
LEMMA QuietKeeps ==
    ASSUME ClosureInv, UNCHANGED <<checked, stack, target>>
    PROVE  CallsAreChecked' /\ (~edited => RequirementsMet')
  <1>1. CallsAreChecked'
    BY DEF ClosureInv, CallsAreChecked
  <1>2. \A o : Met(o) => Met(o)'
    BY MetStays
  <1>3. QED BY <1>1, <1>2 DEF ClosureInv, RequirementsMet, Pending

LEMMA NoCalls ==
    ASSUME stack = <<>>
    PROVE  Len(stack) = 0 /\ CallsAreChecked /\ \A k, i : ~Pending(k, i)
  BY EmptyBatch DEF CallsAreChecked, Pending

LEMMA SelectRequiredKeeps ==
    ASSUME ClosureInv, NEW names, NEW t, SelectRequired(names, t)
    PROVE  CallsAreChecked' /\ RequirementsMet'
  <1>1. stack' = <<>> /\ checked' = Required
    BY DEF ClosureInv, CallsInLoops, Loops, LoopDone, SelectRequired
  <1>2. CallsAreChecked'
    BY <1>1, EmptyBatch DEF CallsAreChecked
  <1>3. \A k \in Required : \A i \in 1 .. Len(Requires[k]) : Requires[k][i] \in Required
    BY KextAssumption
  <1>4. QED BY <1>1, <1>2, <1>3 DEF RequirementsMet, Met

LEMMA BuildKeeps ==
    ASSUME ClosureInv, NEW applied, Build(applied)
    PROVE  CallsAreChecked' /\ (~edited => RequirementsMet')
  <1>1. /\ stack = <<>> /\ stack' = <<>> /\ UNCHANGED target
        /\ checked' = IF applied THEN checked \cup {PatchKext} ELSE checked \ {PatchKext}
        /\ Required \subseteq checked /\ checked \in SUBSET Kexts
    BY DEF Build, loopVars, ClosureInv, CallsInLoops, Loops, LoopDone, SelectionInv,
           RequiredStayChecked, KextTypeOK
  <1>2. CallsAreChecked'
    BY <1>1, EmptyBatch DEF CallsAreChecked
  <1>3. \A k, i : ~Pending(k, i)
    BY <1>1, NoCalls
  <1>4. ASSUME ~edited, NEW k \in checked', NEW i \in 1 .. Len(Requires[k])
        PROVE  Met(Requires[k][i])'
    <2>1. CASE k = PatchKext
      <3>1. Requires[k][i] \in Required /\ Required \subseteq checked'
        BY <2>1, <1>1, KextAssumption
      <3>2. QED BY <3>1 DEF Met
    <2>2. CASE k # PatchKext
      <3> DEFINE r == Requires[k][i]
      <3>1. k \in checked /\ k \in Kexts
        BY <2>2, <1>1
      <3>2. Met(r)
        BY <1>3, <1>4, <3>1 DEF ClosureInv, RequirementsMet
      <3>3. r # PatchKext
        BY <3>1, RequirementAssumption
      <3>4. PatchKext \notin Rivals(r)
        BY KextAssumption DEF Rivals
      <3>5. QED BY <1>1, <3>2, <3>3, <3>4 DEF Met, Supported
    <2>3. QED BY <2>1, <2>2
  <1>5. QED BY <1>2, <1>4 DEF RequirementsMet

LEMMA NextNamedKeeps ==
    ASSUME ClosureInv, NextNamed
    PROVE  CallsAreChecked' /\ (~edited => RequirementsMet')
  <1> DEFINE k == batch[position]
  <1>1. /\ KextTypeOK /\ Calls(stack) /\ stack = <<>> /\ Len(stack) = 0 /\ UNCHANGED target
        /\ k \in Kexts
    <2>1. KextTypeOK /\ stack = <<>> /\ UNCHANGED target
      BY DEF ClosureInv, SelectionInv, NextNamed
    <2>2. Len(batch) \in Nat /\ \A i \in 1 .. Len(batch) : batch[i] \in Kexts
      BY <2>1, Named DEF KextTypeOK
    <2>3. position \in 1 .. Len(batch)
      BY <2>1, <2>2 DEF KextTypeOK, NextNamed
    <2>4. QED BY <2>1, <2>2, <2>3, NoCalls DEF KextTypeOK
  <1>2. \/ mode = "toggling" /\ Uncheck(k)
        \/ Check(k, stack)
    BY DEF NextNamed
  <1>3. \A x, i : ~Pending(x, i)
    BY <1>1, NoCalls
  <1> HIDE DEF k
  <1>4. CASE mode = "toggling" /\ Uncheck(k)
    <2>1. edited /\ stack' = <<>>
      BY <1>1, <1>4 DEF ClosureInv, CallsInLoops, Uncheck
    <2>2. CallsAreChecked'
      BY <2>1, EmptyBatch DEF CallsAreChecked
    <2>3. QED BY <2>1, <2>2
  <1>5. CASE Check(k, stack)
    <2>1. CallsAreChecked'
      BY <1>1, <1>5, CheckKeepsCalls
    <2>2. ASSUME ~edited
          PROVE  RequirementsMet'
      <3>1. \A x \in checked : \A i \in 1 .. Len(Requires[x]) : Met(Requires[x][i])
        BY <2>2, <1>3 DEF ClosureInv, RequirementsMet
      <3>2. QED BY <3>1, <1>1, <1>5, CheckKeepsMet
    <2>3. QED BY <2>1, <2>2
  <1>6. QED BY <1>2, <1>4, <1>5

LEMMA CallsInLoopsStep ==
    ASSUME ClosureInv, [Next]_vars
    PROVE  CallsInLoops'
  <1>1. ASSUME NEW names, NEW loop \in {"required", "smbios"}, StartLoop(names, loop)
        PROVE  CallsInLoops'
    BY <1>1 DEF StartLoop, CallsInLoops, Loops
  <1>2. ASSUME NEW names, NEW t, SelectRequired(names, t)
        PROVE  CallsInLoops'
    BY <1>1, <1>2 DEF SelectRequired
  <1>3. ASSUME NEW names, SmbiosOptions(names)
        PROVE  CallsInLoops'
    BY <1>1, <1>3 DEF SmbiosOptions
  <1>4. ASSUME NEW names, Pick(names)
        PROVE  CallsInLoops'
    BY <1>4 DEF Pick, StartLoop, CallsInLoops, Loops
  <1>5. CASE OpenMenu \/ LeaveMenu \/ PickOutOfRange \/ OptionFails
    BY <1>5 DEF OpenMenu, LeaveMenu, PickOutOfRange, OptionFails, Go, ClosureInv, CallsInLoops,
                Loops, LoopDone
  <1>6. ASSUME NEW applied, Build(applied)
        PROVE  CallsInLoops'
    BY <1>6 DEF Build, loopVars, ClosureInv, CallsInLoops, LoopDone
  <1>7. CASE NextRequirement \/ FinishCheck \/ NextNamed
    <2>1. mode \in Loops /\ UNCHANGED <<mode, edited>>
      <3>1. ~LoopDone /\ UNCHANGED <<mode, edited>>
        <4>1. CASE NextRequirement \/ FinishCheck
          BY <4>1 DEF NextRequirement, FinishCheck, LoopDone, loopVars
        <4>2. CASE NextNamed
          <5>1. position <= Len(batch) /\ UNCHANGED <<mode, edited>>
            BY <4>2 DEF NextNamed
          <5>2. position \in Nat /\ Len(batch) \in Nat
            BY Named DEF ClosureInv, SelectionInv, KextTypeOK
          <5>3. QED BY <5>1, <5>2 DEF LoopDone
        <4>3. QED BY <1>7, <4>1, <4>2
      <3>2. QED BY <3>1 DEF ClosureInv, CallsInLoops
    <2>2. QED BY <2>1 DEF ClosureInv, CallsInLoops
  <1>8. CASE Return("smbios", "main") \/ Return("toggling", "menu")
    BY <1>8, EmptyBatch DEF Return, CallsInLoops, LoopDone, Loops
  <1>9. CASE UNCHANGED vars
    BY <1>9 DEF vars, loopVars, ClosureInv, CallsInLoops, LoopDone
  <1>10. QED
    BY <1>2, <1>3, <1>4, <1>5, <1>6, <1>7, <1>8, <1>9 DEF Next, User, Program

LEMMA ClosureInvStep ==
    ASSUME ClosureInv, [Next]_vars
    PROVE  ClosureInv'
  <1>t. SelectionInv' /\ CallsInLoops'
    BY SelectionInvStep, CallsInLoopsStep DEF ClosureInv
  <1>1. ASSUME NEW names, NEW t, SelectRequired(names, t)
        PROVE  ClosureInv'
    BY <1>t, <1>1, SelectRequiredKeeps DEF ClosureInv
  <1>2. ASSUME NEW names, SmbiosOptions(names)
        PROVE  ClosureInv'
    BY <1>t, <1>2, QuietKeeps DEF ClosureInv, SmbiosOptions
  <1>3. ASSUME NEW names, Pick(names)
        PROVE  ClosureInv'
    BY <1>t, <1>3, QuietKeeps DEF ClosureInv, Pick
  <1>4. CASE OpenMenu \/ LeaveMenu \/ PickOutOfRange \/ OptionFails
    BY <1>t, <1>4, QuietKeeps
    DEF ClosureInv, OpenMenu, LeaveMenu, PickOutOfRange, OptionFails, Go
  <1>5. ASSUME NEW applied, Build(applied)
        PROVE  ClosureInv'
    BY <1>t, <1>5, BuildKeeps DEF ClosureInv, Build
  <1>6. CASE NextRequirement
    BY <1>t, <1>6, NextRequirementKeeps DEF ClosureInv, NextRequirement
  <1>7. CASE FinishCheck
    BY <1>t, <1>7, FinishCheckKeeps DEF ClosureInv, FinishCheck
  <1>8. CASE NextNamed
    BY <1>t, <1>8, NextNamedKeeps DEF ClosureInv, NextNamed
  <1>9. CASE Return("smbios", "main") \/ Return("toggling", "menu")
    BY <1>t, <1>9, QuietKeeps DEF ClosureInv, Return
  <1>10. CASE UNCHANGED vars
    BY <1>t, <1>10, QuietKeeps DEF ClosureInv, vars, loopVars
  <1>11. QED
    BY <1>1, <1>2, <1>3, <1>4, <1>5, <1>6, <1>7, <1>8, <1>9, <1>10 DEF Next, User, Program

LEMMA InitClosureInv == Init => ClosureInv
  <1> SUFFICES ASSUME Init
               PROVE  ClosureInv
    OBVIOUS
  <1>1. stack = <<>> /\ batch = <<>> /\ position = 1 /\ checked = Required /\ mode = "start"
    BY DEF Init
  <1>2. CallsInLoops
    BY <1>1, EmptyBatch DEF CallsInLoops, LoopDone
  <1>3. \A k \in Required : \A i \in 1 .. Len(Requires[k]) : Requires[k][i] \in Required
    BY KextAssumption
  <1>4. RequirementsMet
    BY <1>1, <1>3 DEF RequirementsMet, Met
  <1>5. QED BY <1>1, <1>2, <1>4, NoCalls, InitSelectionInv DEF ClosureInv

\* Until the user toggles something, every checked kext comes with all it requires,
\* cycles included, unless the version does not support it or a rival took its
\* place: for every dataset, not only the kexts of the run (kext_maestro.py:80-96).
THEOREM AutomaticSelectionIsClosedHolds == Spec => []AutomaticSelectionIsClosed
  <1>1. ClosureInv => AutomaticSelectionIsClosed
    <2> SUFFICES ASSUME ClosureInv, mode = "main", ~edited, NEW k \in checked, NEW o \in Missing(k)
                 PROVE  FALSE
      BY DEF AutomaticSelectionIsClosed
    <2>1. stack = <<>>
      BY DEF ClosureInv, CallsInLoops, Loops, LoopDone
    <2>2. PICK i \in 1 .. Len(Requires[k]) : Requires[k][i] = o
      BY DEF Missing
    <2>3. Met(o)
      BY <2>1, <2>2, NoCalls DEF ClosureInv, RequirementsMet
    <2>4. QED BY <2>3 DEF Met, Missing
  <1>2. QED BY <1>1, InitClosureInv, ClosureInvStep, PTL DEF Spec
=============================================================================
