--------------------------- MODULE KextSelection ---------------------------
(***************************************************************************)
(* Which kexts are checked in the command-line program: the automatic      *)
(* selection for a macOS version, the one for an SMBIOS model, the menu in *)
(* which the user toggles kexts, and the build that overrides one of them  *)
(* (KextMaestro, SMBIOS.smbios_specific_options, OCPE.main).               *)
(*                                                                         *)
(* check_kext is recursive, the requirements of the kexts are cyclic       *)
(* (IOSkywalkFamily and IO80211FamilyLegacy require each other), and every *)
(* call unchecks, as it returns, the rivals of its kext - kexts whose own  *)
(* call may still be running.  The calls are therefore an explicit stack,  *)
(* and each step of a call is a step of the specification.                 *)
(***************************************************************************)
EXTENDS Naturals, Sequences
LOCAL INSTANCE SequencesExt

CONSTANTS
    Kexts,         \* the kexts of Scripts/datasets/kext_data.py
    Required,      \* those with required = True
    Requires,      \* requires_kexts of each kext
    Group,         \* conflict_group_id of each kext
    NoGroup,       \* conflict_group_id when it is None
    FirstKext,     \* the kext with index 0
    PatchKext,     \* the kext the BATP patch overrides, ECEnabler
    Targets,       \* the macOS versions
    Supports,      \* the kexts whose darwin versions include each macOS version
    HardwareKexts, \* the kexts select_required_kexts may name
    SmbiosKexts,   \* the kexts smbios_specific_options may name
    MaxBatch       \* bound on the number of kexts named at once

\* What the dataset guarantees: a required kext has no rivals, every version
\* supports it and what it requires is required too; the patched kext can be
\* overridden because it has no rivals either and every version supports it.
ASSUME KextAssumption ==
    /\ Required \subseteq Kexts /\ FirstKext \in Required
    /\ PatchKext \in Kexts \ Required /\ Group[PatchKext] = NoGroup
    /\ HardwareKexts \subseteq Kexts /\ SmbiosKexts \subseteq Kexts
    /\ Requires \in [Kexts -> Seq(Kexts)]
    /\ Supports \in [Targets -> SUBSET Kexts]
    /\ \A t \in Targets : Required \cup {PatchKext} \subseteq Supports[t]
    /\ \A k \in Required : /\ Group[k] = NoGroup
                           /\ \A i \in 1 .. Len(Requires[k]) : Requires[k][i] \in Required
    /\ \A i \in 1 .. Len(Requires[PatchKext]) : Requires[PatchKext][i] \in Required
    /\ MaxBatch \in Nat

Rivals(k) == IF Group[k] = NoGroup THEN {} ELSE {o \in Kexts \ {k} : Group[o] = Group[k]}

\* The kexts a call for k can reach: the least set that holds k and all its members require.
Closed(names) == \A k \in names : \A i \in 1 .. Len(Requires[k]) : Requires[k][i] \in names
Reached(k) == {o \in Kexts : \A names \in SUBSET Kexts : k \in names /\ Closed(names) => o \in names}

\* What the dataset guarantees too: no kext brings a rival of its own with it, so that a
\* call is never undone by the calls it makes, and nothing requires the patched kext.
ASSUME RequirementAssumption ==
    /\ \A k \in Kexts : Reached(k) \cap Rivals(k) = {}
    /\ \A k \in Kexts : \A i \in 1 .. Len(Requires[k]) : Requires[k][i] # PatchKext

VARIABLES
    checked,   \* the kexts whose checked is true
    stack,     \* the calls of check_kext under way, the innermost last
    batch,     \* the kexts named to the loop that is running
    position,  \* the loop's position in batch
    mode,      \* where the program is
    allow,     \* allow_unsupported_kexts
    target,    \* macos_version; meaningless in mode "start"
    forced,    \* history: the user agreed to force a kext since the last reset
    edited     \* history: the user toggled a kext since the last reset

loopVars == <<batch, position, mode, allow, target>>
vars == <<checked, stack, loopVars, forced, edited>>

\* "start": no hardware report is selected.  "main" and "menu" wait for the user;
\* the other three run a loop over batch.
Loops == {"required", "smbios", "toggling"}
Modes == {"start", "main", "menu"} \cup Loops

Frames == [kext : Kexts, next : Nat]

\* A call stands within the requirements of its kext, or just past them.
Calls(s) == /\ s \in Seq(Frames)
            /\ \A i \in 1 .. Len(s) : s[i].next \in 1 .. Len(Requires[s[i].kext]) + 1

Batches(names) == UNION {[1 .. n -> names] : n \in 0 .. MaxBatch}

KextTypeOK ==
    /\ checked \in SUBSET Kexts
    /\ Calls(stack)
    /\ batch \in Batches(Kexts)
    /\ position \in 1 .. Len(batch) + 1
    /\ mode \in Modes
    /\ allow \in BOOLEAN /\ forced \in BOOLEAN /\ edited \in BOOLEAN
    /\ target \in Targets

Init ==
    /\ checked = Required
    /\ stack = <<>>
    /\ batch = <<>> /\ position = 1
    /\ mode = "start"
    /\ target \in Targets
    /\ allow = FALSE /\ forced = FALSE /\ edited = FALSE

-----------------------------------------------------------------------------
(* check_kext and uncheck_kext.                                            *)

Supported(k) == k \in Supports[target]

\* Variants: the macOS version is not looked at; the requirements are not.
CheckAnyVersion(k, below) ==
    IF k \in checked
      THEN /\ stack' = below
           /\ UNCHANGED checked
      ELSE /\ stack' = Append(below, [kext |-> k, next |-> 1])
           /\ checked' = checked \cup {k}

CheckAlone(k, below) ==
    /\ stack' = below
    /\ checked' = IF allow \/ Supported(k) THEN checked \cup {k} ELSE checked

\* The call check_kext(k) made with the calls below on the stack: it returns at
\* once, or checks k and goes on to what k requires.
Check(k, below) ==
    IF k \in checked \/ ~(allow \/ Supported(k))
      THEN /\ stack' = below
           /\ UNCHANGED checked
      ELSE /\ stack' = Append(below, [kext |-> k, next |-> 1])
           /\ checked' = checked \cup {k}

\* Variant: the requirements are unchecked without looking at required.
UncheckEverything(k) ==
    /\ checked' = checked \ ({k} \cup {Requires[k][i] : i \in 1 .. Len(Requires[k])})
    /\ UNCHANGED stack

\* uncheck_kext also unchecks what k requires, whoever else requires it.
Uncheck(k) ==
    /\ checked' = checked \ ({k} \cup {o \in Kexts \ Required :
                                         \E i \in 1 .. Len(Requires[k]) : Requires[k][i] = o})
    /\ UNCHANGED stack

Top == stack[Len(stack)]

\* The next requirement of the innermost call.  The test `if requires_kext_index`
\* is false of index 0 as well as of None, so the first kext is never checked here.
NextRequirement ==
    /\ stack # <<>>
    /\ Top.next <= Len(Requires[Top.kext])
    /\ LET needed == Requires[Top.kext][Top.next]
           below  == [stack EXCEPT ![Len(stack)] = [Top EXCEPT !.next = @ + 1]]
       IN  IF needed = FirstKext
             THEN stack' = below /\ UNCHANGED checked
             ELSE Check(needed, below)
    /\ UNCHANGED <<loopVars, forced, edited>>

\* Variant: the conflict group is not looked at.
FinishCheckAlone ==
    /\ stack # <<>>
    /\ Top.next > Len(Requires[Top.kext])
    /\ stack' = SubSeq(stack, 1, Len(stack) - 1)
    /\ UNCHANGED <<checked, loopVars, forced, edited>>

\* The innermost call unchecks the rivals of its kext and returns.
FinishCheck ==
    /\ stack # <<>>
    /\ Top.next > Len(Requires[Top.kext])
    /\ checked' = checked \ Rivals(Top.kext)
    /\ stack' = SubSeq(stack, 1, Len(stack) - 1)
    /\ UNCHANGED <<loopVars, forced, edited>>

-----------------------------------------------------------------------------
(* The loops over the named kexts.                                         *)

\* verify_kext_compatibility: the user is asked only when one of the kexts named
\* directly is not supported.
Answers(names, t) ==
    IF \E i \in 1 .. Len(names) : names[i] \notin Supports[t] THEN BOOLEAN ELSE {FALSE}

\* Variant: the loop goes on from where the last one stopped.
StartLoopInside(names, loop) ==
    /\ batch' = names
    /\ mode' = loop
    /\ UNCHANGED position

StartLoop(names, loop) ==
    /\ batch' = names
    /\ position' = 1
    /\ mode' = loop

\* Options 1 and 2, and option 6 when the user declines the OCLP warning: only
\* the required kexts stay checked, then those the hardware calls for are.
SelectRequired(names, t) ==
    /\ mode \in {"start", "main"}
    /\ StartLoop(names, "required")
    /\ target' = t
    /\ allow' \in Answers(names, t)
    /\ forced' = allow'
    /\ edited' = FALSE
    /\ checked' = Required
    /\ UNCHANGED stack

LoopDone == stack = <<>> /\ position > Len(batch)

\* smbios_specific_options, after select_required_kexts and under option 5.  No
\* macOS version of os_data.py is a beta, so nothing unsupported is let through.
SmbiosOptions(names) ==
    /\ mode = "main" \/ (mode = "required" /\ LoopDone)
    /\ StartLoop(names, "smbios")
    /\ allow' = FALSE
    /\ UNCHANGED <<checked, stack, target, forced, edited>>

\* Variant: the loop does not move on.
NextNamedAgain ==
    /\ stack = <<>>
    /\ position <= Len(batch)
    /\ LET k == batch[position]
       IN  IF mode = "toggling" /\ k \in checked \ Required
             THEN Uncheck(k)
             ELSE Check(k, stack)
    /\ UNCHANGED <<loopVars, forced, edited>>

\* One kext of a loop.  The menu's loop toggles it, the others check it.
NextNamed ==
    /\ stack = <<>>
    /\ position <= Len(batch)
    /\ position' = position + 1
    /\ LET k == batch[position]
       IN  IF mode = "toggling" /\ k \in checked \ Required
             THEN Uncheck(k)
             ELSE Check(k, stack)
    /\ UNCHANGED <<batch, mode, allow, target, forced, edited>>

Return(from, to) ==
    /\ mode = from /\ LoopDone
    /\ mode' = to
    /\ batch' = <<>> /\ position' = 1
    /\ UNCHANGED <<checked, stack, allow, target, forced, edited>>

-----------------------------------------------------------------------------
(* The rest of the menus.                                                  *)

Go(from, to) ==
    /\ mode = from
    /\ mode' = to
    /\ UNCHANGED <<checked, stack, batch, position, allow, target, forced, edited>>

OpenMenu == Go("main", "menu")
LeaveMenu == Go("menu", "main")

\* The user types a list of indices.
Pick(names) ==
    /\ mode = "menu"
    /\ StartLoop(names, "toggling")
    /\ allow' \in Answers(names, target)
    /\ forced' = (forced \/ allow')
    /\ edited' = TRUE
    /\ UNCHANGED <<checked, stack, target>>

\* An index past the last kext: the exception leaves the menu and main, which
\* starts over without a hardware report but with the same kexts checked.
PickOutOfRange == Go("menu", "start")

\* An option of the main menu raises (no OpenCorePkg to copy, a report that lacks
\* a section): main starts over in the same way.
OptionFails == Go("main", "start")

\* Option 6 with the BATP patch checked: build_opencore_efi makes the kext agree
\* with whether the patch applied, without check_kext.
Build(applied) ==
    /\ mode = "main"
    /\ checked' = IF applied THEN checked \cup {PatchKext} ELSE checked \ {PatchKext}
    /\ UNCHANGED <<stack, loopVars, forced, edited>>

User ==
    \/ \E names \in Batches(HardwareKexts), t \in Targets : SelectRequired(names, t)
    \/ mode = "main" /\ \E names \in Batches(SmbiosKexts) : SmbiosOptions(names)
    \/ \E names \in Batches(Kexts) : Pick(names)
    \/ OpenMenu
    \/ LeaveMenu
    \/ PickOutOfRange
    \/ OptionFails
    \/ \E applied \in BOOLEAN : Build(applied)

Program ==
    \/ NextRequirement
    \/ FinishCheck
    \/ NextNamed
    \/ mode = "required" /\ \E names \in Batches(SmbiosKexts) : SmbiosOptions(names)
    \/ Return("smbios", "main")
    \/ Return("toggling", "menu")

Next == User \/ Program

\* The program runs on; the user need not do anything.
Spec == Init /\ [][Next]_vars /\ WF_vars(Program)

-----------------------------------------------------------------------------
(* Properties.                                                             *)

Running(k) == \E i \in 1 .. Len(stack) : stack[i].kext = k

\* No two kexts of one conflict group are checked, whatever the order in which
\* they were checked, required by one another or let through - except while a
\* call that has checked its kext has not returned (kext_maestro.py:80-96).
OneOfEachGroup ==
    \A k, o \in checked : o \in Rivals(k) => Running(k) \/ Running(o)

\* The required kexts are always checked: neither rivals, nor the toggling of a
\* kext that requires them, nor the patch unchecks one (kext_maestro.py:619-625).
RequiredStayChecked == Required \subseteq checked

\* A kext the macOS version does not support is checked only if the user agreed
\* to force one for this version, though requirements bring in kexts that
\* verify_kext_compatibility never looked at (kext_maestro.py:429-432, 709-717).
UnsupportedAreForced == mode # "start" => checked \subseteq Supports[target] \/ forced

\* A requirement that is neither checked, nor unsupported, nor displaced.
Missing(k) ==
    {o \in Kexts : /\ \E i \in 1 .. Len(Requires[k]) : Requires[k][i] = o
                   /\ o \notin checked
                   /\ Supported(o)
                   /\ Rivals(o) \cap checked = {}}

\* Until the user toggles something, every checked kext comes with all it
\* requires, cycles included, unless the version does not support it or a rival
\* took its place (kext_maestro.py:80-96, 429-432).
AutomaticSelectionIsClosed ==
    mode = "main" /\ ~edited => \A k \in checked : Missing(k) = {}

\* Every loop ends, though requirements are cyclic and calls uncheck kexts that
\* other calls have checked.
SelectionEnds == mode \in Loops ~> mode \in {"main", "menu"}

\* The note under the menu (kext_maestro.py:691), "When a plugin of a kext is selected,
\* the entire kext will be automatically selected", for a line of several indices: when
\* its loop ends, each kext it leaves selected has what it requires, except for what
\* the line named and what the kexts it deselected took with them, whoever else needs
\* it (uncheck_kext, kext_maestro.py:619-625).
PluginHasItsKext ==
    mode = "toggling" /\ LoopDone
        => \A k \in ToSet(batch) \cap checked : \A o \in Missing(k) \ ToSet(batch) :
              \E gone \in ToSet(batch) \ checked : o \in ToSet(Requires[gone])
=============================================================================
