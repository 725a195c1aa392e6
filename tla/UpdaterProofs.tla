---------------------------- MODULE UpdaterProofs ----------------------------
(***************************************************************************)
(* Proofs about Updater: its types, and that no file is older than the     *)
(* commit recorded unless its own replacement failed.                      *)
(***************************************************************************)
EXTENDS Updater, TLAPS

\* What each stretch of run_update knows.
ComparedInv ==
    pc \in {"download", "replace", "save", "write"} /\ latest \in Commits => latest <= head

ArchiveInv ==
    pc \in {"replace", "save", "write"} =>
        /\ archive <= head
        /\ latest \in Commits => latest <= archive
        /\ sha \in Commits => sha <= archive

ReplacedInv ==
    /\ pc = "replace" => \A f \in Files \ (failed \cup remaining) : files[f] = archive
    /\ pc \in {"save", "write"} => \A f \in Files \ failed : files[f] = archive

RecordedInv == sha \in Commits => sha <= head

UpdaterInv ==
    /\ UpdaterTypeOK
    /\ ComparedInv
    /\ ArchiveInv
    /\ ReplacedInv
    /\ RecordedInv
    /\ InstalledAsRecorded

\* Nothing but a replacement writes the program's files.
LEMMA InitUpdaterInv == Init => UpdaterInv
  BY UpdaterAssumption
  DEF Init, UpdaterInv, UpdaterTypeOK, ComparedInv, ArchiveInv, ReplacedInv, RecordedInv,
      InstalledAsRecorded, Commits, NoSha, Forced, Shas, Damaged, Places

\* A step of the comparison keeps the invariant.
LEMMA CompareKeepsInv ==
  ASSUME UpdaterInv,
         Launch \/ ReadCurrent \/ ReadFails \/ FetchLatest \/ FetchFails \/ Skip \/ ForceUpdate
  PROVE  UpdaterInv'
  BY UpdaterAssumption
  DEF UpdaterInv, UpdaterTypeOK, ComparedInv, ArchiveInv, ReplacedInv, RecordedInv,
      InstalledAsRecorded, Launch, ReadCurrent, ReadFails, FetchLatest, FetchFails, Skip,
      ForceUpdate, Compare, Go, disk, memory, Commits, NoSha, Forced, Shas, Damaged, Places

\* Beginning or ending a pass over the files keeps the invariant.
LEMMA DownloadKeepsInv ==
  ASSUME UpdaterInv, Download \/ DownloadFails \/ Replaced \/ ReplaceAborts
  PROVE  UpdaterInv'
  BY UpdaterAssumption
  DEF UpdaterInv, UpdaterTypeOK, ComparedInv, ArchiveInv, ReplacedInv, RecordedInv,
      InstalledAsRecorded, Download, DownloadFails, Replaced, ReplaceAborts,
      Go, disk, memory, Commits, NoSha, Forced, Shas, Damaged, Places

\* One file replaced, or not, keeps the invariant.
LEMMA ReplaceKeepsInv ==
  ASSUME UpdaterInv, NEW f \in Files, Replace(f) \/ ReplaceFails(f) \/ KillDuringMove(f)
  PROVE  UpdaterInv'
<1>1. CASE Replace(f)
  <2>1. /\ pc = "replace" /\ pc' = "replace" /\ UNCHANGED <<head, sha, latest, current, archive>>
        /\ files' = [files EXCEPT ![f] = archive]
        /\ failed' = failed \ {f} /\ remaining' = remaining \ {f}
    BY <1>1 DEF Replace
  <2>2. UpdaterTypeOK' /\ ComparedInv' /\ ArchiveInv' /\ RecordedInv'
    BY <2>1 DEF UpdaterInv, UpdaterTypeOK, ComparedInv, ArchiveInv, RecordedInv, Places
  <2>3. ReplacedInv'
    BY <2>1 DEF UpdaterInv, UpdaterTypeOK, ReplacedInv
  <2>4. InstalledAsRecorded'
    BY <2>1 DEF UpdaterInv, UpdaterTypeOK, ArchiveInv, InstalledAsRecorded, Commits, Damaged
  <2> QED BY <2>2, <2>3, <2>4 DEF UpdaterInv
<1>2. CASE ReplaceFails(f) \/ KillDuringMove(f)
  <2>1. /\ pc = "replace" /\ pc' \in {"replace", "off"}
        /\ UNCHANGED <<head, sha, latest, current, archive>>
        /\ files' \in {files, [files EXCEPT ![f] = Damaged]}
        /\ failed' = failed \cup {f} /\ remaining' \in {remaining, remaining \ {f}}
    BY <1>2 DEF ReplaceFails, KillDuringMove, Go, memory
  <2>2. UpdaterTypeOK' /\ ComparedInv' /\ ArchiveInv' /\ RecordedInv'
    BY <2>1 DEF UpdaterInv, UpdaterTypeOK, ComparedInv, ArchiveInv, RecordedInv, Places
  <2>3. \A g \in Files \ failed' : files'[g] = files[g]
    BY <2>1 DEF UpdaterInv, UpdaterTypeOK
  <2>4. ReplacedInv'
    BY <2>1, <2>3 DEF UpdaterInv, ReplacedInv
  <2>5. InstalledAsRecorded'
    BY <2>1, <2>3 DEF UpdaterInv, InstalledAsRecorded
  <2> QED BY <2>2, <2>4, <2>5 DEF UpdaterInv
<1> QED BY <1>1, <1>2

\* Recording the commit, or failing to, keeps the invariant.
LEMMA SaveKeepsInv ==
  ASSUME UpdaterInv, OpenSha \/ WriteSha \/ SaveFails
  PROVE  UpdaterInv'
  BY UpdaterAssumption
  DEF UpdaterInv, UpdaterTypeOK, ComparedInv, ArchiveInv, ReplacedInv, RecordedInv,
      InstalledAsRecorded, OpenSha, WriteSha, SaveFails,
      Go, disk, memory, Commits, NoSha, Forced, Shas, Damaged, Places

\* A restart, a push, leaving or being killed keeps the invariant.
LEMMA OtherKeepsInv ==
  ASSUME UpdaterInv, Restart \/ Push \/ Quit \/ Kill
  PROVE  UpdaterInv'
  BY UpdaterAssumption
  DEF UpdaterInv, UpdaterTypeOK, ComparedInv, ArchiveInv, ReplacedInv, RecordedInv,
      InstalledAsRecorded, Restart, Push, Quit, Kill,
      Go, disk, memory, Commits, NoSha, Forced, Shas, Damaged, Places

\* Every step keeps the invariant.
LEMMA NextKeepsUpdaterInv == UpdaterInv /\ [Next]_vars => UpdaterInv'
<1> SUFFICES ASSUME UpdaterInv, [Next]_vars PROVE UpdaterInv'
  OBVIOUS
<1>1. CASE Launch \/ ReadCurrent \/ ReadFails \/ FetchLatest \/ FetchFails \/ Skip \/ ForceUpdate
  BY <1>1, CompareKeepsInv
<1>2. CASE Download \/ DownloadFails \/ Replaced \/ ReplaceAborts
  BY <1>2, DownloadKeepsInv
<1>3. CASE \E f \in Files : Replace(f) \/ ReplaceFails(f) \/ KillDuringMove(f)
  BY <1>3, ReplaceKeepsInv
<1>4. CASE OpenSha \/ WriteSha \/ SaveFails
  BY <1>4, SaveKeepsInv
<1>5. CASE Restart \/ Push \/ Quit \/ Kill
  BY <1>5, OtherKeepsInv
<1>6. CASE UNCHANGED vars
  BY <1>6 DEF vars, disk, memory, UpdaterInv, UpdaterTypeOK, ComparedInv, ArchiveInv,
              ReplacedInv, RecordedInv, InstalledAsRecorded
<1> QED
  BY <1>1, <1>2, <1>3, <1>4, <1>5, <1>6 DEF Next, Program, Faults, User

\* The inductive invariant holds in every reachable state.
THEOREM UpdaterInvariant == Spec => []UpdaterInv
<1> QED
  BY InitUpdaterInv, NextKeepsUpdaterInv, PTL DEF Spec

\* Type correctness of the updater.
THEOREM UpdaterTypeCorrect == Spec => []UpdaterTypeOK
<1>1. UpdaterInv => UpdaterTypeOK
  BY DEF UpdaterInv
<1> QED
  BY <1>1, UpdaterInvariant, PTL

\* Wherever an update stops, no file is older than the commit recorded, but for
\* those whose own replacement failed.
THEOREM NothingOlderThanRecorded == Spec => []InstalledAsRecorded
<1>1. UpdaterInv => InstalledAsRecorded
  BY DEF UpdaterInv
<1> QED
  BY <1>1, UpdaterInvariant, PTL
=============================================================================
