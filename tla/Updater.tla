------------------------------- MODULE Updater -------------------------------
(***************************************************************************)
(* The self-update that `__main__` runs before the main menu: the commit   *)
(* recorded in sha_version.txt is compared with the newest one, the        *)
(* program's own files are replaced one by one, and the program is         *)
(* restarted.  The files and sha_version.txt outlive a kill.               *)
(*                                                                         *)
(* A commit is its number on the main branch; a file is the commit it was  *)
(* installed from.                                                         *)
(***************************************************************************)
EXTENDS Naturals

CONSTANTS
    Files,     \* the files of the program
    MaxCommit  \* bound: commits pushed to the repository

ASSUME UpdaterAssumption ==
    /\ Files # {}
    /\ MaxCommit \in Nat \ {0}

VARIABLES
    head,      \* the newest commit of the repository
    files,     \* the commit each file is installed from
    sha,       \* what sha_version.txt holds
    failed,    \* history: files whose last replacement raised or was cut short
    pc,        \* where the program stands; "off" when it does not run
    current,   \* current_sha_version
    latest,    \* latest_sha_version
    archive,   \* the commit whose archive was extracted
    remaining  \* files of the archive not gone through

disk == <<files, sha, failed>>
memory == <<current, latest, archive, remaining>>
vars == <<head, disk, pc, memory>>

Commits == 1 .. MaxCommit

\* What sha_version.txt, and the two variables compared, hold instead of a commit:
\* nothing that can be read, and "update_forced_by_user".
NoSha == 0
Forced == MaxCommit + 1
Shas == 0 .. MaxCommit + 1

\* A file cut short is of no commit.
Damaged == 0

Places == {"off", "read", "fetch", "asked", "download", "replace", "save", "write",
           "restart", "menu"}

Go(from, to) == pc = from /\ pc' = to

Init ==
    /\ head = 1
    /\ files = [f \in Files |-> 1]
    /\ sha \in {NoSha, 1}
    /\ failed = {}
    /\ pc = "off"
    /\ current = NoSha /\ latest = NoSha /\ archive = 1
    /\ remaining = {}

-----------------------------------------------------------------------------
(* run_update: is there anything to do?                                    *)

\* The user starts the program.
Launch ==
    /\ Go("off", "read")
    /\ UNCHANGED <<head, disk, memory>>

\* get_current_sha_version: a file that cannot be read equals no commit.
ReadCurrent ==
    /\ Go("read", "fetch")
    /\ current' = sha
    /\ UNCHANGED <<head, disk, latest, archive, remaining>>

ReadFails ==
    /\ Go("read", "fetch")
    /\ current' = NoSha
    /\ UNCHANGED <<head, disk, latest, archive, remaining>>

\* Equal means "You are already using the latest version".
Compare(newest) ==
    /\ latest' = newest
    /\ pc' = IF newest = current THEN "menu" ELSE "download"
    /\ UNCHANGED <<head, disk, current, archive, remaining>>

FetchLatest == pc = "fetch" /\ Compare(head)

\* get_latest_sha_version returns None: the user is asked whether to skip.
FetchFails ==
    /\ Go("fetch", "asked")
    /\ UNCHANGED <<head, disk, memory>>

Skip ==
    /\ Go("asked", "menu")
    /\ UNCHANGED <<head, disk, memory>>

ForceUpdate == pc = "asked" /\ Compare(Forced)

-----------------------------------------------------------------------------
(* download_update and update_files.                                       *)

\* Variant: the archive is taken to be that of the commit compared.
DownloadLatest ==
    /\ Go("download", "replace")
    /\ archive' = latest
    /\ remaining' = Files
    /\ UNCHANGED <<head, disk, current, latest>>

\* The archive is that of main by now, maybe newer than `latest`.
Download ==
    /\ Go("download", "replace")
    /\ archive' = head
    /\ remaining' = Files
    /\ UNCHANGED <<head, disk, current, latest>>

DownloadFails ==
    /\ Go("download", "menu")
    /\ UNCHANGED <<head, disk, memory>>

Replace(f) ==
    /\ pc = "replace" /\ f \in remaining
    /\ files' = [files EXCEPT ![f] = archive]
    /\ failed' = failed \ {f}
    /\ remaining' = remaining \ {f}
    /\ UNCHANGED <<head, sha, pc, current, latest, archive>>

\* shutil.move raises, before it touches the file or halfway through a copy; the
\* loop reports it and goes on.
ReplaceFails(f) ==
    /\ pc = "replace" /\ f \in remaining
    /\ files' \in {files, [files EXCEPT ![f] = Damaged]}
    /\ failed' = failed \cup {f}
    /\ remaining' = remaining \ {f}
    /\ UNCHANGED <<head, sha, pc, current, latest, archive>>

\* Variant: the program is restarted with files still to be replaced.
ReplacedSome ==
    /\ Go("replace", "save")
    /\ remaining # Files
    /\ UNCHANGED <<head, disk, memory>>

\* Every file was gone through and the temporary directory is removed.
Replaced ==
    /\ Go("replace", "save")
    /\ remaining = {}
    /\ UNCHANGED <<head, disk, memory>>

\* create_folder or rmtree raises: update_files returns False.
ReplaceAborts ==
    /\ Go("replace", "menu")
    /\ UNCHANGED <<head, disk, memory>>

-----------------------------------------------------------------------------
(* save_latest_sha_version: write_file empties the file, then writes it.   *)

OpenSha ==
    /\ Go("save", "write")
    /\ sha' = NoSha
    /\ UNCHANGED <<head, files, failed, memory>>

WriteSha ==
    /\ Go("write", "restart")
    /\ sha' = latest
    /\ UNCHANGED <<head, files, failed, memory>>

\* The update counts as completed all the same.
SaveFails ==
    /\ pc \in {"save", "write"} /\ pc' = "restart"
    /\ UNCHANGED <<head, disk, memory>>

\* os.execv runs the installed program, which begins with run_update again.
Restart ==
    /\ Go("restart", "read")
    /\ UNCHANGED <<head, disk, memory>>

-----------------------------------------------------------------------------
Push ==
    /\ head < MaxCommit
    /\ head' = head + 1
    /\ UNCHANGED <<disk, pc, memory>>

\* The user quits from the main menu.
Quit ==
    /\ Go("menu", "off")
    /\ UNCHANGED <<head, disk, memory>>

\* The program is killed, or something outside a try raises.
Kill ==
    /\ pc \notin {"off", "menu"} /\ pc' = "off"
    /\ UNCHANGED <<head, disk, memory>>

\* It is killed while shutil.move copies a file.
KillDuringMove(f) ==
    /\ Go("replace", "off") /\ f \in remaining
    /\ files' = [files EXCEPT ![f] = Damaged]
    /\ failed' = failed \cup {f}
    /\ UNCHANGED <<head, sha, memory>>

Program ==
    \/ ReadCurrent \/ FetchLatest \/ Download
    \/ \E f \in Files : Replace(f)
    \/ Replaced \/ OpenSha \/ WriteSha \/ Restart

Faults ==
    \/ ReadFails \/ FetchFails \/ DownloadFails
    \/ \E f \in Files : ReplaceFails(f) \/ KillDuringMove(f)
    \/ ReplaceAborts \/ SaveFails \/ Kill

User == Launch \/ Skip \/ ForceUpdate \/ Quit

Next == Program \/ Faults \/ User \/ Push

\* The program keeps running; nothing says that what failed once succeeds later.
Spec == Init /\ [][Next]_vars /\ WF_vars(Program)

-----------------------------------------------------------------------------
(* Properties.                                                             *)

\* The type of every variable: updater.py 133-201.
UpdaterTypeOK ==
    /\ head \in Commits
    /\ files \in [Files -> Commits \cup {Damaged}]
    /\ sha \in Shas
    /\ failed \subseteq Files
    /\ pc \in Places
    /\ current \in Shas /\ latest \in Shas
    /\ archive \in Commits
    /\ remaining \subseteq Files

\* Wherever an update was stopped, and however pushes fall between the comparison
\* and the download, a file is at least as new as the commit in sha_version.txt,
\* so that the next start does not take a half-done update for a finished one; but
\* for the files whose own replacement failed, which updater.py:107 lets pass.
InstalledAsRecorded ==
    sha \in Commits => \A f \in Files \ failed : files[f] >= sha

\* "The program needs to restart to complete the update process." (updater.py:197):
\* one restart, after which the program comes to its menu, or waits for the user,
\* or was stopped.  The update goes round for ever where the commit cannot be
\* saved: the save is reported and the restart runs run_update again.
UpdateSettles ==
    pc # "off" ~> pc \in {"menu", "asked", "off"}
=============================================================================
