# A verification project for freakyOCS

freakyOCS builds OpenCore EFI folders for the hardware of a PC. The repository
holds two programs that do the same job: a desktop application (a C# core and
React pages in a web view) and the command-line program it grew from (Python).
They share no code and no state. This directory models the desktop
application's builds and the pages that start them, where things happen
concurrently, and the whole decision path of the command-line program: its
update, its menu, what it selects for a machine, what it downloads and what it
writes into an EFI.

## Inventory

| Component | State | Operations | Interacts with | Hard behaviours | Correct means |
|---|---|---|---|---|---|
| Build service (`Core/Bridge/HandlersSetup.cs`, `Core/Services/BuildService.cs`) | `buildCts` under a lock, one task per build | build:start, build:cancel, the stages of a build | downloads, USB mapper, channel to the web view | handlers of several requests interleave; exceptions swallowed; cancellation looked at in one place | one live token; every build answered once; a cancelled build stops |
| Message bridge (`MessageRouter.cs`, `bridge/photino.ts`) | handler tables, pending invocations | handle, send, dispatch, invoke, on | every handler and page | 30 s timeout against late answers; answers dropped | an invocation settles once |
| Build and result pages, context (`BuildPage.tsx`, `ResultPage.tsx`, `AppContext.tsx`) | isBuilding, progress, result, the wizard's choices | start, cancel, retry, navigate, RESET | build service through events without a request id | events while unmounted; state that outlives a page | the page never has two builds outstanding; the result is that of the build asked for |
| USB mapper (`Core/UsbMapper/`, `UsbMapperPage.tsx`) | fresh and historical controller lists, usb.json | scan, toggle, set type, merge, save, build kext | build service, page | handlers without a lock; index against a re-sorted list | the port toggled is the port shown |
| Gathering and downloads (`FileGatheringService.cs`, `DownloadService.cs`; `gathering_files.py`, `resource_fetcher.py`) | files on disk, download history | fetch, retry, extract, record | GitHub, build | retries, partial files, crash between clearing and recording | a folder that verifies is whole; the release reported is the one listed |
| Kext selection (`kext_maestro.py`, `smbios.py`, `OpCore-Simplify.py`) | `checked` of every kext | check, uncheck, select for a version, select for an SMBIOS, menu, BATP override | main menu, ACPI patches | recursion over cyclic requirements, rivals, forced kexts | no two rivals; required kexts stay; nothing unsupported unless forced |
| Kext loading (`kext_maestro.py`, `KextService.cs`) | Kernel/Add | install, order by dependency, ranges of versions | selection, downloads, main menu | two bundles with one identifier; a library that is a plug-in of another kext | an enabled bundle comes after what it links against |
| Updater (`updater.py`) | the program's files, `sha_version.txt` | compare, download, replace, save, restart | `__main__` | failures swallowed; kills; commits pushed meanwhile | no file is older than the commit recorded |
| Main menu (`OpCore-Simplify.py`, `run.py`) | report, version, SMBIOS, OCLP flag in locals of `main()`; tables, patches and kexts in objects that outlive it | options 1 to 6, Q | everything of the command-line program | an exception loses the locals and keeps the objects; options in any order | what is built belongs to one report; its parts fit each other |
| ACPI patches (`acpi_guru.py`, `dsdt.py`, `AcpiGuruService.cs`, `DsdtService.cs`) | tables, pre-patches, checked patches | load, select, toggle, generate, order the renames | main menu, kexts (BATP), configuration (disabled cards) | renames of renames; an SSDT that does not compile | a rename comes before those that would shadow it; what is renamed is replaced |
| Compatibility and customization (`compatibility_checker.py`, `hardware_customizer.py`) | none (functions of report and version) | check, offer, keep or disable | main menu | ranges that a second pass narrows; groups of cards | what is kept runs on the version chosen |
| SMBIOS (`smbios.py`, `SmbiosService.cs`) | model | select, customize, add patch and kexts | main menu | platforms and generations | a model that the version supports |
| Configuration (`config_prodigy.py`, `ConfigService.cs`) | none | generate config.plist | main menu, ACPI, kexts | the same question answered in two places | each device is configured exactly once |
| Report validation, Wi-Fi profiles | none | one computation each | main menu, handlers | none | not modelled |
| Hardware sniffer | none | reads the operating system | report page | I/O only | not modelled |
| Datasets | tables | none | all | none | constants with assumptions |

`PROJECT.json` lists the components file by file, and the hazards at the lines
where they bite, with the properties that would notice.

## Modules

| Module | What it is |
|---|---|
| `LatestBuild` | What the build service promises: the latest accepted build is the only live one, what is revoked stays revoked, every accepted build is answered. |
| `BuildService` | The handlers of build:start and build:cancel and the task of each build, under a client that may post anything at any time. Implements `LatestBuild`. |
| `BuildApp` | `BuildService` with the pages as its client, and the user who drives them. |
| `CancelClicks` | `BuildApp` with the memory of which build each click on Cancel was meant for, and what its answer promises. |
| `MCBuildService`, `MCBuildApp`, `MCCancelClicks` | Instances of the three. |
| `BuildServiceProofs` | Theorems about `BuildService`. |
| `KextSelection` | Which kexts the command-line program has checked. |
| `MCKextSelection` | An instance over kexts of the dataset. |
| `KextSelectionProofs` | Theorems about `KextSelection`: types, rivals, required and unsupported kexts. |
| `GatherFiles` | Downloads into `OCK_Files`, with manifests and history, of a program that may be killed at any step. |
| `MCGatherFiles` | An instance with one kext archive and OpenCorePkg. |
| `GatherFilesProofs` | Theorems about `GatherFiles`. |
| `BuildAppProofs` | Theorems about `BuildApp`. |
| `Updater` | The self-update before the menu, with failures, kills, restarts and pushes. |
| `MCUpdater`, `UpdaterProofs` | An instance of it, and theorems about it. |
| `Datasets`, `KextData` | The tables of `Scripts/datasets`: processors, graphics cards, chipsets, Mac models, device ids by list; the kexts with their versions, requirements and groups. |
| `Compatibility` | Which versions a device supports, natively and with OpenCore Legacy Patcher, and which the machine does. |
| `HardwareCustomization` | What an EFI for a version keeps, disables and lets the user choose. |
| `Smbios` | The Mac model selected for a machine, and what comes with a model. |
| `KextRules` | The kexts each part of a machine calls for, over the whole dataset. |
| `KextLoading` | From the checked kexts to Kernel -> Add. |
| `AcpiPatches` | What each ACPI patch adds, renames and deletes; which are selected; the order of the renames. |
| `ConfigProdigy` | The sections of config.plist. |
| `MainMenu` | The menu, which composes all of these. |
| `MCMainMenu` | Eleven machines to run it on. |
| `Folding`, `FoldingProofs` | Loops over a sequence as functions (`Folded`, `Those`, `Joined`), and lemmas about them: induction over the numbers up to a bound, what a step keeps a loop keeps. |
| `EfiProofs` | Lemmas about the parts of an EFI: which keys a property can have, how renames are ranked, which patch may write an SSDT or rename a device, in which order `load_kexts` visits the bundles. |
| `MainMenuProofs` | Theorems about the menu, which rest on them, and lemmas about what it selects: what `check_kext` may do, which kexts the rules name, which cards are kept together, which versions are accepted. |

What extends what: `BuildApp` extends `BuildService`, and `CancelClicks` extends
`BuildApp`. `Datasets` is extended by
`Compatibility`, that by `HardwareCustomization`, that by `Smbios`, and there
the two halves of an EFI part: `AcpiPatches` extends `Smbios`; `KextRules`
extends `Smbios` and `KextData`, `KextLoading` extends `KextRules` and
`ConfigProdigy` extends `KextLoading`. `MainMenu` extends `ConfigProdigy` and
`AcpiPatches`. The loops of all of these are those of `Folding`, which
`Compatibility` and `KextData` extend. `KextSelection`, `GatherFiles` and
`Updater` stand alone: they take apart, step by step, what `MainMenu` has as one
step or leaves out.

### Build service

`MessageRouter.Handle` starts every handler on the thread pool, so handlers of
different requests interleave at every await, while one request runs its
handler and then its build in sequence. `pc[b]` is where request `b` stands;
each value between two awaits (or around the lock) is one action.

| Code | Action |
|---|---|
| acknowledgement (306) | `AckStart` |
| `lock (buildCtsLock)` of build:start (310-314) | `LockStart` |
| no SMBIOS (329-333), payload that throws (317-359), `Task.Run` (361) | `RefuseStart`, `StartThrows`, `SpawnBuild` |
| lock and answer of build:cancel (398-403) | `LockCancel`, `AnswerCancel` |
| stages of `BuildAsync` (59-105) | `MakeFolders`, `DownloadOpenCore`, `KextLoopCancelled`, `StartKext`, `FinishKext`, `KextsReady`, `GenerateConfig`, `GenerateUsbMap`, `PackageZip` |
| an exception in a stage that does not swallow it | `StageThrows` |
| build:complete, or build:error from either catch (377-392) | `ReportOutcome` |

A send waits until the web view takes the message (`MaxOutbox` bounds those
waiting). A handler that throws after its acknowledgement (`StartThrows`) sends no
terminal event: `EveryStartAnswered` counts it as ended, and `SpinnerStops` leaves it
out. The several progress messages of a stage are one message. What the
stages write is left out: a stage ends or throws. The kext loop keeps its
counter, because its head is the only place where a build looks at its token.
Every message carries the build it belongs to for the sake of the properties;
the wire has no such field and no action of the pages reads it, except to say
whose result was stored.

`BuildApp` adds what `BuildPage` keeps for itself (`isBuilding`, lost by an
unmount), what the context keeps (`buildProgress`, `buildResult`, and
`configured` for report, version and SMBIOS together), and the buttons each
combination shows. `asked` is a history variable: the last build:start posted.
`CancelClicks` adds another, `aimed`: the build that was on screen at each click
on Cancel. It has a module of its own because only one question needs it.

### Kext selection

`check_kext` calls itself for what a kext requires and unchecks the rivals of
the kext when it returns. Requirements are cyclic in the dataset, so a call may
uncheck a kext whose own call is still under way. `stack` holds the calls;
`Check`, `NextRequirement` and `FinishCheck` are the parts of one call. The
three loops that make outermost calls (`select_required_kexts`,
`smbios_specific_options`, the menu) run over `batch`. Which kexts a hardware
report or SMBIOS calls for is a choice among `HardwareKexts` and `SmbiosKexts`,
in any order and with repetitions up to `MaxBatch`. `mode = "start"` is a main
loop without a report, where an exception leads back to with the kexts as they
were. Typing `0` in the menu gives index -1: the loop ignores it (line 712), and
`verify_kext_compatibility` looks at the last kext of the dataset, which every
version supports, so it has no effect and is left out. No version of
`os_data.py` is a beta, so `smbios_specific_options` lets nothing unsupported
through. The BATP override is `Build`. `MainMenu.BuildOpencoreEfi` has it in its
place, between the download of the kexts and their installation.

### Gathering

`disk` outlives the program, `memory` does not. A folder of `OCK_Files` is the
set of its parts, each with the release it comes from, and its manifest is
absent, cut short, or a list of such parts. One action is one step between two
places where a kill leaves something different on disk:

| Code (`gathering_files.py` unless named) | Action |
|---|---|
| `read_file` of history.json (146-148) | `ReadHistory` |
| `update_download_database` (35-84) | `UpdateDatabase` |
| `continue` of the loop (157-158, 189-192, 199-200) | `SkipProduct` |
| history and manifest looked at (203-214) | `CheckRecorded`, `NotRecorded` |
| `download_and_save_file` (231-237; `resource_fetcher.py` 158-194) | `Downloaded`, `DownloadFails` |
| `create_folder(remove_content=True)` (240; `utils.py` 89-95) | `WipePart`, `WipeManifest`, `Wiped` |
| OcBinaryData missing (259-265) | `NoOcBinaryData` |
| `move_bootloader_kexts_to_product_directory` | `MovePart` |
| `generate_folder_manifest` (270) | `OpenManifest`, `WriteManifest` |
| `_update_download_history` (271) | `OpenHistory`, `WriteHistory` |
| what the main menu does next (`OpCore-Simplify.py` 451-460) | `Build`, `ReportError` |

`Abandon` is a kill at any of these steps, and also an exception raised in one
(a failed fetch of the indexes, an archive that does not extract): either way
the menu comes next and the disk stays as it was. An archive with a checksum is
whole when it is accepted; one without that is cut short fails to extract,
which comes before the folder is emptied (239, 240).

`UpdateDatabase` shows an aliasing: `download_history.copy()` copies the list,
not its items, so bringing an item of the database up to date also changes what
the history is about to be compared with. Products are what `product_name`
becomes in lines 162 to 181, so several kexts can have one. The plugins of VirtualSMC
fall back on the entry of their repository (183-187) and share its product:
VirtualSMC comes first in the dataset and is always checked. A product
without a download URL (222-228) is left out, since every entry of the database
is made with one. `Damage` happens at the menu only: nobody is assumed to edit
`OCK_Files` while the program fills it. `fetched` and `said` serve the properties.

### Updater

`files`, `sha` and the history variable `failed` outlive the program, the rest
does not. A commit is its number on the main branch, `Push` adds one at any
time, and a file is the commit it was installed from.

| Code (`updater.py` unless named) | Action |
|---|---|
| start of `__main__` (`OpCore-Simplify.py` 469-472) | `Launch`; `Restart` for its `os.execv` |
| `get_current_sha_version` | `ReadCurrent`, `ReadFails` |
| `get_latest_sha_version` and the comparison | `FetchLatest`; `FetchFails`, then `Skip` or `ForceUpdate` |
| `download_update` | `Download`, `DownloadFails` |
| `update_files` | `Replace`, `ReplaceFails`, `Replaced`, `ReplaceAborts`, `KillDuringMove` |
| `save_latest_sha_version` | `OpenSha`, `WriteSha`, `SaveFails` |
| Ctrl-C, a kill, an exception outside a `try` | `Kill`; `Quit` for Q in the menu |

The archive is that of the main branch at the time of the download, which may be
newer than the commit compared. `shutil.move` may leave its target untouched or
cut short. `write_file` empties `sha_version.txt` before it writes it.

### Main menu and what it composes

The command-line program has one thread. A menu option is one action of
`MainMenu`: its inputs are the answers of the user and what the files hold, and
everything the option calls is part of it. Options that end in a prompt at which
the user can go another way are split there (`at`).

| Code (`OpCore-Simplify.py` unless named) | Action |
|---|---|
| option 1: `select_hardware_report`, `check_compatibility`, the choices of devices, version, model, patches and kexts (409-419) | `SelectHardwareReport`; `RefuseHardwareReport` when a check ends the process; `HardwareReportRaises` |
| option 2, also behind a declined warning (421-434, 443-449) | `SelectMacosVersion` |
| options 3, 4, 5 (435-441) | `CustomizePatchSelection`, `KextConfigurationMenu`, `CustomizeSmbiosModel` |
| option 6: the warning (442-449) | `ChooseBuild`, `AcceptOclp` |
| its downloads (451-457) | `GatherBootloaderKexts`, all of `GatherFiles` as one outcome |
| `build_opencore_efi`, `before_using_efi` | `BuildOpencoreEfi`, `BeforeUsingEfi` |
| `except Exception` of `__main__` (475-482) | `MainAgain`, a part of the options that can raise |
| Q at a prompt | `ExitProgram` |

What `main()` keeps in local variables (`locals`) is lost when an option raises;
what its objects hold (`stored`: the loaded tables, the pre-patches found while
loading them, the checked patches and kexts) stays. That is why the properties
speak of a report and of tables that may have been loaded for another one.

- `Compatibility` has the ranges of every kind of device, with the bounds and
  the exceptions of the code; the graphics cards are gone through twice, as
  there, and are not looked at when a report has none. A range is
  `<<newest, oldest>>`. Which devices a table names is a
  matter of the table: an id is its list in `pci_data.py` and its position,
  because the code slices those lists by position.
- `HardwareCustomization` offers the groups and combinations of cards and keeps,
  disables or drops what was not chosen. `needs_oclp` is what was patched before
  the choice, not after it.
- `KextRules` names the kexts in the order of the code, since rivals make the
  order matter: the last one named stays. `answer` holds what the user is asked.
- `KextLoading` takes `Bundles`, what the downloads hold, as a constant: it
  installs, orders, restricts to versions and disables bundles. `visit` calls
  itself for what a bundle links to; `Visit` has one more level for each call
  inside another, and `MaxLinks` bounds the links that follow on one another
  (`Settled`), which real kexts have two or three of.
- `AcpiPatches` has every patch of the class. A table is the set of what the
  patches look for in it; what is in an SSDT is left out, but not whether it
  compiles: `Refusable` are the SSDTs that iasl may refuse. A rename is named by
  its comment, in two parts (the device, what becomes of it), and an SSDT by the
  parts its file name is put together from. `CommentOrder` lists the comments as
  `sorted` orders them.
- `ConfigProdigy` keeps every switch that depends on the machine, the model, the
  version or the kexts. Constant values and the numbers of audio layouts are
  left out.
- In `BuildOpencoreEfi` the three meet: BATP decides about ECEnabler, Disable
  Devices marks the cards that the configuration then leaves alone, the renames
  of the patches and those found while loading the tables are ordered together.

The prompts' texts, what is printed, and the retries of an invalid input are
left out. `edits` counts the changes by hand since the last selection; the
properties about what the program selects ask for none.

## Runs

| Run | Shows | Instance |
|---|---|---|
| build_service | type, one live token, order of messages, cancellation sticks, every request answered, `LatestBuild` implemented | two starts, one cancel, a kext loop of two turns, two messages in flight |
| build_app | the page and the service agree through any clicks: one build outstanding, spinner, result; only a cancel handler cancels a running build | two starts, two cancels, one kext, two messages |
| kext_selection | rivals, required kexts, unsupported kexts, closure of the automatic selection, plugins toggled in one line, termination | nine kexts, three versions, batches of up to two |
| gather_files | what verifies is whole, what was gathered is whole, nothing is lost before its replacement is there | one archive of two kexts and OpenCorePkg, two parts, two releases |
| cancelled_build | a violation: a build completes after its cancel was answered | one start, one cancel, one kext, two messages |
| lost_result | a violation: a result nobody listened to | two starts, one cancel |
| stale_release | a violation: an older release reported as the latest | as gather_files |
| cut_manifest | a violation: a manifest cut short ends the gathering | as gather_files |
| updater | no recorded commit is newer than the files | two files, three commits |
| endless_update | a violation: an update follows an update for ever | two files, two commits |
| main_menu | the tables are those of the report; the warning precedes the root patch; no NootRX beside Intel graphics; audio and disabled cards configured once; Kernel -> Add in order; renames in order and with their SSDT; which cards are offered | eleven machines, three versions typed in and the suggested one, one change by hand, two SSDTs that may not compile |
| card_left_on | a violation: a disabled card stays on | the laptop with a card to power off, one change by hand, two SSDTs that may not compile |

Why these bounds are enough to be interesting. Two starts let one supersede the
other and be retried after it; a third would meet the same slot in the same
ways. Two turns of the kext loop tell "before the last turn" from "during it".
Two messages in flight let a terminal event queue behind progress and block a
sender. The kexts of `MCKextSelection` have every shape of the dataset: a
required kext at index 0, two that require each other and of which one has a
rival, a requirement that two plugins share, kexts that later versions dropped (in three steps,
so that a requirement can be unsupported while its dependant is supported).

Two parts of a folder tell empty, partial and whole apart, two releases let parts
of both meet, and with OpenCorePkg beside a kext the history is written while
another product's entry is stale. Kills are not bounded.

Three commits let one be pushed after the comparison and another after the
download; two files let a replacement succeed and another fail. The machines of
`MCMainMenu` were chosen so that the modules meet: audio on Tahoe, devices
patched by OpenCore Legacy Patcher, a card to power off with and without a table
that can, both Intel and Navi 22 graphics, an APU before a card, no card at all, a DSDT that needs pre-patches, clocks
of every kind, a controller on each bus, a processor the program refuses. One
change by hand after a selection is enough for the properties, which relate a
selection to the build after it. The bundles are in reverse order, so that the
order in Kernel -> Add is the program's doing. The run has some 41,000 states;
what is large in it is the work of a step, not their number.

`main_menu` and the runs of the same module disable the deadlock check, because the
program exits.
`build_service` does too: there the client may have posted all
its requests, and the service then has nothing left to do. In the other runs
the user can always do something.

### Fairness

- Each handler and each build: the thread pool runs what is queued, and every
  download ends, since `HttpClient` times out (100 s) and the retries are
  bounded. A response body that stalls for ever is assumed not to occur.
- The dispatch of messages: the web view runs its queue.
- `Program` of `KextSelection`: the program runs on between inputs.
- `GatherFiles` and `MainMenu`: none, their properties are safety only.
- `Updater`: weak fairness of `Program`, the steps of a program that runs on and
  whose requests time out; they may fail each time. Nothing says that a file that
  could not be written once can be written later, so nothing is assumed of it, and
  `UpdateSettles` fails (`endless_update`). Nobody has to push or to answer.
- The user and the client: none. No property needs anyone to click.

### What the violations say

- **cancelled_build.** A build completes though its cancel was answered with
  "build:cancelled", in two ways of the same length; TLC stops at one of them.
  `ThrowIfCancellationRequested` at the head of the kext loop is the only place
  where a build notices its cancellation: later stages ignore the token and the
  downloads swallow its exception, so a build cancelled after the last turn, or a
  build without kexts, goes on to write its zip. And build:start sends its
  acknowledgement before it takes the lock: a build:cancel handled in between finds
  the token source of an earlier build or none, and the build it was meant for then
  makes its own and goes on. The page has taken its spinner away by then. (With a
  cancel counted only while its build is not in `cancelled`, the same run shows the
  second way.)
- **lost_result.** Only a mounted `BuildPage` listens to build:complete. The
  sidebar leads away from it during a build, and the result is lost, while the
  progress of that build stays on screen with no button to start another.
- **stale_release.** Because of the aliasing, a recorded product always has "the
  latest id": while its folder verifies it is never downloaded again, whatever
  the indexes list.
- **cut_manifest.** `write_file` truncates before it writes and `read_file` raises
  on what it cannot parse. A kill in between makes every later gathering of
  that product fail. history.json has the same weakness, for all products.
- **endless_update.** `run_update` prints that the version could not be saved and
  returns True all the same. The program is executed again, finds the old commit
  recorded and updates again. Where `sha_version.txt` cannot be written, as in a
  folder without the right to, the program never reaches its menu.
- **card_left_on.** `disable_unsupported_device` marks a card before `write_ssdt`
  says whether iasl compiled its SSDT, and the configuration writes no disable-gpu
  for a marked card, so nothing switches it off. The mark also stays when the patch
  is unchecked after a build: with `Refusable = {}` the run finds the second build
  without either.

What else the modules show to be as a reader of the code may not expect, without a
run of its own:

- A kext that a selected plugin needs is dropped when another plugin of it is
  deselected in the same line, against the note under the menu. `PluginHasItsKext`
  makes that exception and no other.
- An APU that the report lists before another usable card is in no group, because
  `if _apu_index` is false of the position 0, and is always disabled.
  `EveryCardOffered` says that this is the only card ever withheld.
- needs_oclp follows the automatic selection. AppleALC checked in option 4 needs the
  same root patch on Tahoe, but there is no warning and the configuration is written
  without what the root patch needs; `AudioWarned` is about selections without a
  change by hand.
- The renames are sorted by their comments, and "EC _STA to XSTA Rename" sorts
  before "EC to EC0", which by its own comment must come first (`CommentOrder`).

## Proofs

TLAPS proves, for every value of the constants under these assumptions, each of
which TLC evaluates in a run:

- `ServiceAssumption`, `GatherAssumption`, `UpdaterAssumption`: the bounds are
  numbers, there are files and parts of files, and the marker for no build is no
  build, nor OpenCorePkg a kext.
- `KextAssumption`, `RequirementAssumption`: what the theorems about the kexts need
  of the dataset. A required kext has no rivals and requires only required ones;
  no kext brings a rival of its own with it, through any chain of requirements;
  nothing requires ECEnabler. `kext_data.py` is such a dataset, all of it:
  `DatasetAssumption` of `MCMainMenu` computes that from `KextInfo`.
- `MenuAssumption`: within a report, devices have names of their own (the report is a
  dictionary of names); at most one device of each kind is asked about; pre-patches
  are those of `ACPIGuru.__init__`.
- `ReportAssumption`: a report has its ten lists of devices (the schema of
  `report_validator.py`, with an absent one as the empty list), each of the kind it
  is for, and a Navi 22 is a card of AMD.
- `KextListAssumption`, `HardwareAssumption`, `ModelAssumption`: the kexts that the
  dataset's kexts require, and those that the rules name, are in the dataset, and
  no kext is a rival of a required one; nothing requires NootRX or AppleALC; the
  models of select_smbios_model are in `mac_model_data.py`. TLC evaluates these on
  the whole dataset, so they are facts about the tables, not about an instance.
- `BundleAssumption`: the links between the downloaded bundles end, no two bundles
  have one path, and what links to a bundle that load_kexts unloads is unloaded
  with it. The last is what the pairs in lines 529-544 are chosen for; a
  download that broke it would leave a link without its library.

| Theorem | Argument |
|---|---|
| `ServiceTypeCorrect` | `TypeInv` adds that the body of the kext loop is entered within bounds, without which the counter's type is not inductive. |
| `OneLiveTokenHolds` | `OneLiveToken` is inductive over the lock steps; every other step leaves `buildCts` and `cancelled` alone and moves `pc` on the same side of the lock. |
| `CancelSticksHolds` | `BuildInv` relates `outcome` to `pc`: a request has an outcome only once it is unwound. |
| `MessagesInOrderHolds` | `OrderInv` bounds the rank of a message in the outbox by the rank its request has reached (`Sent`); every step that sends raises it in order. |
| `ImplementsLatestBuildSafety` | each step maps to `Accept`, `Answer`, `Revoke` or a stutter of `LatestBuild`, with `OneLiveToken` for the step that revokes. |
| `KextTypeCorrect` | the stack stays within the requirements of each call. |
| `OneOfEachGroupHolds`, `RequiredStayCheckedHolds`, `UnsupportedAreForcedHolds` | `SelectionInv`, their conjunction with the type and with the fact that `allow` implies `forced`. |
| `AutomaticSelectionIsClosedHolds` | `ClosureInv`. A requirement may be missing while the call that is to check it runs, and a call that returns unchecks what others have checked, so the property is far from inductive. What holds all along: the kext of every running call is checked and is brought in by the calls below it (`CallsAreChecked`), and each requirement of a checked kext is met, or excused, or a running call for that kext has not come to it (`RequirementsMet`). A call that returns leaves its kext in place of the rivals it unchecks, so what they were good for stays excused; that it does not uncheck the kext of a call below is `RequirementAssumption`. |
| `GatherTypeCorrect`, `VerifiedIsWholeHolds`, `GatheredIsWholeHolds`, `ReplacedOnlyByDownloadHolds` | `GatherInv`: a written manifest lists a whole release (`ManifestInv`), because the step that writes it knows its folder (`StepInv`); what has been looked at is whole but for the current product, and what is wanted was looked at or is still queued (`SeenInv`). |
| `AppTypeCorrect`, `OneBuildOutstandingHolds`, `SpinnerHasBuildHolds`, `ResultIsOfAskedBuildHolds` | Every step of the application is one of the service (`AppIsService`), so `ServiceInv` carries over. `PageInv` adds: what the page listens to comes from an outstanding build (`HeardIsOutstanding`); while a build is outstanding it is the one asked for, no result is held and a stage is on screen (`OutstandingIsAsked`), which hides both the start and the retry button; a result hides them too (`ResultIsShown`). That a terminal message is the last of its build, `MessagesInOrder`, is what makes its dispatch the end of the build for the page. |
| `OnlyUserCancelsHolds` | `SlotIsAccepted`: what `buildCts` holds was accepted, so when the next build:start finds it there it is another build than the one outstanding (`OneBuildOutstanding`), hence over (`SupersededIsOver`). The step that cancels a build that is not over is then that of a cancel handler. |
| `UpdaterTypeCorrect`, `NothingOlderThanRecorded` | `UpdaterInv` follows `run_update`: what was compared is no newer than the branch, the archive no older than what was compared and what is recorded, and every file gone through is of the archive unless its replacement failed. |
| `TablesOfReportHolds` | `TablesOfReport` is inductive: tables are read only for the report selected in the same step, or for the one selected before, and an option that raises forgets the report. |
| `AudioOnceHolds` | Nothing but `DeviceProperties` writes "layout-id": the lemmas `Lacks...` go through the properties of every kind of card and device. So that key is there exactly under the condition under which it is written, and the boot argument is added exactly when it is missing. |
| `OsiRenamedLastHolds` | `ApplyAcpiPatches` puts at place i the rename with i-1 others before it in `CommentOrder` (`Ranked`, `RenamesInOrder`), so the order of the renames is that of their comments, whichever were found; the comment of _OSI sorts after those of OSID and OSIF. |
| `ClockRenamedWithSsdtHolds` | No other patch renames a clock (`Elsewhere...`, one lemma for each group of patches), nor does a pre-patch; the AWAC patch renames one only beside its SSDT, and none if iasl refuses it (`ClockPatch`). `MenuInv` says that the menu and the tables bring in known patches and pre-patches only. |
| `PoweredOffOnceHolds` | The key "Disabled" stays on a device from one build to the next. `MarkedInv`: it is only on cards that the SSDTs of this report can switch off. Only Disable Devices writes such a file, whose name determines the card if no other disabled card is behind its port, and a file that was not refused is enabled (`DisablingSsdts`, `BuiltSsdts`); the build that writes it marks the card. A card has "disable-gpu" exactly when it lacks the key (`OffProperty`). The theorem is about cards with ports of their own (`OwnPortCards`): the SSDTs of two disabled cards behind one port have the same file name. That one of the two always switches a card off, `DisabledCardsOff`, is false (run `card_left_on`), which is why the second part has its conditions. |
| `DevicesWarnedHolds` | `WarnedInv`: a customization with a patched device comes with `needsOclp`. The selection of kexts may set the flag but never clears it (`SelectionKnown`), and every option that replaces the customization takes the flag of the same selection, or raises and forgets both. |
| `KernelAddInOrderHolds` | A bundle all of whose links end within n steps is placed by any call of `visit` with n levels below it, after what it links to (`VisitedPlaces`, `VisitPlaces`: induction over the levels, along `Settled`). The loop over the bundles keeps an order in which each place comes after those it needs (`LoadOrderInOrder`); `LoadKexts` then enables the first bundle with an identifier, and the first one is never after the one that was needed (`KernelOfOrder`). |
| `EveryCardOfferedHolds` | Every card but an AMD integrated one at the first place is in a group, and that one is in none (`GroupedUnlessFirst`). A card alone is a combination of its group, and since the cards between which there is a choice have names of their own (`CompatibleNames`, from `ThoseDistinct` and `MenuAssumption`), no other card's name stands for the one that is left out. |
| `NootRXWithoutIntelHolds`, `AudioWarnedHolds` | `SelectInv`: while nothing is changed by hand, the checked kexts suit the machine (`Suits`), whichever options led there. For a new selection that is `SelectionsSound`, in four parts. (1) check_kext, however deep it goes through cyclic requirements and rivals, checks neither NootRX nor AppleALC unless the outermost call is for it, and unchecks no required kext (`CheckKextAllowed`, by induction over the levels of calls; `CheckKextsAllowed` for the loops). (2) Of the rules only the one for graphics cards names NootRX, for a Navi 22 or as an answer that is offered without an Intel card (`GpuNames`), and only the one for audio names AppleALC (`AudioNames`); `Others` are all the other names. (3) With a Navi 22 no Intel card is kept: two cards that are kept were in one of the groups offered (`SelectedTogether`, `GroupedApart`, `KeptApart`). (4) The flag of the selection is set when AppleALC is named for Tahoe (`SelectionAnswer`). The build changes ECEnabler only, which is neither (`SelectBuilt`), and `edits` is positive after any change by hand (`SelectEdited`). |
| `MainMenuTypeOKHolds` | `SelectInv` again: an accepted version lies within the versions there are, because every range that the checks of the devices and the second pass over the graphics cards come to does (`GpuPassType`, `CheckedRanges`, `AcceptedBounds`), and so does the suggested one (`SuggestedType`); what is kept was not disabled before the choice (`CustomizationsType`); every branch of select_smbios_model ends in a model of the list (`ModelSelected`). `MarkedInv` gives the marked cards, `MenuInv` the patches, and `StoredInv` the tables and that an EFI is offered exactly in the state after its build. |

The theorems about the menu hold for any machines within `MenuAssumption` and
`ReportAssumption`, any tables, bundles and choices, not only the eleven
machines of the run. The
properties of an EFI need looking at only where `BuildOpencoreEfi` ends, since no
other step leaves an EFI behind (`BuiltByBuild`).

What the folds and the recursive functions compute is proved by induction over
data in a form that the provers take. `FoldingProofs` derives from the
well-foundedness of the numbers that a set with 0 that is closed under the next
number holds all up to a bound (`SetInduction`, `RangeInduction`), that a
recursive function over such a range exists and obeys its equation
(`RecursionExists`), and from these that a loop keeps what each of its steps
keeps (`FoldedKeeps`, `FoldedType`). The steps of the loops and the calls
(`Folded`, `Checking`, `Visit`) are functions rather than operators, so that
these lemmas can be cited for them.

Only model-checked:

- Liveness (`EveryStartAnswered`, `SpinnerStops`, `SelectionEnds`, the fairness of
  `LatestBuild`), which the prover has no reach of. The
  invariants and action properties that the passing runs check are proved but for one:
- `PluginHasItsKext`, which would need an invariant about what each kext of the line
  that is being gone through has left checked.
- That the assumptions hold of the dataset (`KextAssumption` to `ModelAssumption`),
  which TLC computes.

## Not modelled

- **USB mapper** (`Core/UsbMapper/`, `UsbMapperPage.tsx`). Its hazards (handlers
  on the thread pool over lists without a lock, indexes into a list that a merge
  re-sorts, a kext built while ports are toggled) are listed and come next.
- **Message bridge** apart from the messages of a build: `invoke` with its
  timeout, `on` with its subscriptions.
- **The application's downloads** (`DownloadService.cs`,
  `FileGatheringService.cs`), and the download of the sniffer in the
  command-line program.
- **The application's services for ACPI, kexts, configuration, SMBIOS and
  compatibility.** They are ports of the command-line classes without state
  between calls; `BuildService` has them as stages that end or throw. The
  command-line modules are not claimed to describe them.
- **`dsdt.py` and the text of the SSDTs**: searching disassembled tables is string
  processing, and a table is modelled by what is found in it.
- **`modify_kexts`, macserial, the ROM address, codec layouts by number**: edits of
  other projects' property lists, random data and constants.
- **Report validation, Wi-Fi profiles, the sniffer**: checks of types field by
  field, and the operating system's answers.
- **The remaining pages** keep no state but their part of the context.

## Plan

1. `UsbMapper`: scan, merge, toggle, save and build, with the page's list apart
   from the service's.
2. `Bridge`: invocations, their timeout and subscriptions.
3. `Download`: retries and cancellation of the application's downloads.
4. Proofs: that a selection is closed under requirements in `MainMenu` too, as
   `KextSelection` has it, for which `Allowed` has to say what a call adds.
