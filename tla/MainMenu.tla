------------------------------ MODULE MainMenu ------------------------------
(***************************************************************************)
(* OCPE: the main menu of the command-line program, which composes         *)
(* compatibility checking, hardware customization, the SMBIOS model, the   *)
(* ACPI patches, the kexts and config.plist into the EFI of option 6.      *)
(*                                                                         *)
(* The program has one thread: a menu option is one action, its inputs are *)
(* what the user answers and what the files hold.  What main() keeps in    *)
(* local variables is lost when an option raises, and main starts again;   *)
(* what the patches, the kexts and the ACPI tables hold stays.             *)
(***************************************************************************)
EXTENDS ConfigProdigy, AcpiPatches

CONSTANTS
    Reports,         \* the hardware reports, with the ACPI tables of their machines
    VersionChoices,  \* the macOS versions a user types in
    OfferedPatches,  \* the ACPI patches a user toggles
    OfferedKexts,    \* the kexts a user toggles
    OfferedModels,   \* the Mac models a user changes to
    Refusable,       \* the SSDTs iasl may refuse
    MaxEdits         \* bound on the changes by hand since the last selection

NoReport == "none"

\* The lists of a report.
ReportLists ==
    {"gpus", "sound", "biometric", "network", "storage", "bluetooth", "sd", "inputs", "system", "usb"}

\* A report has names of its own for its devices, and at most one device of each kind that
\* the kext selection asks about.
ASSUME MenuAssumption ==
    /\ OfferedPatches \subseteq AllPatches /\ OfferedKexts \subseteq AllKexts \ RequiredKexts
    /\ OfferedModels \subseteq MacModels /\ MaxEdits \in Nat /\ VersionChoices \subseteq Nat
    /\ NoReport \notin DOMAIN Reports
    /\ \A r \in DOMAIN Reports :
          LET devices == Reports[r].gpus \o Sections(Reports[r])
              asked == {d \in ToSet(devices) :
                           \/ d.kind = "GPU" /\ d.codename \in {"Navi 21", "Navi 23"}
                           \/ d.kind = "Network" /\ d.id \in IntelWiFiIDs}
          IN  /\ \A i, j \in DOMAIN devices : devices[i].name = devices[j].name => i = j
              /\ \A d, e \in asked : d.kind = e.kind => d = e
              /\ Reports[r].prePatches \subseteq PrePatches

\* What a report holds: lists of devices of the kinds they are for.  A Navi 22 is AMD's.
ASSUME ReportAssumption ==
    \A r \in DOMAIN Reports :
        /\ ReportLists \cup {"uefi", "patched"} \subseteq DOMAIN Reports[r]
        /\ \A part \in ReportLists : Reports[r][part] \in Seq(ToSet(Reports[r][part]))
        /\ \A d \in ToSet(Reports[r].gpus) : d.kind = "GPU" /\ (d.codename = "Navi 22" => d.maker = "AMD")
        /\ \A d \in ToSet(Sections(Reports[r])) :
              d.kind \in {"Sound", "Biometric", "Network", "Storage", "Bluetooth", "SD"}

VARIABLES
    at,              \* what the program waits for, or does
    hardwareReport,  \* hardware_report
    macosVersion,    \* macos_version
    customization,   \* customized_hardware and disabled_devices
    smbiosModel,     \* smbios_model
    needsOclp,       \* needs_oclp
    poweredOff,      \* the disabled devices with the key "Disabled"
    acpiTables,      \* the report whose machine the loaded ACPI tables are of
    dsdtPatches,     \* dsdt_patches
    checkedPatches,  \* the checked ACPI patches
    checkedKexts,    \* the checked kexts
    efi,             \* the EFI in the results folder, while its folder is offered
    edits            \* changes by hand since the last selection

locals == <<hardwareReport, macosVersion, customization, smbiosModel, needsOclp, poweredOff>>
stored == <<acpiTables, dsdtPatches, checkedPatches, checkedKexts>>
vars == <<at, locals, stored, efi, edits>>

NoModel == "none"
NoChoice == [kept |-> {}, disabled |-> {}, patched |-> {}, oclp |-> FALSE, uefi |-> TRUE]
NoEfi == [ssdts |-> {}, renames |-> <<>>, deletes |-> {}, kernel |-> <<>>, config |-> <<>>]

Machine == Customized(Reports[hardwareReport], customization)

Init ==
    /\ at = "menu"
    /\ hardwareReport = NoReport /\ macosVersion = NoVersion /\ customization = NoChoice /\ smbiosModel = NoModel
    /\ needsOclp = FALSE /\ poweredOff = {}
    /\ acpiTables = NoReport /\ dsdtPatches = {} /\ checkedPatches = {} /\ checkedKexts = RequiredKexts
    /\ efi = NoEfi /\ edits = 0

-----------------------------------------------------------------------------
(* select_macos_version.                                                   *)

\* The version offered by default: the newest one, lowered to what the graphics,
\* network, Bluetooth and card reader devices have.
SuggestedVersion(hardware, check) ==
    LET Lower(device, suggested) ==
            CASE device.kind # "GPU" -> suggested
              [] device.kind = "GPU" /\ ~device.integrated -> suggested
              [] OTHER ->
            CASE device.maker = "AMD" \/ device.prefix = "59" \/ device.id = "87C0" -> Darwin(22, 99, 99)
              [] device.maker # "AMD" /\ device.prefix \in {"09", "19"} -> Darwin(21, 99, 99)
              [] OTHER -> suggested
        devices == hardware.gpus \o hardware.network \o hardware.bluetooth \o hardware.sd
    IN  Folded([suggested \in Nat |-> [d \in ToSet(devices) |->
                  IF check.compat[d.name] \in {Absent, Unsupported} THEN suggested
                  ELSE Older(Lower(d, suggested), check.compat[d.name][1])]],
               check.native[1], devices)

\* The prompt repeats until one of these is entered.
AcceptedVersions(hardware, check) ==
    {v \in VersionChoices \cup {SuggestedVersion(hardware, check)} :
        \/ check.patched # Absent /\ InRange(v, check.patched)
        \/ InRange(v, check.native)}

-----------------------------------------------------------------------------
(* What options 1 and 2 select for a version.  A selection raises "model"  *)
(* when the Mac model cannot be selected, and "patches" when the ACPI      *)
(* patches cannot, which option 2 does not select.                         *)

Raises(machine) ==
    CASE SelectRaises(machine) -> "model"
      [] ~SelectRaises(machine) /\ PatchSelectionRaises(machine) -> "patches"
      [] OTHER -> "no"

\* The kexts checked for those that are named, with the incompatible ones or without.
KextChoices(named, version) ==
    {SelectRequiredKexts(named, version, allow) : allow \in {FALSE, AsksToForce(named, version)}}

\* The selections for one customization.  `batp` is whether BATP is checked then, and
\* smbios_specific_options adds the kexts of the model and sets MCHC.
SelectionsFor(name, v, custom, machine) ==
    LET raised == Raises(machine)
        model == IF raised = "model" THEN NoModel ELSE SelectSmbiosModel(machine, v)
        patches == IF raised = "no"
                   THEN SelectAcpiPatches(machine, DisabledDevices(Reports[name], custom)) ELSE {}
        Named(answer, batp) ==
            NamedKexts(machine, v, custom.oclp, IF batp THEN {"BATP"} ELSE {}, answer)
        Selection(batp, oclp, kexts) ==
            [report |-> name, version |-> v, choice |-> custom, raised |-> raised, model |-> model,
             mchc |-> raised # "model" /\ NeedsMchc(machine, model), batp |-> batp, oclp |-> oclp,
             kexts |-> kexts, patches |-> patches]
        Chosen(answer, batp) ==
            {Selection(batp, custom.oclp \/ AudioNeedsOclp(machine, v, answer),
                       CheckKexts(SmbiosKexts(model), kexts, v, FALSE)) :
                kexts \in KextChoices(Named(answer, batp), v)}
    IN  IF raised = "model" THEN {Selection(batp, FALSE, {}) : batp \in BOOLEAN}
        ELSE UNION {Chosen(answer, TRUE) \cup Chosen(answer, FALSE) : answer \in Answers(machine, v)}

SelectionsFrom(name, check) ==
    UNION {UNION {SelectionsFor(name, v, custom, Customized(Reports[name], custom)) :
                     custom \in Customizations(Reports[name], check, v)} :
              v \in AcceptedVersions(Reports[name], check)}

SelectionsOf(name) ==
    UNION {SelectionsFrom(name, check) : check \in {CheckCompatibility(Reports[name])}}

ReportsWith(verdict) == {r \in DOMAIN Reports : CheckCompatibility(Reports[r]).verdict = verdict}
RefusedReports == ReportsWith("exit")
RaisingReports == ReportsWith("raise")
AllSelections == UNION {SelectionsOf(r) : r \in ReportsWith("checked")}

-----------------------------------------------------------------------------
\* What main() keeps.
Forget ==
    /\ hardwareReport' = NoReport /\ macosVersion' = NoVersion /\ customization' = NoChoice
    /\ smbiosModel' = NoModel /\ needsOclp' = FALSE /\ poweredOff' = {} /\ edits' = 0

\* The exception handler of the program: main starts with new local variables.
MainAgain == at' = "menu" /\ Forget

\* The end of the process, with which its objects go too.
EndProcess ==
    /\ at' = "exited" /\ Forget
    /\ acpiTables' = NoReport /\ dsdtPatches' = {} /\ checkedPatches' = {}
    /\ checkedKexts' = RequiredKexts /\ efi' = NoEfi

Edit == edits < MaxEdits /\ edits' = edits + 1

\* read_acpi_tables on the tables of a report's machine, or on something that has no
\* tables.  A DSDT that needs pre-patches sets dsdt_patches, even when it stays
\* unreadable; nothing else resets them.
ReadAcpiTables(name, loaded) ==
    /\ acpiTables' = IF loaded THEN name ELSE NoReport
    /\ \/ Reports[name].prePatches = {} /\ UNCHANGED dsdtPatches
       \/ Reports[name].prePatches # {} /\ dsdtPatches' = Reports[name].prePatches
       \/ ~loaded /\ Reports[name].prePatches # {} /\ UNCHANGED dsdtPatches

Checked(selection, selected) ==
    (selected \ {"MCHC"}) \cup (IF selection.mchc THEN {"MCHC"} ELSE {})

\* Variant: the warning of the selection before is kept.
SelectedAsWarned(selection) ==
    /\ at' = "menu" /\ macosVersion' = selection.version /\ customization' = selection.choice
    /\ smbiosModel' = selection.model /\ UNCHANGED needsOclp /\ checkedKexts' = selection.kexts
    /\ poweredOff' = {} /\ edits' = 0

Selected(selection) ==
    /\ at' = "menu" /\ macosVersion' = selection.version /\ customization' = selection.choice
    /\ smbiosModel' = selection.model /\ needsOclp' = selection.oclp /\ checkedKexts' = selection.kexts
    /\ poweredOff' = {} /\ edits' = 0

\* Option 1.  check_compatibility may end the program, or raise when the tables of the
\* report before have been dropped.
RefuseHardwareReport == at = "menu" /\ RefusedReports # {} /\ EndProcess

HardwareReportRaises ==
    /\ at = "menu"
    /\ \/ RaisingReports # {} /\ acpiTables' = NoReport /\ UNCHANGED dsdtPatches
       \/ \E s \in AllSelections, loaded \in BOOLEAN :
             \/ s.raised = "model" /\ acpiTables' = NoReport /\ UNCHANGED dsdtPatches
             \/ s.raised = "patches" /\ ReadAcpiTables(s.report, loaded)
    /\ MainAgain
    /\ UNCHANGED <<checkedPatches, checkedKexts, efi>>

\* Variant: the tables stay when those of the new report cannot be read.
KeepHardwareReport ==
    /\ at = "menu"
    /\ \E s \in AllSelections, loaded \in BOOLEAN :
          /\ s.raised = "no" /\ s.batp = ("BATP" \in s.patches)
          /\ hardwareReport' = s.report
          /\ IF acpiTables = NoReport THEN ReadAcpiTables(s.report, loaded)
             ELSE UNCHANGED <<acpiTables, dsdtPatches>>
          /\ checkedPatches' = Checked(s, s.patches)
          /\ Selected(s)
    /\ UNCHANGED efi

\* The tables are asked for until they are loaded or have been asked for twice.
SelectHardwareReport ==
    /\ at = "menu"
    /\ \E s \in AllSelections, loaded \in BOOLEAN :
          /\ s.raised = "no" /\ s.batp = ("BATP" \in s.patches)
          /\ hardwareReport' = s.report
          /\ ReadAcpiTables(s.report, loaded)
          /\ checkedPatches' = Checked(s, s.patches)
          /\ Selected(s)
    /\ UNCHANGED efi

\* Option 2, and what a declined warning does: all but the ACPI patches is selected again.
SelectMacosVersion ==
    /\ at \in {"menu", "warning"} /\ hardwareReport # NoReport
    /\ \E s \in AllSelections :
          /\ s.report = hardwareReport /\ s.batp = ("BATP" \in checkedPatches)
          /\ \/ s.raised = "model" /\ MainAgain /\ UNCHANGED <<checkedPatches, checkedKexts>>
             \/ /\ s.raised # "model" /\ checkedPatches' = Checked(s, checkedPatches)
                /\ Selected(s) /\ UNCHANGED hardwareReport
    /\ UNCHANGED <<acpiTables, dsdtPatches, efi>>

-----------------------------------------------------------------------------
\* Options 3, 4 and 5, one change at a time.
CustomizePatchSelection ==
    /\ at = "menu" /\ hardwareReport # NoReport /\ Edit
    /\ \E patch \in OfferedPatches :
          checkedPatches' = IF patch \in checkedPatches THEN checkedPatches \ {patch} ELSE checkedPatches \cup {patch}
    /\ UNCHANGED <<at, locals, acpiTables, dsdtPatches, checkedKexts, efi>>

\* Variant: a required kext goes with one that needs it.
UncheckWithRequired(kext, checked) == checked \ ({kext} \cup ToSet(KextInfo[kext].requires))

\* The dataset's requirements of a kext go with it, those it is required by stay.
UncheckKext(kext, checked) == checked \ ({kext} \cup (ToSet(KextInfo[kext].requires) \ RequiredKexts))

KextConfigurationMenu ==
    /\ at = "menu" /\ hardwareReport # NoReport /\ Edit
    /\ \E kext \in OfferedKexts, allow \in BOOLEAN :
          /\ allow => ~KextSupports(kext, macosVersion)
          /\ checkedKexts' = IF kext \in checkedKexts THEN UncheckKext(kext, checkedKexts)
                      ELSE CheckKext(kext, checkedKexts, macosVersion, allow)
    /\ UNCHANGED <<at, locals, acpiTables, dsdtPatches, checkedPatches, efi>>

\* The list can be made to show all models, and the selected one be restored.
CustomizeSmbiosModel ==
    /\ at = "menu" /\ hardwareReport # NoReport /\ Edit
    /\ smbiosModel' \in OfferedModels \cup {SelectSmbiosModel(Machine, macosVersion)}
    /\ checkedPatches' = (checkedPatches \ {"MCHC"}) \cup (IF NeedsMchc(Machine, smbiosModel') THEN {"MCHC"} ELSE {})
    /\ checkedKexts' = CheckKexts(SmbiosKexts(smbiosModel'), checkedKexts, macosVersion, FALSE)
    /\ UNCHANGED <<at, hardwareReport, macosVersion, customization, needsOclp, poweredOff, acpiTables, dsdtPatches, efi>>

-----------------------------------------------------------------------------
\* Option 6: the warning, the downloads, the build and the hints before its use.
ChooseBuild ==
    /\ at = "menu" /\ hardwareReport # NoReport
    /\ at' = IF needsOclp THEN "warning" ELSE "gather"
    /\ UNCHANGED <<locals, stored, efi, edits>>

AcceptOclp ==
    /\ at = "warning" /\ at' = "gather"
    /\ UNCHANGED <<locals, stored, efi, edits>>

GatherBootloaderKexts ==
    /\ at = "gather" /\ at' \in {"build", "menu"}
    /\ UNCHANGED <<locals, stored, efi, edits>>

\* The ACPI section made from the checked patches; there is none without tables.
NoAcpi == [ssdts |-> {}, renames |-> {}, deletes |-> {}]

AcpiSection(guru, checked) ==
    LET results == {Apply(patch, guru) : patch \in checked}
    IN  [ssdts |-> UNION {r.add : r \in results},
         renames |-> UNION {r.patch : r \in results},
         deletes |-> UNION {r.delete : r \in results}]

\* build_opencore_efi.  Without tables they are asked for once more.  BATP decides
\* about itself and ECEnabler; a rename is kept even if its SSDT was refused.
BuildOpencoreEfi ==
    LET disabled == DisabledDevices(Reports[hardwareReport], customization)
        Guru(refused) == [tables |-> Reports[hardwareReport].tables, machine |-> Machine,
                          disabled |-> disabled, smbios |-> smbiosModel, refused |-> refused]
        wide == BatteryStatusPatch(Guru({}))
        off == {d.name : d \in {x \in DisabledBySsdt(Guru({})) : x.kind = "GPU"}}
        Applied(patch, loaded) == loaded /\ patch \in checkedPatches
        AcpiSections(loaded) ==
            IF loaded THEN {AcpiSection(Guru(r), checkedPatches) : r \in SUBSET Refusable}
            ELSE {NoAcpi}
        Efi(acpi, kernel, config) ==
            [ssdts |-> acpi.ssdts, deletes |-> acpi.deletes,
             renames |-> ApplyAcpiPatches(acpi.renames \cup dsdtPatches'),
             kernel |-> kernel, config |-> config]
    IN  /\ at = "build"
        /\ \E loaded \in BOOLEAN :
              /\ IF acpiTables # NoReport THEN loaded /\ UNCHANGED <<acpiTables, dsdtPatches>>
                 ELSE ReadAcpiTables(hardwareReport, loaded)
              /\ checkedPatches' = IF Applied("BATP", loaded) /\ ~wide
                                   THEN checkedPatches \ {"BATP"} ELSE checkedPatches
              /\ \/ ~Applied("BATP", loaded) /\ UNCHANGED checkedKexts
                 \/ Applied("BATP", loaded) /\ wide /\ checkedKexts' = checkedKexts \cup {"ECEnabler"}
                 \/ Applied("BATP", loaded) /\ ~wide /\ checkedKexts' = checkedKexts \ {"ECEnabler"}
              /\ \/ /\ GenerateRaises(Machine, macosVersion, checkedKexts')
                    /\ MainAgain /\ UNCHANGED efi
                 \/ /\ ~GenerateRaises(Machine, macosVersion, checkedKexts')
                    /\ poweredOff' = poweredOff \cup
                                       (IF Applied("Disable Devices", loaded) THEN off ELSE {})
                    /\ \E kernel \in {LoadKexts(checkedKexts', macosVersion)},
                          config \in {Generate(Machine, disabled, poweredOff', smbiosModel,
                                               macosVersion, needsOclp, checkedKexts')} :
                          \E acpi \in AcpiSections(loaded) : efi' = Efi(acpi, kernel, config)
                    /\ at' = "built"
                    /\ UNCHANGED <<hardwareReport, macosVersion, customization, smbiosModel,
                                   needsOclp, edits>>

\* before_using_efi returns when the user agrees.
BeforeUsingEfi ==
    /\ at = "built" /\ at' = "menu" /\ efi' = NoEfi
    /\ UNCHANGED <<locals, stored, edits>>

\* Every prompt takes Q.
ExitProgram == at = "menu" /\ EndProcess

Next ==
    \/ RefuseHardwareReport
    \/ HardwareReportRaises
    \/ SelectHardwareReport
    \/ SelectMacosVersion
    \/ CustomizePatchSelection
    \/ KextConfigurationMenu
    \/ CustomizeSmbiosModel
    \/ ChooseBuild
    \/ AcceptOclp
    \/ GatherBootloaderKexts
    \/ BuildOpencoreEfi
    \/ BeforeUsingEfi
    \/ ExitProgram

Spec == Init /\ [][Next]_vars

-----------------------------------------------------------------------------
\* Every variable has the values main() and its objects can give it.
MainMenuTypeOK ==
    /\ at \in {"menu", "warning", "gather", "build", "built", "exited"}
    /\ hardwareReport \in DOMAIN Reports \cup {NoReport}
    /\ macosVersion = NoVersion \/ (LowestDarwin <= macosVersion /\ macosVersion <= LatestDarwin)
    /\ smbiosModel \in MacModels \cup {NoModel}
    /\ hardwareReport # NoReport =>
         /\ customization.kept \cap customization.disabled = {}
         /\ customization.kept \cup customization.disabled \subseteq Devices(Reports[hardwareReport])
         /\ poweredOff \subseteq customization.disabled
    /\ needsOclp \in BOOLEAN /\ edits \in 0 .. MaxEdits
    /\ acpiTables \in DOMAIN Reports \cup {NoReport}
    /\ dsdtPatches \subseteq PrePatches /\ checkedPatches \subseteq AllPatches
    /\ RequiredKexts \subseteq checkedKexts /\ checkedKexts \subseteq AllKexts
    /\ (efi # NoEfi) = (at = "built")

\* The tables the ACPI patches are made from are never those of another machine: they
\* are the objects of ACPIGuru, which outlives the report (select_hardware_report).
TablesOfReport == hardwareReport # NoReport => acpiTables \in {NoReport, hardwareReport}

\* No kept device that only OpenCore Legacy Patcher's root patch drives is built for without
\* the warning having been accepted, in whatever order versions were selected before, by
\* which option, and whatever was selected among the devices (main, option 6).
DevicesWarned == [][at' = "gather" /\ customization.patched # {} => at = "warning"]_vars

\* The same for AppleALC, which needs the root patch on Tahoe: it is the kext selection
\* that asks for it (check_kext, main).
AudioWarned ==
    [][(/\ at' = "gather" /\ edits = 0
        /\ "AppleALC" \in checkedKexts /\ UsesCodec(Machine) /\ macosVersion >= Darwin(25, 0, 0))
       => at = "warning"]_vars

\* Each graphics card that the selected version can use is in a selection the user can
\* make, whatever other cards the report lists and in which groups they fall - but an AMD
\* integrated one listed before others, whose position 0 `if _apu_index` takes for no APU
\* at all (_handle_device_selection, hardware_customizer.py:154-188).
EveryCardOffered ==
    hardwareReport # NoReport =>
        LET report == Reports[hardwareReport]
            check == CheckCompatibility(report)
            usable == CompatibleDevices(report.gpus, check, macosVersion)
            offered == UNION Selections("GPU", report.gpus, check, macosVersion)
        IN  \A i \in 1 .. Len(usable) :
                usable[i].name \notin offered <=>
                    i = 1 /\ Len(usable) > 1 /\ usable[i].maker = "AMD" /\ usable[i].integrated

\* NootRX, which is incompatible with Intel's graphics, is not selected for a machine
\* that keeps an Intel card: a Navi 22 always gets it, so this rests on the groups the
\* graphics cards were offered in (hardware_customizer.py, kext_maestro.py).
NootRXWithoutIntel ==
    hardwareReport # NoReport /\ edits = 0 /\ "NootRX" \in checkedKexts =>
        \A g \in ToSet(Machine.gpus) : g.maker # "Intel"

\* With AppleALC a known codec gets its layout exactly once, as a property of the
\* controller or as the boot argument, though deviceproperties and boot_args ask for it
\* separately (config_prodigy.py).
AudioOnce ==
    at = "built" =>
        LET property == \E p \in efi.config.properties : p[2] = "layout-id"
            argument == "alcid" \in efi.config.bootArgs
        IN  IF "AppleALC" \in checkedKexts /\ UsesCodec(Machine)
            THEN property # argument ELSE ~property /\ ~argument

\* No two enabled bundles have one identifier, and an enabled one comes after enabled
\* bundles for all it links against that are installed.
KernelInOrder(kernel) ==
    \A i \in 1 .. Len(kernel) : kernel[i].enabled =>
        /\ \A id \in ToSet(kernel[i].libraries) :
              \E j \in 1 .. i - 1 : kernel[j].enabled /\ kernel[j].identifier = id
        /\ \A j \in 1 .. i - 1 : kernel[j].enabled => kernel[j].identifier # kernel[i].identifier

\* Kernel -> Add of a built EFI is in order, whatever was checked and downloaded
\* (install_kexts_to_efi, load_kexts).
KernelAddInOrder == at = "built" => KernelInOrder(efi.kernel)

\* The position of a rename in ACPI -> Patch.
At(rename) == CHOOSE i \in 1 .. Len(efi.renames) : efi.renames[i] = rename

\* OSID and OSIF, whose names hold that of _OSI, are renamed before it is, whatever
\* patches and pre-patches the renames come from (operating_system_patch, apply_acpi_patches).
OsiRenamedLast ==
    at = "built" /\ OsiRename \in ToSet(efi.renames) =>
        \A r \in ToSet(efi.renames) \cap {OsiFirst("OSID"), OsiFirst("OSIF")} :
            At(r) < At(OsiRename)

\* The clocks are renamed only if the SSDT that replaces what is renamed is compiled
\* (fix_system_clock_awac).
ClockRenamedWithSsdt ==
    at = "built" /\ ToSet(efi.renames) \cap
                      {StaRename("AWAC"), StaRename("RTC"), CrsRename("RTC")} # {} =>
        [path |-> <<"SSDT-RTCAWAC">>, enabled |-> TRUE] \in efi.ssdts

\* The disabled graphics cards, without those whose SSDTs would be one file: it is named
\* by the third part of their ACPI path (disable_unsupported_device).
OwnPortCards ==
    LET cards == {d \in DisabledDevices(Reports[hardwareReport], customization) : d.kind = "GPU"}
    IN  {d \in cards : d.bus = "PCI" /\ \A e \in cards : e.parent = d.parent => e = d}

\* What switches a card off in a built EFI: an SSDT that iasl compiled, or a property.
SsdtOf(d, compiled) == [path |-> <<"SSDT-Disable", "GPU", d.parent>>, enabled |-> compiled] \in efi.ssdts
PropertyOff(d) == <<d.name, "disable-gpu", "TRUE">> \in efi.config.properties

\* No disabled card is both powered off by its SSDT and disabled by its property, however
\* often an EFI is built and whatever is changed in between.  With the patch, the tables
\* and no SSDT of the card refused, one of the two switches it off: ACPIGuru marks the card
\* that ConfigProdigy looks at (disable_unsupported_device, deviceproperties).
PoweredOffOnce ==
    at = "built" =>
        \A d \in OwnPortCards :
            /\ ~(SsdtOf(d, TRUE) /\ PropertyOff(d))
            /\ "Disable Devices" \in checkedPatches /\ acpiTables # NoReport /\ ~SsdtOf(d, FALSE)
                 => SsdtOf(d, TRUE) \/ PropertyOff(d)

\* What the README says of every unsupported card (README.md:56): it is disabled, with
\* the power methods of its tables or with disable-gpu.  The mark "Disabled" is set before
\* iasl answers (acpi_guru.py:1872, 2029) and stays when the patch is unchecked after a first
\* build; deviceproperties skips a marked card.
DisabledCardsOff == at = "built" => \A d \in OwnPortCards : SsdtOf(d, TRUE) \/ PropertyOff(d)
=============================================================================
