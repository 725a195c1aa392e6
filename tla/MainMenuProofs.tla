--------------------------- MODULE MainMenuProofs ---------------------------
(***************************************************************************)
(* Theorems about the main menu, for any machines, versions and choices.   *)
(***************************************************************************)
EXTENDS EfiProofs

\* The tables read for a report are its own, or none.
LEMMA ReadTables ==
    ASSUME NEW name, NEW loaded \in BOOLEAN, ReadAcpiTables(name, loaded)
    PROVE  acpiTables' \in {NoReport, name}
  BY DEF ReadAcpiTables

LEMMA InitTables == Init => TablesOfReport
  BY DEF Init, TablesOfReport

\* A step that begins without a report has no tables to mix up.
LEMMA ForgottenTables ==
    ASSUME Forget
    PROVE  TablesOfReport'
  BY DEF Forget, TablesOfReport

LEMMA TablesStep ==
    ASSUME TablesOfReport, [Next]_vars
    PROVE  TablesOfReport'
  <1>1. CASE RefuseHardwareReport \/ HardwareReportRaises \/ ExitProgram
    BY <1>1, ForgottenTables
    DEF RefuseHardwareReport, HardwareReportRaises, ExitProgram, EndProcess, MainAgain
  <1>2. CASE SelectHardwareReport
    <2>1. PICK s \in AllSelections, loaded \in BOOLEAN :
             hardwareReport' = s.report /\ ReadAcpiTables(s.report, loaded)
      BY <1>2 DEF SelectHardwareReport
    <2>2. QED BY <2>1, ReadTables DEF TablesOfReport
  <1>3. CASE SelectMacosVersion
    <2>1. acpiTables' = acpiTables
      BY <1>3 DEF SelectMacosVersion
    <2>2. CASE MainAgain
      BY <2>2, ForgottenTables DEF MainAgain
    <2>3. CASE hardwareReport' = hardwareReport
      BY <2>1, <2>3 DEF TablesOfReport
    <2>4. QED BY <1>3, <2>2, <2>3 DEF SelectMacosVersion
  <1>4. CASE BuildOpencoreEfi
    <2>1. PICK loaded \in BOOLEAN :
             \/ acpiTables' = acpiTables
             \/ ReadAcpiTables(hardwareReport, loaded)
      BY <1>4 DEF BuildOpencoreEfi
    <2>2. acpiTables' = acpiTables \/ acpiTables' \in {NoReport, hardwareReport}
      BY <2>1, ReadTables
    <2>3. MainAgain \/ hardwareReport' = hardwareReport
      BY <1>4 DEF BuildOpencoreEfi
    <2>4. CASE MainAgain
      BY <2>4, ForgottenTables DEF MainAgain
    <2>5. CASE hardwareReport' = hardwareReport
      BY <2>2, <2>5 DEF TablesOfReport
    <2>6. QED BY <2>3, <2>4, <2>5
  <1>5. CASE \/ CustomizePatchSelection \/ KextConfigurationMenu \/ CustomizeSmbiosModel
             \/ ChooseBuild \/ AcceptOclp \/ GatherBootloaderKexts \/ BeforeUsingEfi
             \/ UNCHANGED vars
    <2>1. hardwareReport' = hardwareReport /\ acpiTables' = acpiTables
      BY <1>5 DEF CustomizePatchSelection, KextConfigurationMenu, CustomizeSmbiosModel, ChooseBuild,
                  AcceptOclp, GatherBootloaderKexts, BeforeUsingEfi, locals, stored, vars
    <2>2. QED BY <2>1 DEF TablesOfReport
  <1>6. QED BY <1>1, <1>2, <1>3, <1>4, <1>5 DEF Next

\* Whatever reports are selected one after another, and whichever option raises, the ACPI
\* tables the patches are made from are those of the selected report's machine, or none
\* (select_hardware_report, acpi_guru.py).
THEOREM TablesOfReportHolds == Spec => []TablesOfReport
  <1>1. Spec => []TablesOfReport
    BY InitTables, TablesStep, PTL DEF Spec
  <1>2. QED BY <1>1

-----------------------------------------------------------------------------
(* What has been built.                                                    *)

\* An EFI is there only after option 6 has built it; it stays until its folder is closed.
LEMMA BuiltByBuild ==
    ASSUME [Next]_vars, at' = "built"
    PROVE  BuildOpencoreEfi \/ UNCHANGED vars
  BY DEF Next, RefuseHardwareReport, HardwareReportRaises, SelectHardwareReport, SelectMacosVersion,
         CustomizePatchSelection, KextConfigurationMenu, CustomizeSmbiosModel, ChooseBuild, AcceptOclp,
         GatherBootloaderKexts, BeforeUsingEfi, ExitProgram, EndProcess, MainAgain, Selected

LEMMA BuiltConfig ==
    ASSUME BuildOpencoreEfi, at' = "built"
    PROVE  /\ UNCHANGED <<hardwareReport, macosVersion, customization, smbiosModel, needsOclp, edits>>
           /\ efi'.config = Generate(Machine, DisabledDevices(Reports[hardwareReport], customization),
                                     poweredOff', smbiosModel, macosVersion, needsOclp, checkedKexts')
  <1> DEFINE config == Generate(Machine, DisabledDevices(Reports[hardwareReport], customization),
                                poweredOff', smbiosModel, macosVersion, needsOclp, checkedKexts')
  <1>1. UNCHANGED <<hardwareReport, macosVersion, customization, smbiosModel, needsOclp, edits>>
    BY DEF BuildOpencoreEfi, MainAgain
  <1>2. \E acpi, renames, kernel : efi' = [ssdts |-> acpi.ssdts, deletes |-> acpi.deletes,
                                           renames |-> renames, kernel |-> kernel, config |-> config]
    BY Zenon DEF BuildOpencoreEfi, MainAgain
  <1> HIDE DEF config
  <1>3. efi'.config = config
    BY <1>2
  <1>4. QED BY <1>1, <1>3 DEF config

\* With AppleALC a known codec gets its layout exactly once, though deviceproperties and
\* boot_args ask for it separately: for any codecs and controllers (config_prodigy.py).
THEOREM AudioOnceHolds == Spec => []AudioOnce
  <1>1. Init => AudioOnce
    BY DEF Init, AudioOnce
  <1>2. ASSUME AudioOnce, [Next]_vars
        PROVE  AudioOnce'
    <2>1. CASE BuildOpencoreEfi /\ at' = "built"
      <3> DEFINE disabled == DisabledDevices(Reports[hardwareReport], customization)
                 properties == DeviceProperties(Machine, disabled, poweredOff', macosVersion, checkedKexts')
      <3>1. /\ efi'.config = Generate(Machine, disabled, poweredOff', smbiosModel, macosVersion,
                                      needsOclp, checkedKexts')
            /\ UNCHANGED <<hardwareReport, customization>>
        BY <2>1, BuiltConfig
      <3>2. /\ efi'.config.properties = properties
            /\ efi'.config.bootArgs = BootArgs(Machine, macosVersion, needsOclp, checkedKexts', properties)
        BY <3>1 DEF Generate
      <3>3. Machine' = Machine
        BY <3>1 DEF Machine
      <3> HIDE DEF properties
      <3>4. (\E p \in properties : p[2] = "layout-id")
              <=> /\ "AppleALC" \in checkedKexts' /\ UsesCodec(Machine)
                  /\ LayoutDevice(Machine).controller = "with path"
        BY LayoutProperty DEF properties
      <3>5. "alcid" \in BootArgs(Machine, macosVersion, needsOclp, checkedKexts', properties)
              <=> /\ "AppleALC" \in checkedKexts' /\ UsesCodec(Machine)
                  /\ ~\E p \in properties : p[2] = "layout-id"
        BY LayoutArgument
      <3>6. QED BY <3>2, <3>3, <3>4, <3>5 DEF AudioOnce
    <2>2. CASE UNCHANGED vars
      BY <2>2, <1>2 DEF vars, locals, stored, AudioOnce, Machine
    <2>3. CASE at' # "built"
      BY <2>3 DEF AudioOnce
    <2>4. QED BY <1>2, <2>1, <2>2, <2>3, BuiltByBuild
  <1>3. QED BY <1>1, <1>2, PTL DEF Spec

LEMMA BuiltRenames ==
    ASSUME BuildOpencoreEfi, at' = "built"
    PROVE  \E renames : efi'.renames = ApplyAcpiPatches(renames)
  <1>1. \E acpi, prePatches, kernel, config :
           efi' = [ssdts |-> acpi.ssdts, deletes |-> acpi.deletes,
                   renames |-> ApplyAcpiPatches(acpi.renames \cup prePatches),
                   kernel |-> kernel, config |-> config]
    BY Zenon DEF BuildOpencoreEfi, MainAgain
  <1>2. QED BY <1>1

\* OSID and OSIF are renamed before _OSI is, whatever patches and pre-patches the renames
\* come from (operating_system_patch, apply_acpi_patches).
THEOREM OsiRenamedLastHolds == Spec => []OsiRenamedLast
  <1>1. Init => OsiRenamedLast
    BY DEF Init, OsiRenamedLast
  <1>2. ASSUME OsiRenamedLast, [Next]_vars
        PROVE  OsiRenamedLast'
    <2>1. CASE BuildOpencoreEfi /\ at' = "built"
      <3>1. PICK renames : efi'.renames = ApplyAcpiPatches(renames)
        BY <2>1, BuiltRenames
      <3> DEFINE applied == ApplyAcpiPatches(renames)
                 place(rename) == CHOOSE i \in 1 .. Len(applied) : applied[i] = rename
      <3>2. DOMAIN applied = 1 .. Len(applied)
        BY RenamesInOrder
      <3>3. \A rename \in ToSet(applied) :
               place(rename) \in DOMAIN applied /\ applied[place(rename)] = rename
        BY <3>2 DEF ToSet
      <3>4. ASSUME NEW r \in ToSet(applied) \cap {OsiFirst("OSID"), OsiFirst("OSIF")},
                   OsiRename \in ToSet(applied)
            PROVE  place(r) < place(OsiRename)
        BY <3>3, <3>4, OsiLast
      <3>5. QED BY <3>1, <3>4 DEF OsiRenamedLast, At
    <2>2. CASE UNCHANGED vars
      BY <2>2, <1>2 DEF vars, OsiRenamedLast, At
    <2>3. CASE at' # "built"
      BY <2>3 DEF OsiRenamedLast
    <2>4. QED BY <1>2, <2>1, <2>2, <2>3, BuiltByBuild
  <1>3. QED BY <1>1, <1>2, PTL DEF Spec

LEMMA BuiltKernel ==
    ASSUME BuildOpencoreEfi, at' = "built"
    PROVE  efi'.kernel = LoadKexts(checkedKexts', macosVersion)
  <1> DEFINE kernel == LoadKexts(checkedKexts', macosVersion)
  <1>1. \E acpi, renames, config : efi' = [ssdts |-> acpi.ssdts, deletes |-> acpi.deletes,
                                           renames |-> renames, kernel |-> kernel, config |-> config]
    BY Zenon DEF BuildOpencoreEfi, MainAgain
  <1> HIDE DEF kernel
  <1>2. efi'.kernel = kernel
    BY <1>1
  <1>3. QED BY <1>2 DEF kernel

\* Whatever was checked and whatever the downloads hold, in Kernel -> Add of a built EFI an
\* enabled bundle comes after enabled bundles for all it links to that are installed, and
\* no two enabled bundles have one identifier (install_kexts_to_efi, load_kexts).
THEOREM KernelAddInOrderHolds == Spec => []KernelAddInOrder
  <1>1. Init => KernelAddInOrder
    BY DEF Init, KernelAddInOrder
  <1>2. ASSUME KernelAddInOrder, [Next]_vars
        PROVE  KernelAddInOrder'
    <2>1. CASE BuildOpencoreEfi /\ at' = "built"
      <3>1. efi'.kernel = LoadKexts(checkedKexts', macosVersion)
        BY <2>1, BuiltKernel
      <3>2. QED BY <3>1, KernelOfOrder DEF KernelAddInOrder
    <2>2. CASE UNCHANGED vars
      BY <1>2, <2>2 DEF KernelAddInOrder, vars, locals, stored
    <2>3. CASE at' # "built"
      BY <2>3 DEF KernelAddInOrder
    <2>4. QED BY <1>2, <2>1, <2>2, <2>3, BuiltByBuild
  <1>3. QED BY <1>1, <1>2, PTL DEF Spec

-----------------------------------------------------------------------------
(* What the main menu keeps in every state.                                *)

\* A report is there while its EFI is made, and all patches are known ones.
MenuInv ==
    /\ hardwareReport \in DOMAIN Reports \cup {NoReport}
    /\ at \in {"warning", "gather", "build", "built"} => hardwareReport # NoReport
    /\ dsdtPatches \subseteq PrePatches
    /\ checkedPatches \subseteq AllPatches

LEMMA KnownPatches ==
    ASSUME NEW machine, NEW disabled
    PROVE  SelectAcpiPatches(machine, disabled) \subseteq AllPatches
  BY Zenon DEF SelectAcpiPatches

\* A device that needs the root patch is kept only with the warning.
Warned(choice, oclp) == choice.patched # {} => oclp

LEMMA CustomizationsWarn ==
    ASSUME NEW report, NEW check, NEW version, NEW choice \in Customizations(report, check, version)
    PROVE  Warned(choice, choice.oclp)
  <1> DEFINE Left(devices) == NamesAt(CompatibleDevices(devices, check, version),
                                       1 .. Len(CompatibleDevices(devices, check, version)))
             choosable == Left(report.gpus) \cup Left(report.network) \cup Left(report.bluetooth)
             With(fate) == {n \in Devices(report) : Fate(n, check, version) = fate}
             staying == (With("kept") \cup With("patched")) \ choosable
             Kept(chosen) == staying \cup chosen.gpu \cup chosen.wifi \cup chosen.bluetooth
             needs == With("patched")
             disabled(chosen) == With("disabled") \cup (choosable \ Kept(chosen))
             outcome(chosen) == [kept |-> Kept(chosen), disabled |-> disabled(chosen),
                                 patched |-> needs \cap Kept(chosen), oclp |-> needs # {}, uefi |-> chosen.uefi]
  <1>1. \E chosen : choice = outcome(chosen)
    BY Zenon DEF Customizations
  <1> HIDE DEF needs, Kept, disabled
  <1>2. choice.patched \subseteq needs /\ choice.oclp = (needs # {})
    BY <1>1
  <1>3. CASE needs = {}
    BY <1>2, <1>3 DEF Warned
  <1>4. CASE needs # {}
    BY <1>2, <1>4 DEF Warned
  <1>5. QED BY <1>3, <1>4

\* A selection is for the report it was made for, of known patches, and says what its
\* customization needs.
LEMMA SelectionKnown ==
    ASSUME NEW name, NEW v, NEW custom, NEW machine, NEW s \in SelectionsFor(name, v, custom, machine)
    PROVE  /\ s.report = name /\ s.patches \subseteq AllPatches /\ s.choice = custom
           /\ s.raised # "model" => (custom.oclp => s.oclp)
  <1> DEFINE patches == IF Raises(machine) = "no"
                        THEN SelectAcpiPatches(machine, DisabledDevices(Reports[name], custom)) ELSE {}
             model == IF Raises(machine) = "model" THEN NoModel ELSE SelectSmbiosModel(machine, v)
             record(batp, oclp, kexts) ==
                [report |-> name, version |-> v, choice |-> custom, raised |-> Raises(machine),
                 model |-> model, mchc |-> Raises(machine) # "model" /\ NeedsMchc(machine, model),
                 batp |-> batp, oclp |-> oclp, kexts |-> kexts, patches |-> patches]
  <1>1. patches \subseteq AllPatches
    BY KnownPatches
  <1>2. \E batp, oclp, kexts : s = record(batp, oclp, kexts) /\ (Raises(machine) # "model" => (custom.oclp => oclp))
    <2>1. CASE Raises(machine) = "model"
      <3>1. \E batp \in BOOLEAN : s = record(batp, FALSE, {})
        BY <2>1 DEF SelectionsFor
      <3>2. QED BY <2>1, <3>1
    <2>2. CASE Raises(machine) # "model"
      <3> DEFINE oclp(answer) == custom.oclp \/ AudioNeedsOclp(machine, v, answer)
                 chosen(answer, batp) ==
                    {record(batp, oclp(answer), CheckKexts(SmbiosKexts(model), kexts, v, FALSE)) :
                       kexts \in KextChoices(NamedKexts(machine, v, custom.oclp,
                                                       IF batp THEN {"BATP"} ELSE {}, answer), v)}
      <3>1. \E answer : s \in chosen(answer, TRUE) \cup chosen(answer, FALSE)
        BY <2>2 DEF SelectionsFor
      <3>2. \A answer, batp : s \in chosen(answer, batp) => \E kexts : s = record(batp, oclp(answer), kexts)
        OBVIOUS
      <3>3. \A answer : custom.oclp => oclp(answer)
        OBVIOUS
      <3> HIDE DEF chosen, oclp, record
      <3>4. QED BY <3>1, <3>2, <3>3
    <2>3. QED BY <2>1, <2>2
  <1> HIDE DEF patches, model
  <1>3. PICK batp, oclp, kexts :
           s = record(batp, oclp, kexts) /\ (Raises(machine) # "model" => (custom.oclp => oclp))
    BY <1>2
  <1>4. /\ s.report = name /\ s.patches = patches /\ s.choice = custom
        /\ s.raised = Raises(machine) /\ s.oclp = oclp
    BY <1>3
  <1>5. QED BY <1>1, <1>3, <1>4

LEMMA AllSelectionsKnown ==
    ASSUME NEW s \in AllSelections
    PROVE  /\ s.report \in DOMAIN Reports /\ s.patches \subseteq AllPatches
           /\ s.raised # "model" => Warned(s.choice, s.oclp)
  <1>1. PICK name \in DOMAIN Reports : s \in SelectionsOf(name)
    BY DEF AllSelections, ReportsWith
  <1>2. PICK check : s \in SelectionsFrom(name, check)
    BY <1>1 DEF SelectionsOf
  <1>3. PICK v : \E custom \in Customizations(Reports[name], check, v) :
           s \in SelectionsFor(name, v, custom, Customized(Reports[name], custom))
    BY <1>2 DEF SelectionsFrom
  <1>4. PICK custom \in Customizations(Reports[name], check, v) :
           s \in SelectionsFor(name, v, custom, Customized(Reports[name], custom))
    BY <1>3
  <1>5. Warned(custom, custom.oclp)
    BY CustomizationsWarn
  <1>6. QED BY <1>1, <1>4, <1>5, SelectionKnown DEF Warned

\* Pre-patches come from a report.
LEMMA ReadPrePatches ==
    ASSUME NEW name \in DOMAIN Reports, NEW loaded \in BOOLEAN, ReadAcpiTables(name, loaded),
           dsdtPatches \subseteq PrePatches
    PROVE  dsdtPatches' \subseteq PrePatches
  <1>1. Reports[name].prePatches \subseteq PrePatches
    BY MenuAssumption
  <1>2. dsdtPatches' = dsdtPatches \/ dsdtPatches' = Reports[name].prePatches
    BY DEF ReadAcpiTables
  <1>3. QED BY <1>1, <1>2

LEMMA MenuInit == Init => MenuInv
  BY DEF Init, MenuInv

LEMMA MenuForgets ==
    ASSUME at' \in {"menu", "exited"}, Forget, dsdtPatches' \subseteq PrePatches,
           checkedPatches' \subseteq AllPatches
    PROVE  MenuInv'
  BY DEF Forget, MenuInv

LEMMA MenuChecked ==
    ASSUME NEW s, NEW patches \in SUBSET AllPatches
    PROVE  Checked(s, patches) \subseteq AllPatches
  BY DEF Checked, AllPatches

LEMMA MenuStep ==
    ASSUME MenuInv, [Next]_vars
    PROVE  MenuInv'
  <1>1. CASE RefuseHardwareReport \/ ExitProgram
    BY <1>1, MenuForgets DEF RefuseHardwareReport, ExitProgram, EndProcess, MenuInv
  <1>2. CASE HardwareReportRaises
    <2>1. dsdtPatches' = dsdtPatches \/ \E s \in AllSelections, loaded \in BOOLEAN : ReadAcpiTables(s.report, loaded)
      BY <1>2 DEF HardwareReportRaises
    <2>2. dsdtPatches' \subseteq PrePatches
      BY <2>1, AllSelectionsKnown, ReadPrePatches DEF MenuInv
    <2>3. at' = "menu" /\ Forget /\ checkedPatches' = checkedPatches
      BY <1>2 DEF HardwareReportRaises, MainAgain
    <2>4. QED BY <2>2, <2>3, MenuForgets DEF MenuInv
  <1>3. CASE SelectHardwareReport
    <2>1. PICK s \in AllSelections, loaded \in BOOLEAN :
             /\ hardwareReport' = s.report /\ ReadAcpiTables(s.report, loaded)
             /\ checkedPatches' = Checked(s, s.patches) /\ Selected(s)
      BY <1>3 DEF SelectHardwareReport
    <2>2. s.report \in DOMAIN Reports /\ s.patches \subseteq AllPatches
      BY AllSelectionsKnown
    <2>3. dsdtPatches' \subseteq PrePatches
      BY <2>1, <2>2, ReadPrePatches DEF MenuInv
    <2>4. checkedPatches' \subseteq AllPatches
      BY <2>1, <2>2, MenuChecked
    <2>5. at' = "menu"
      BY <2>1 DEF Selected
    <2>6. QED BY <2>1, <2>2, <2>3, <2>4, <2>5 DEF MenuInv
  <1>4. CASE SelectMacosVersion
    <2>1. PICK s \in AllSelections :
             \/ MainAgain /\ checkedPatches' = checkedPatches
             \/ checkedPatches' = Checked(s, checkedPatches) /\ Selected(s) /\ hardwareReport' = hardwareReport
      BY <1>4 DEF SelectMacosVersion
    <2>2. dsdtPatches' = dsdtPatches
      BY <1>4 DEF SelectMacosVersion
    <2>3. CASE MainAgain /\ checkedPatches' = checkedPatches
      BY <2>2, <2>3, MenuForgets DEF MenuInv, MainAgain
    <2>4. CASE checkedPatches' = Checked(s, checkedPatches) /\ Selected(s) /\ hardwareReport' = hardwareReport
      <3>1. checkedPatches' \subseteq AllPatches
        BY <2>4, MenuChecked DEF MenuInv
      <3>2. at' = "menu"
        BY <2>4 DEF Selected
      <3>3. QED BY <2>2, <2>4, <3>1, <3>2 DEF MenuInv
    <2>5. QED BY <2>1, <2>3, <2>4
  <1>5. CASE CustomizePatchSelection
    <2>1. PICK patch \in AllPatches : checkedPatches' \subseteq checkedPatches \cup {patch}
      BY <1>5, MenuAssumption DEF CustomizePatchSelection
    <2>2. UNCHANGED <<at, hardwareReport, dsdtPatches>>
      BY <1>5 DEF CustomizePatchSelection, locals
    <2>3. QED BY <2>1, <2>2 DEF MenuInv
  <1>6. CASE CustomizeSmbiosModel
    <2>1. checkedPatches' \subseteq checkedPatches \cup {"MCHC"}
      BY <1>6 DEF CustomizeSmbiosModel
    <2>2. "MCHC" \in AllPatches
      BY DEF AllPatches
    <2>3. UNCHANGED <<at, hardwareReport, dsdtPatches>>
      BY <1>6 DEF CustomizeSmbiosModel
    <2>4. QED BY <2>1, <2>2, <2>3 DEF MenuInv
  <1>7. CASE BuildOpencoreEfi
    <2>1. hardwareReport \in DOMAIN Reports
      BY <1>7 DEF MenuInv, BuildOpencoreEfi
    <2>2. \E loaded \in BOOLEAN : dsdtPatches' = dsdtPatches \/ ReadAcpiTables(hardwareReport, loaded)
      BY <1>7 DEF BuildOpencoreEfi
    <2>3. dsdtPatches' \subseteq PrePatches
      BY <2>1, <2>2, ReadPrePatches DEF MenuInv
    <2>4. checkedPatches' \subseteq checkedPatches
      BY <1>7 DEF BuildOpencoreEfi
    <2>5. MainAgain \/ (at' = "built" /\ hardwareReport' = hardwareReport)
      BY <1>7 DEF BuildOpencoreEfi
    <2>6. CASE MainAgain
      BY <2>3, <2>4, <2>6, MenuForgets DEF MainAgain, MenuInv
    <2>7. CASE at' = "built" /\ hardwareReport' = hardwareReport
      BY <1>7, <2>3, <2>4, <2>7 DEF MenuInv, BuildOpencoreEfi
    <2>8. QED BY <2>5, <2>6, <2>7
  <1>8. CASE \/ KextConfigurationMenu \/ ChooseBuild \/ AcceptOclp \/ GatherBootloaderKexts
             \/ BeforeUsingEfi \/ UNCHANGED vars
    <2>1. UNCHANGED <<hardwareReport, dsdtPatches, checkedPatches>>
      BY <1>8 DEF KextConfigurationMenu, ChooseBuild, AcceptOclp, GatherBootloaderKexts, BeforeUsingEfi,
                  locals, stored, vars
    <2>2. at' = "menu" \/ hardwareReport # NoReport \/ at' = at
      BY <1>8 DEF MenuInv, KextConfigurationMenu, ChooseBuild, AcceptOclp, GatherBootloaderKexts,
                  BeforeUsingEfi, vars
    <2>3. QED BY <2>1, <2>2 DEF MenuInv
  <1>9. QED BY <1>1, <1>2, <1>3, <1>4, <1>5, <1>6, <1>7, <1>8 DEF Next

LEMMA MenuInvHolds == Spec => []MenuInv
  BY MenuInit, MenuStep, PTL DEF Spec

-----------------------------------------------------------------------------
(* The ACPI section of a build.                                            *)

\* What the patches are applied to.
Guru(refused) ==
    [tables |-> Reports[hardwareReport].tables, machine |-> Machine,
     disabled |-> DisabledDevices(Reports[hardwareReport], customization),
     smbios |-> smbiosModel, refused |-> refused]

CardsOff == {d.name : d \in {x \in DisabledBySsdt(Guru({})) : x.kind = "GPU"}}

LEMMA BuiltEfi ==
    ASSUME BuildOpencoreEfi, at' = "built"
    PROVE  \E loaded \in BOOLEAN : \E acpi :
              /\ acpiTables' # NoReport => loaded
              /\ poweredOff' = poweredOff \cup
                                 (IF loaded /\ "Disable Devices" \in checkedPatches THEN CardsOff ELSE {})
              /\ IF loaded THEN \E refused : acpi = AcpiSection(Guru(refused), checkedPatches)
                 ELSE acpi = NoAcpi
              /\ efi'.ssdts = acpi.ssdts
              /\ efi'.renames = ApplyAcpiPatches(acpi.renames \cup dsdtPatches')
  <1> DEFINE Tables(loaded) == IF acpiTables # NoReport THEN loaded /\ UNCHANGED <<acpiTables, dsdtPatches>>
                               ELSE ReadAcpiTables(hardwareReport, loaded)
             Cards(loaded) == poweredOff' = poweredOff \cup
                                (IF loaded /\ "Disable Devices" \in checkedPatches THEN CardsOff ELSE {})
             Acpis(loaded) == IF loaded THEN {AcpiSection(Guru(r), checkedPatches) : r \in SUBSET Refusable}
                                  ELSE {NoAcpi}
             Efi(acpi, kernel, config) ==
               [ssdts |-> acpi.ssdts, deletes |-> acpi.deletes,
                renames |-> ApplyAcpiPatches(acpi.renames \cup dsdtPatches'),
                kernel |-> kernel, config |-> config]
  <1>1. \E loaded \in BOOLEAN :
           /\ Tables(loaded) /\ Cards(loaded)
           /\ \E kernel, config : \E acpi \in Acpis(loaded) : efi' = Efi(acpi, kernel, config)
    BY Zenon DEF BuildOpencoreEfi, MainAgain, Guru, CardsOff
  <1>2. \A loaded : Tables(loaded) => (acpiTables' # NoReport => loaded)
    BY DEF ReadAcpiTables
  <1>3. PICK loaded \in BOOLEAN :
           /\ Tables(loaded) /\ Cards(loaded)
           /\ \E kernel, config : \E acpi \in Acpis(loaded) : efi' = Efi(acpi, kernel, config)
    BY <1>1
  <1>4. PICK acpi \in Acpis(loaded) : \E kernel, config : efi' = Efi(acpi, kernel, config)
    BY <1>3
  <1>5. efi'.ssdts = acpi.ssdts /\ efi'.renames = ApplyAcpiPatches(acpi.renames \cup dsdtPatches')
    BY <1>4
  <1>6. IF loaded THEN \E refused : acpi = AcpiSection(Guru(refused), checkedPatches) ELSE acpi = NoAcpi
    BY <1>4
  <1> HIDE DEF Tables
  <1>7. QED BY <1>2, <1>3, <1>5, <1>6

\* The clocks are renamed only if the SSDT that replaces what is renamed is compiled, for
\* any tables, patches and pre-patches (fix_system_clock_awac).
THEOREM ClockRenamedWithSsdtHolds == Spec => []ClockRenamedWithSsdt
  <1>1. Init => ClockRenamedWithSsdt
    BY DEF Init, ClockRenamedWithSsdt
  <1>2. ASSUME MenuInv, MenuInv', ClockRenamedWithSsdt, [Next]_vars
        PROVE  ClockRenamedWithSsdt'
    <2>1. CASE BuildOpencoreEfi /\ at' = "built"
      <3>1. PICK loaded, acpi :
               /\ IF loaded THEN \E refused : acpi = AcpiSection(Guru(refused), checkedPatches)
                  ELSE acpi = NoAcpi
               /\ efi'.ssdts = acpi.ssdts
               /\ efi'.renames = ApplyAcpiPatches(acpi.renames \cup dsdtPatches')
        BY <2>1, BuiltEfi
      <3> DEFINE clocks == {StaRename("AWAC"), StaRename("RTC"), CrsRename("RTC")}
      <3>2. SUFFICES ASSUME NEW r \in clocks, r \in ToSet(efi'.renames)
                     PROVE  [path |-> <<"SSDT-RTCAWAC">>, enabled |-> TRUE] \in efi'.ssdts
        BY DEF ClockRenamedWithSsdt
      <3>3. \A renames : r \in renames => ~Elsewhere(renames)
        <4>1. StaRename("AWAC")[1] = "AWAC" /\ StaRename("RTC")[1] = "RTC" /\ CrsRename("RTC")[1] = "RTC"
          BY DEF StaRename, CrsRename
        <4>2. r[1] \in {"AWAC", "RTC"}
          BY <4>1
        <4>3. QED BY <4>2 DEF Elsewhere
      <3>4. r \in acpi.renames \cup dsdtPatches'
        BY <3>1, <3>2, AppliedRename
      <3>5. r \notin dsdtPatches'
        <4>1. r \notin PrePatches
          BY <3>3, ElsewhereRenames
        <4>2. QED BY <1>2, <4>1 DEF MenuInv
      <3>6. ~Elsewhere(acpi.renames)
        BY <3>3, <3>4, <3>5
      <3>7. acpi # NoAcpi
        BY <3>6, ElsewhereRenames DEF NoAcpi
      <3>8. PICK refused : acpi = AcpiSection(Guru(refused), checkedPatches)
        BY <3>1, <3>7
      <3>9. QED BY <1>2, <3>1, <3>6, <3>8, ClockSection DEF MenuInv
    <2>2. CASE UNCHANGED vars
      BY <2>2, <1>2 DEF vars, ClockRenamedWithSsdt
    <2>3. CASE at' # "built"
      BY <2>3 DEF ClockRenamedWithSsdt
    <2>4. QED BY <1>2, <2>1, <2>2, <2>3, BuiltByBuild
  <1>3. QED BY <1>1, <1>2, MenuInvHolds, PTL DEF Spec

-----------------------------------------------------------------------------
(* The disabled graphics cards.                                            *)

\* Only cards with an SSDT of their own are marked.
MarkedInv == poweredOff \subseteq CardsOff

LEMMA SameCards ==
    ASSUME UNCHANGED <<hardwareReport, customization>>
    PROVE  CardsOff' = CardsOff
  <1>1. /\ Guru({}).tables = Reports[hardwareReport].tables
        /\ Guru({}).disabled = DisabledDevices(Reports[hardwareReport], customization)
    BY DEF Guru
  <1>2. /\ (Guru({}).tables)' = Reports[hardwareReport].tables
        /\ (Guru({}).disabled)' = DisabledDevices(Reports[hardwareReport], customization)
    BY DEF Guru
  <1>3. \A guru, other : guru.tables = other.tables /\ guru.disabled = other.disabled
                           => DisabledBySsdt(guru) = DisabledBySsdt(other)
    BY SameDisabled
  <1>4. DisabledBySsdt(Guru({}))' = DisabledBySsdt(Guru({}))
    BY <1>1, <1>2, <1>3
  <1>5. QED BY <1>4 DEF CardsOff

LEMMA MarkedStep ==
    ASSUME MarkedInv, [Next]_vars
    PROVE  MarkedInv'
  <1>1. CASE poweredOff' = {}
    BY <1>1 DEF MarkedInv
  <1>2. CASE UNCHANGED <<hardwareReport, customization, poweredOff>>
    BY <1>2, SameCards DEF MarkedInv
  <1>3. CASE BuildOpencoreEfi /\ at' = "built"
    <2>1. UNCHANGED <<hardwareReport, customization>>
      BY <1>3, BuiltConfig
    <2>2. poweredOff' \subseteq poweredOff \cup CardsOff
      BY <1>3, BuiltEfi
    <2>3. QED BY <2>1, <2>2, SameCards DEF MarkedInv
  <1>4. CASE BuildOpencoreEfi /\ at' # "built"
    BY <1>1, <1>4 DEF BuildOpencoreEfi, MainAgain, Forget
  <1>5. CASE \/ RefuseHardwareReport \/ HardwareReportRaises \/ SelectHardwareReport
             \/ SelectMacosVersion \/ ExitProgram
    BY <1>1, <1>5 DEF RefuseHardwareReport, HardwareReportRaises, SelectHardwareReport, SelectMacosVersion,
                      ExitProgram, EndProcess, MainAgain, Forget, Selected
  <1>6. CASE \/ CustomizePatchSelection \/ KextConfigurationMenu \/ CustomizeSmbiosModel
             \/ ChooseBuild \/ AcceptOclp \/ GatherBootloaderKexts \/ BeforeUsingEfi
             \/ UNCHANGED vars
    BY <1>2, <1>6 DEF CustomizePatchSelection, KextConfigurationMenu, CustomizeSmbiosModel, ChooseBuild,
                      AcceptOclp, GatherBootloaderKexts, BeforeUsingEfi, locals, vars
  <1>7. QED BY <1>3, <1>4, <1>5, <1>6 DEF Next

LEMMA MarkedInvHolds == Spec => []MarkedInv
  <1>1. Init => MarkedInv
    BY DEF Init, MarkedInv
  <1>2. QED BY <1>1, MarkedStep, PTL DEF Spec

\* A disabled device of a report is the one of its name.
LEMMA OneDevice ==
    ASSUME hardwareReport \in DOMAIN Reports,
           NEW d \in DisabledDevices(Reports[hardwareReport], customization),
           NEW e \in DisabledDevices(Reports[hardwareReport], customization), d.name = e.name
    PROVE  d = e
  <1> DEFINE devices == Reports[hardwareReport].gpus \o Sections(Reports[hardwareReport])
  <1>1. d \in ToSet(devices) /\ e \in ToSet(devices)
    BY DEF DisabledDevices
  <1>2. \A i, j \in DOMAIN devices : devices[i].name = devices[j].name => i = j
    BY MenuAssumption
  <1> HIDE DEF devices
  <1>3. PICK i \in DOMAIN devices, j \in DOMAIN devices : d = devices[i] /\ e = devices[j]
    BY <1>1 DEF ToSet
  <1>4. QED BY <1>2, <1>3

\* The SSDTs of a build that are named after the port of a card: there are some for the
\* patch, the tables and a card that can be powered off, and refused SSDTs are not enabled.
LEMMA BuiltSsdts ==
    ASSUME BuildOpencoreEfi, at' = "built", MenuInv, NEW d \in OwnPortCards
    PROVE  LET path == <<"SSDT-Disable", "GPU", d.parent>>
           IN  /\ \A s \in efi'.ssdts : s.path = path =>
                     /\ s \in {[path |-> path, enabled |-> TRUE], [path |-> path, enabled |-> FALSE]}
                     /\ d.name \in poweredOff'
               /\ /\ "Disable Devices" \in checkedPatches /\ acpiTables' # NoReport
                  /\ d \in DisabledBySsdt(Guru({}))
                  => \E s \in efi'.ssdts : s.path = path
  <1> DEFINE path == <<"SSDT-Disable", "GPU", d.parent>>
             disabled == DisabledDevices(Reports[hardwareReport], customization)
             off == DisabledBySsdt(Guru({}))
             hit == "Disable Devices" \in checkedPatches /\ CardBehind(off, d.parent)
  <1>1. PICK loaded, acpi :
            /\ loaded \in BOOLEAN /\ (acpiTables' # NoReport => loaded)
            /\ poweredOff' = poweredOff \cup
                               (IF loaded /\ "Disable Devices" \in checkedPatches THEN CardsOff ELSE {})
            /\ IF loaded THEN \E refused : acpi = AcpiSection(Guru(refused), checkedPatches)
               ELSE acpi = NoAcpi
            /\ efi'.ssdts = acpi.ssdts
    BY BuiltEfi
  <1>2. d.kind = "GPU" /\ d \in disabled
    BY DEF OwnPortCards
  <1>3. \A x \in off : x.kind = "GPU" /\ x.parent = d.parent => x = d
    <2>1. \A x \in off : x \in disabled
      BY DEF DisabledBySsdt, Guru
    <2>2. QED BY <2>1 DEF OwnPortCards
  <1>4. CASE ~loaded
    <2>1. efi'.ssdts = {}
      BY <1>1, <1>4 DEF NoAcpi
    <2>2. QED BY <1>1, <1>4, <2>1
  <1>5. CASE loaded
    <2>1. PICK refused : efi'.ssdts = AcpiSection(Guru(refused), checkedPatches).ssdts
      BY <1>1, <1>5
    <2>2. DisabledBySsdt(Guru(refused)) = off
      <3>1. Guru({}).tables = Guru(refused).tables /\ Guru({}).disabled = Guru(refused).disabled
        BY DEF Guru
      <3>2. QED BY <3>1, SameDisabled
    <2>3. checkedPatches \in SUBSET AllPatches
      BY DEF MenuInv
    <2>4. /\ SwitchesOff(efi'.ssdts, d.parent) <=> hit
          /\ \A s \in efi'.ssdts : s.path = path =>
                s = [path |-> path, enabled |-> path \notin Guru(refused).refused]
      BY <2>1, <2>2, <2>3, DisablingSsdts
    <2>5. (path \notin Guru(refused).refused) \in BOOLEAN
      OBVIOUS
    <2>6. hit => d \in off /\ d.name \in poweredOff'
      <3>1. hit => d \in off
        BY <1>3 DEF CardBehind
      <3>2. d \in off => d.name \in CardsOff
        BY <1>2 DEF CardsOff
      <3>3. QED BY <1>1, <1>5, <3>1, <3>2
    <2>7. "Disable Devices" \in checkedPatches /\ d \in off => hit
      BY <1>2 DEF CardBehind
    <2> HIDE DEF hit, off, path
    <2>8. \A s \in efi'.ssdts : s.path = path => hit
      BY <2>4 DEF SwitchesOff, path
    <2>9. "Disable Devices" \in checkedPatches /\ d \in off => \E s \in efi'.ssdts : s.path = path
      BY <2>4, <2>7 DEF SwitchesOff, path
    <2>10. \A s \in efi'.ssdts : s.path = path =>
              s \in {[path |-> path, enabled |-> TRUE], [path |-> path, enabled |-> FALSE]}
      BY <2>4, <2>5
    <2>11. QED BY <2>6, <2>8, <2>9, <2>10 DEF off, path
  <1>6. QED BY <1>1, <1>4, <1>5

\* No disabled graphics card is powered off by its SSDT and disabled by its property as
\* well, and with the patch, the tables and no SSDT of the card refused one of the two
\* switches it off, however often an EFI is built and whatever is changed in between
\* (disable_unsupported_device, deviceproperties).
THEOREM PoweredOffOnceHolds == Spec => []PoweredOffOnce
  <1>1. Init => PoweredOffOnce
    BY DEF Init, PoweredOffOnce
  <1>2. ASSUME MenuInv, MenuInv', MarkedInv, MarkedInv', PoweredOffOnce, [Next]_vars
        PROVE  PoweredOffOnce'
    <2>1. CASE BuildOpencoreEfi /\ at' = "built"
      <3> DEFINE disabled == DisabledDevices(Reports[hardwareReport], customization)
                 off == DisabledBySsdt(Guru({}))
      <3>1. /\ UNCHANGED <<hardwareReport, customization>>
            /\ efi'.config.properties = DeviceProperties(Machine, disabled, poweredOff', macosVersion, checkedKexts')
        BY <2>1, BuiltConfig DEF Generate
      <3>2. OwnPortCards' = OwnPortCards
        BY <3>1 DEF OwnPortCards
      <3>3. SUFFICES ASSUME NEW d \in OwnPortCards
                     PROVE  /\ ~(SsdtOf(d, TRUE)' /\ PropertyOff(d)')
                            /\ /\ "Disable Devices" \in checkedPatches' /\ acpiTables' # NoReport
                               /\ ~SsdtOf(d, FALSE)'
                               => SsdtOf(d, TRUE)' \/ PropertyOff(d)'
        BY <3>2 DEF PoweredOffOnce
      <3> DEFINE path == <<"SSDT-Disable", "GPU", d.parent>>
                 entry(compiled) == [path |-> path, enabled |-> compiled]
      <3>4. d \in disabled /\ d.kind = "GPU" /\ d.bus = "PCI"
        BY DEF OwnPortCards
      <3>5. /\ \A s \in efi'.ssdts : s.path = path =>
                  s \in {entry(TRUE), entry(FALSE)} /\ d.name \in poweredOff'
            /\ "Disable Devices" \in checkedPatches /\ acpiTables' # NoReport /\ d \in off
                  => \E s \in efi'.ssdts : s.path = path
        BY <1>2, <2>1, BuiltSsdts
      <3>6. "Disable Devices" \in checkedPatches' => "Disable Devices" \in checkedPatches
        BY <2>1 DEF BuildOpencoreEfi
      <3>7. PropertyOff(d)' <=> d.name \notin poweredOff'
        <4>1. <<d.name, "disable-gpu", "TRUE">>
                \in DeviceProperties(Machine, disabled, poweredOff', macosVersion, checkedKexts')
                <=> d.name \notin poweredOff'
          <5> HIDE DEF disabled
          <5>1. QED BY <3>4, OffProperty
        <4>2. QED BY <3>1, <4>1 DEF PropertyOff
      <3>8. d.name \in poweredOff' => d \in off
        <4>1. hardwareReport \in DOMAIN Reports
          BY <2>1, <1>2 DEF MenuInv, BuildOpencoreEfi
        <4>2. CardsOff' = CardsOff
          BY <3>1, SameCards
        <4>3. poweredOff' \subseteq {x.name : x \in {y \in off : y.kind = "GPU"}}
          BY <1>2, <4>2 DEF MarkedInv, CardsOff
        <4>4. \A x \in off : x \in disabled
          BY DEF DisabledBySsdt, Guru
        <4>5. \A x \in disabled : x.name = d.name => x = d
          BY <3>4, <4>1, OneDevice
        <4> HIDE DEF disabled, off
        <4>6. QED BY <4>3, <4>4, <4>5
      <3>9. /\ SsdtOf(d, TRUE)' <=> entry(TRUE) \in efi'.ssdts
            /\ SsdtOf(d, FALSE)' <=> entry(FALSE) \in efi'.ssdts
        BY DEF SsdtOf
      <3>10. entry(TRUE).path = path
        OBVIOUS
      <3> HIDE DEF entry, path, off, disabled
      <3>11. QED BY <3>5, <3>6, <3>7, <3>8, <3>9, <3>10
    <2>2. CASE UNCHANGED vars
      BY <2>2, <1>2 DEF vars, locals, stored, PoweredOffOnce, OwnPortCards, SsdtOf, PropertyOff
    <2>3. CASE at' # "built"
      BY <2>3 DEF PoweredOffOnce
    <2>4. QED BY <1>2, <2>1, <2>2, <2>3, BuiltByBuild
  <1>3. QED BY <1>1, <1>2, MenuInvHolds, MarkedInvHolds, PTL DEF Spec

-----------------------------------------------------------------------------
(* The warning before a build.                                             *)

WarnedInv == Warned(customization, needsOclp)

LEMMA WarnedStep ==
    ASSUME WarnedInv, [Next]_vars
    PROVE  WarnedInv'
  <1>1. CASE Forget
    BY <1>1 DEF Forget, WarnedInv, Warned, NoChoice
  <1>2. CASE UNCHANGED <<customization, needsOclp>>
    BY <1>2 DEF WarnedInv
  <1>3. ASSUME NEW s \in AllSelections, s.raised # "model", Selected(s)
        PROVE  WarnedInv'
    <2>1. Warned(s.choice, s.oclp)
      BY <1>3, AllSelectionsKnown
    <2>2. QED BY <1>3, <2>1 DEF Selected, WarnedInv
  <1>4. CASE SelectHardwareReport
    <2>1. \E s \in AllSelections : s.raised = "no" /\ Selected(s)
      BY <1>4 DEF SelectHardwareReport
    <2>2. QED BY <1>3, <2>1
  <1>5. CASE SelectMacosVersion
    <2>1. MainAgain \/ \E s \in AllSelections : s.raised # "model" /\ Selected(s)
      BY <1>5 DEF SelectMacosVersion
    <2>2. QED BY <1>1, <1>3, <2>1 DEF MainAgain
  <1>6. CASE RefuseHardwareReport \/ HardwareReportRaises \/ ExitProgram
    BY <1>1, <1>6 DEF RefuseHardwareReport, HardwareReportRaises, ExitProgram, EndProcess, MainAgain
  <1>7. CASE BuildOpencoreEfi
    <2>1. MainAgain \/ UNCHANGED <<customization, needsOclp>>
      BY <1>7 DEF BuildOpencoreEfi
    <2>2. QED BY <1>1, <1>2, <2>1 DEF MainAgain
  <1>8. CASE \/ CustomizePatchSelection \/ KextConfigurationMenu \/ CustomizeSmbiosModel
             \/ ChooseBuild \/ AcceptOclp \/ GatherBootloaderKexts \/ BeforeUsingEfi
             \/ UNCHANGED vars
    BY <1>2, <1>8 DEF CustomizePatchSelection, KextConfigurationMenu, CustomizeSmbiosModel, ChooseBuild,
                      AcceptOclp, GatherBootloaderKexts, BeforeUsingEfi, locals, vars
  <1>9. QED BY <1>4, <1>5, <1>6, <1>7, <1>8 DEF Next

LEMMA WarnedInvHolds == Spec => []WarnedInv
  <1>1. Init => WarnedInv
    BY DEF Init, WarnedInv, Warned, NoChoice
  <1>2. QED BY <1>1, WarnedStep, PTL DEF Spec

\* No kept device that only the root patch drives is built for without the warning, for any
\* reports, versions and choices (hardware_customization, main, option 6).
THEOREM DevicesWarnedHolds == Spec => DevicesWarned
  <1>1. ASSUME WarnedInv, [Next]_vars
        PROVE  [at' = "gather" /\ customization.patched # {} => at = "warning"]_vars
    <2>1. SUFFICES ASSUME Next, at' = "gather", customization.patched # {}
                   PROVE  at = "warning" \/ UNCHANGED vars
      BY <1>1
    <2>2. ~ChooseBuild
      BY <1>1, <2>1 DEF ChooseBuild, WarnedInv, Warned
    <2>3. ChooseBuild \/ AcceptOclp \/ UNCHANGED at
      BY <2>1 DEF Next, RefuseHardwareReport, HardwareReportRaises, SelectHardwareReport, SelectMacosVersion,
                  CustomizePatchSelection, KextConfigurationMenu, CustomizeSmbiosModel, GatherBootloaderKexts,
                  BuildOpencoreEfi, BeforeUsingEfi, ExitProgram, EndProcess, MainAgain, Selected
    <2>4. at # "gather"
      BY <2>1 DEF Next, RefuseHardwareReport, HardwareReportRaises, SelectHardwareReport, SelectMacosVersion,
                  CustomizePatchSelection, KextConfigurationMenu, CustomizeSmbiosModel, ChooseBuild, AcceptOclp,
                  GatherBootloaderKexts, BuildOpencoreEfi, BeforeUsingEfi, ExitProgram, EndProcess
    <2>5. QED BY <2>1, <2>2, <2>3, <2>4 DEF AcceptOclp
  <1>2. QED BY <1>1, WarnedInvHolds, PTL DEF Spec, DevicesWarned

-----------------------------------------------------------------------------
(* check_kext.                                                             *)

KextSets == SUBSET AllKexts
Checks == [AllKexts -> [KextSets -> KextSets]]

\* What the calls of check_kext for what a kext requires do.
Calls(check, k) ==
    [all \in KextSets |-> [needed \in ToSet(KextInfo[k].requires) |->
        IF needed = FirstKext THEN all ELSE check[needed][all]]]

CheckedBy(check, k, before, version, allow) ==
    IF k \in before \/ ~(allow \/ KextSupports(k, version)) THEN before
    ELSE Folded(Calls(check, k), before \cup {k}, KextInfo[k].requires) \ KextRivals(k)

\* The kexts that no other one requires.
Alone == {"NootRX", "AppleALC"}

\* What one call may do: the kexts that are always there stay, of those that none
\* requires only the one it is for is added.
Allowed(k, before) ==
    {after \in KextSets : before \cap RequiredKexts \subseteq after /\ after \cap Alone \subseteq before \cup {k}}

\* What a kext requires are kexts, none of them one of those alone.
LEMMA Requirements ==
    ASSUME NEW k \in AllKexts
    PROVE  LET needs == KextInfo[k].requires
           IN  /\ Len(needs) \in Nat /\ \A n \in 1 .. Len(needs) : needs[n] \in ToSet(needs)
               /\ ToSet(needs) \subseteq AllKexts \ Alone
  <1> DEFINE needs == KextInfo[k].requires
  <1>1. needs \in Seq(AllKexts)
    BY KextListAssumption
  <1>2. Alone \cap ToSet(needs) = {}
    BY HardwareAssumption DEF Alone
  <1> HIDE DEF needs
  <1>3. DOMAIN needs = 1 .. Len(needs) /\ Len(needs) \in Nat /\ \A n \in 1 .. Len(needs) : needs[n] \in AllKexts
    BY <1>1
  <1>4. QED BY <1>2, <1>3 DEF ToSet, needs

\* The calls for what a kext requires are a step of the fold over it.
LEMMA CallsType ==
    ASSUME NEW check \in Checks, NEW k \in AllKexts
    PROVE  /\ \A all \in KextSets : \A needed \in ToSet(KextInfo[k].requires) :
                Calls(check, k)[all][needed] = IF needed = FirstKext THEN all ELSE check[needed][all]
           /\ StepOn(Calls(check, k), KextSets, KextInfo[k].requires)
  <1> DEFINE needs == KextInfo[k].requires
  <1>1. \A all \in KextSets : \A needed \in ToSet(needs) :
           Calls(check, k)[all][needed] = IF needed = FirstKext THEN all ELSE check[needed][all]
    BY DEF Calls
  <1>2. /\ \A n \in 1 .. Len(needs) : needs[n] \in ToSet(needs)
        /\ ToSet(needs) \subseteq AllKexts
    BY Requirements
  <1> HIDE DEF needs
  <1>3. \A all \in KextSets : \A needed \in AllKexts : check[needed][all] \in KextSets
    BY DEF Checks
  <1> HIDE DEF KextSets
  <1>4. StepOn(Calls(check, k), KextSets, needs)
    BY <1>1, <1>2, <1>3 DEF StepOn
  <1>5. QED BY <1>1, <1>4 DEF needs

\* One call, when the calls it makes do what they may.
LEMMA CheckedByAllowed ==
    ASSUME NEW check \in Checks, NEW k \in AllKexts, NEW before \in KextSets, NEW version, NEW allow
    PROVE  /\ CheckedBy(check, k, before, version, allow) \in KextSets
           /\ (\A needed \in AllKexts : \A all \in KextSets : check[needed][all] \in Allowed(needed, all))
              => CheckedBy(check, k, before, version, allow) \in Allowed(k, before)
  <1> DEFINE needs == KextInfo[k].requires
             base == before \cup {k}
             all == Folded(Calls(check, k), base, needs)
             Kept == {after \in KextSets : before \cap RequiredKexts \subseteq after /\ after \cap Alone \subseteq base}
  <1>1. base \in KextSets /\ base \in Kept
    BY DEF KextSets
  <1>2. Len(needs) \in Nat /\ StepOn(Calls(check, k), KextSets, needs)
    BY Requirements, CallsType
  <1>3. all \in KextSets
    <2> HIDE DEF needs, base, KextSets
    <2> QED BY <1>1, <1>2, FoldedType
  <1>4. KextRivals(k) \cap RequiredKexts = {}
    BY KextListAssumption
  <1>5. CheckedBy(check, k, before, version, allow) \in {before, all \ KextRivals(k)}
    BY DEF CheckedBy
  <1>6. ASSUME \A needed \in AllKexts : \A some \in KextSets : check[needed][some] \in Allowed(needed, some)
        PROVE  all \in Kept
    <2> DEFINE Inv == [n \in 0 .. Len(needs) |-> Kept]
    <2>1. ASSUME NEW n \in 1 .. Len(needs), NEW x \in Kept
          PROVE  Calls(check, k)[x][needs[n]] \in Kept
      <3>1. needs[n] \in ToSet(needs) /\ needs[n] \in AllKexts /\ needs[n] \notin Alone /\ x \in KextSets
        BY Requirements
      <3> HIDE DEF needs
      <3>2. Calls(check, k)[x][needs[n]] \in {x, check[needs[n]][x]}
        BY <3>1, CallsType DEF needs
      <3>3. check[needs[n]][x] \in Allowed(needs[n], x)
        BY <3>1, <1>6
      <3>4. check[needs[n]][x] \in Kept
        BY <3>1, <3>3 DEF Allowed
      <3>5. QED BY <3>2, <3>4
    <2>2. Keeps(Inv, Calls(check, k), needs)
      <3>1. \A n \in 1 .. Len(needs) : n \in 0 .. Len(needs) /\ n - 1 \in 0 .. Len(needs)
        BY <1>2
      <3> HIDE DEF needs, Kept
      <3>2. QED BY <2>1, <3>1 DEF Keeps
    <2>3. Inv \in [0 .. Len(needs) -> SUBSET KextSets] /\ base \in Inv[0] /\ Inv[Len(needs)] = Kept
      <3> HIDE DEF base
      <3> QED BY <1>1, <1>2
    <2> HIDE DEF Inv, needs, base, Kept, KextSets
    <2>4. all \in Inv[Len(needs)]
      BY <1>2, <2>2, <2>3, FoldedKeeps
    <2>5. QED BY <2>3, <2>4
  <1> HIDE DEF all
  <1>7. all \ KextRivals(k) \in KextSets
    BY <1>3 DEF KextSets
  <1>8. before \in Allowed(k, before)
    BY DEF Allowed
  <1>9. all \in Kept => all \ KextRivals(k) \in Allowed(k, before)
    BY <1>4, <1>7 DEF Allowed
  <1>10. QED BY <1>5, <1>6, <1>7, <1>8, <1>9

\* The recursive function is what its definition says.
LEMMA CheckSteps ==
    ASSUME NEW version, NEW allow
    PROVE  /\ \A d \in 0 .. Len(KextList) : Checking(version, allow)[d] \in Checks
           /\ \A k \in AllKexts : \A before \in KextSets : Checking(version, allow)[0][k][before] = before
           /\ \A d \in 1 .. Len(KextList) : \A k \in AllKexts : \A before \in KextSets :
                 Checking(version, allow)[d][k][before]
                    = CheckedBy(Checking(version, allow)[d - 1], k, before, version, allow)
  <1> DEFINE N == Len(KextList)
             Rest == [k \in AllKexts |-> [before \in KextSets |-> before]]
             After(c) == [k \in AllKexts |-> [before \in KextSets |-> CheckedBy(c, k, before, version, allow)]]
             Body(f) == [d \in 0 .. N |-> [k \in AllKexts |-> [before \in KextSets |->
                           IF d = 0 \/ k \in before \/ ~(allow \/ KextSupports(k, version)) THEN before
                           ELSE Folded(Calls(f[d - 1], k), before \cup {k}, KextInfo[k].requires) \ KextRivals(k)]]]
             Rebuilt(f) == [d \in 0 .. N |-> IF d = 0 THEN Rest ELSE After(f[d - 1])]
             step == [d \in 1 .. N |-> [c \in Checks |-> After(c)]]
  <1>1. N \in Nat
    BY KextListAssumption
  <1>2. \A f : Body(f) = Rebuilt(f)
    <2> TAKE f
    <2> HIDE DEF N
    <2>1. ASSUME NEW d \in 0 .. N
          PROVE  Body(f)[d] = IF d = 0 THEN Rest ELSE After(f[d - 1])
      BY DEF CheckedBy
    <2>2. QED BY <2>1
  <1>3. \A c \in Checks : After(c) \in Checks
    BY CheckedByAllowed DEF Checks
  <1>4. Rest \in Checks
    BY DEF Checks
  <1>5. PICK g : Unfolds(g, N, Checks, Rest, step)
    <2>1. \A d \in 1 .. N : \A x \in Checks : step[d][x] \in Checks
      <3> HIDE DEF After, N
      <3> QED BY <1>3
    <2> HIDE DEF step, Rest, N
    <2>2. QED BY <1>1, <1>4, <2>1, RecursionExists
  <1>6. \A d \in 1 .. N : g[d] = After(g[d - 1])
    <2> HIDE DEF N
    <2> TAKE d \in 1 .. N
    <2>1. d - 1 \in 0 .. N
      BY <1>1
    <2>2. g[d - 1] \in Checks
      BY <2>1, <1>5 DEF Unfolds
    <2> HIDE DEF After
    <2>3. QED BY <1>5, <2>2 DEF Unfolds
  <1>7. g = Rebuilt(g)
    <2> HIDE DEF After, Rest, N
    <2> QED BY <1>1, <1>5, <1>6 DEF Unfolds
  <1>8. g = Body(g)
    <2> HIDE DEF Body, Rebuilt
    <2> QED BY <1>2, <1>7
  <1> DEFINE check == Checking(version, allow)
  <1>9. check = CHOOSE f : f = Body(f)
    BY DEF Checking, Calls, KextSets
  <1>10. check = Body(check)
    <2> HIDE DEF Body, check
    <2> QED BY <1>8, <1>9, Zenon
  <1>11. check = Rebuilt(check)
    <2> HIDE DEF Body, check, Rebuilt
    <2> QED BY <1>2, <1>10
  <1>12. check[0] = Rest /\ \A d \in 1 .. N : check[d] = After(check[d - 1])
    <2> HIDE DEF Rest, After, check, N
    <2>1. \A d \in 0 .. N : Rebuilt(check)[d] = IF d = 0 THEN Rest ELSE After(check[d - 1])
      OBVIOUS
    <2> HIDE DEF Rebuilt
    <2>2. QED BY <1>1, <1>11, <2>1
  <1> HIDE DEF check, N
  <1>13. \A d \in 0 .. N : check[d] \in Checks
    <2> DEFINE T == {d \in 0 .. N : check[d] \in Checks}
    <2>1. 0 \in T
      <3> HIDE DEF Rest
      <3> QED BY <1>1, <1>4, <1>12
    <2>2. ASSUME NEW d \in 1 .. N, d - 1 \in T PROVE d \in T
      <3> HIDE DEF After
      <3> QED BY <2>2, <1>1, <1>3, <1>12
    <2> HIDE DEF T
    <2>3. 0 .. N \subseteq T
      BY <1>1, <2>1, <2>2, RangeInduction
    <2>4. QED BY <2>3 DEF T
  <1>14. \A d \in 1 .. N : \A k \in AllKexts : \A before \in KextSets :
            check[d][k][before] = CheckedBy(check[d - 1], k, before, version, allow)
    <2> SUFFICES ASSUME NEW d \in 1 .. N, NEW k \in AllKexts, NEW before \in KextSets
                 PROVE  check[d][k][before] = CheckedBy(check[d - 1], k, before, version, allow)
      OBVIOUS
    <2>1. After(check[d - 1])[k][before] = CheckedBy(check[d - 1], k, before, version, allow)
      OBVIOUS
    <2> HIDE DEF After
    <2>2. QED BY <1>12, <2>1
  <1>15. \A k \in AllKexts : \A before \in KextSets : check[0][k][before] = before
    BY <1>12
  <1>16. QED BY <1>13, <1>14, <1>15 DEF check, N

\* However deep the calls go, a call of check_kext does no more than it may.
LEMMA CheckKextAllowed ==
    ASSUME NEW k \in AllKexts, NEW checked \in KextSets, NEW version, NEW allow
    PROVE  CheckKext(k, checked, version, allow) \in Allowed(k, checked)
  <1> DEFINE N == Len(KextList)
             check == Checking(version, allow)
             T == {d \in 0 .. N : \A needed \in AllKexts : \A all \in KextSets :
                                     check[d][needed][all] \in Allowed(needed, all)}
  <1>1. N \in Nat
    BY KextListAssumption
  <1>2. /\ \A d \in 0 .. N : check[d] \in Checks
        /\ \A needed \in AllKexts : \A all \in KextSets : check[0][needed][all] = all
        /\ \A d \in 1 .. N : \A needed \in AllKexts : \A all \in KextSets :
              check[d][needed][all] = CheckedBy(check[d - 1], needed, all, version, allow)
    BY CheckSteps
  <1> HIDE DEF N, check
  <1>3. 0 \in T
    <2>1. \A needed \in AllKexts : \A all \in KextSets : all \in Allowed(needed, all)
      BY DEF Allowed
    <2>2. QED BY <1>1, <1>2, <2>1
  <1>4. ASSUME NEW d \in 1 .. N, d - 1 \in T PROVE d \in T
    <2>1. d - 1 \in 0 .. N /\ check[d - 1] \in Checks
      BY <1>1, <1>2
    <2>2. \A needed \in AllKexts : \A all \in KextSets : check[d - 1][needed][all] \in Allowed(needed, all)
      BY <1>4
    <2>3. \A needed \in AllKexts : \A all \in KextSets :
             CheckedBy(check[d - 1], needed, all, version, allow) \in Allowed(needed, all)
      BY <2>1, <2>2, CheckedByAllowed
    <2>4. QED BY <1>1, <1>2, <2>3
  <1>5. 0 .. N \subseteq T
    <2> HIDE DEF T
    <2> QED BY <1>1, <1>3, <1>4, RangeInduction
  <1>6. check[N][k][checked] \in Allowed(k, checked)
    BY <1>1, <1>5
  <1>7. QED BY <1>6 DEF CheckKext, N, check

\* What the calls for some kexts may do.
LEMMA CheckKextsAllowed ==
    ASSUME NEW names \in Seq(AllKexts), NEW checked \in KextSets, NEW version, NEW allow
    PROVE  /\ CheckKexts(names, checked, version, allow) \in KextSets
           /\ checked \cap RequiredKexts \subseteq CheckKexts(names, checked, version, allow)
           /\ CheckKexts(names, checked, version, allow) \cap Alone \subseteq checked \cup ToSet(names)
  <1> DEFINE step == [all \in KextSets |-> [kext \in ToSet(names) |-> CheckKext(kext, all, version, allow)]]
             Kept == {after \in KextSets : /\ checked \cap RequiredKexts \subseteq after
                                           /\ after \cap Alone \subseteq checked \cup ToSet(names)}
             Inv == [n \in 0 .. Len(names) |-> Kept]
  <1>1. Len(names) \in Nat /\ \A n \in 1 .. Len(names) : names[n] \in ToSet(names) /\ names[n] \in AllKexts
    BY DEF ToSet
  <1>2. ASSUME NEW all \in KextSets, NEW n \in 1 .. Len(names)
        PROVE  step[all][names[n]] \in Allowed(names[n], all)
    <2>1. step[all][names[n]] = CheckKext(names[n], all, version, allow)
      BY <1>1
    <2>2. QED BY <1>1, <2>1, CheckKextAllowed
  <1> HIDE DEF step
  <1>3. StepOn(step, KextSets, names)
    BY <1>2 DEF StepOn, Allowed
  <1>4. ASSUME NEW n \in 1 .. Len(names), NEW x \in Kept
        PROVE  step[x][names[n]] \in Kept
    <2>1. step[x][names[n]] \in Allowed(names[n], x)
      BY <1>2
    <2>2. QED BY <1>1, <2>1 DEF Allowed
  <1>5. checked \in Kept /\ Kept \subseteq KextSets
    OBVIOUS
  <1> HIDE DEF Kept, KextSets
  <1>6. Keeps(Inv, step, names)
    <2>1. \A n \in 1 .. Len(names) : n \in 0 .. Len(names) /\ n - 1 \in 0 .. Len(names)
      BY <1>1
    <2>2. QED BY <1>4, <2>1 DEF Keeps
  <1>7. Inv \in [0 .. Len(names) -> SUBSET KextSets] /\ checked \in Inv[0] /\ Inv[Len(names)] = Kept
    BY <1>1, <1>5
  <1>8. Folded(step, checked, names) \in Kept
    <2> HIDE DEF Inv
    <2>1. Folded(step, checked, names) \in Inv[Len(names)]
      BY <1>1, <1>3, <1>6, <1>7, FoldedKeeps
    <2>2. QED BY <1>7, <2>1
  <1>9. CheckKexts(names, checked, version, allow) \in Kept
    BY <1>8 DEF CheckKexts, step, KextSets
  <1>10. QED BY <1>9 DEF Kept

-----------------------------------------------------------------------------
(* What the rules name.                                                    *)

Others == HardwareKexts \ Alone

\* The other kexts that are named for hardware.
LEMMA OtherNames ==
    {"UTBDefault", "SMCProcessor", "SMCSuperIO", "SMCBatteryManager", "SMCDellSensors",
     "SMCLightSensor", "RestrictEvents", "AppleMCEReporterDisabler", "CryptexFixup",
     "CpuTopologyRebuild", "NootedRed", "WhateverGreen", "ForgedInvariant", "CpuTscSync",
     "AMFIPass", "itlwm", "AirportItlwm", "IOSkywalkFamily", "AppleIGC",
     "AtherosE2200Ethernet", "IntelMausiEthernet", "LucyRTL8125Ethernet", "RealtekRTL8100",
     "RealtekRTL8111", "AppleIGB", "CatalinaBCM5701Ethernet", "IntelLucy",
     "AirportBrcmFixup", "corecaptureElCap", "NullEthernet", "Ath3kBT", "Ath3kBTInjector",
     "BrcmFirmwareData", "IntelBluetoothFirmware", "BlueToolFixup", "VoodooPS2Controller",
     "VoodooRMI", "VoodooSMBus", "VoodooI2CHID", "AlpsHID", "BigSurface", "AsusSMC",
     "BrightnessKeys", "YogaSMC", "ECEnabler", "Sinetek-rtsx", "RealtekCardReader",
     "NVMeFix", "CtlnaAHCIPort", "SATA-unsupported", "GenericUSBXHCI", "XHCI-unsupported",
     "ASPP-Override", "AppleIntelCPUPowerManagement", "AppleIntelCPUPowerManagementClient",
     "NoTouchID"} = Others
  BY DEF Others, Alone, HardwareKexts

LEMMA OtherSequences ==
    /\ <<>> \in Seq(Others)
    /\ \A a \in Others : <<a>> \in Seq(Others)
    /\ \A a, b \in Others : <<a, b>> \in Seq(Others)
    /\ \A s, t \in Seq(Others) : s \o t \in Seq(Others)
  OBVIOUS

LEMMA CpuNames == \A cpu, version : CpuKexts(cpu, version) \in Seq(Others)
  <1>1. "RestrictEvents" \in Others
    BY OtherNames
  <1>2. QED BY <1>1, OtherSequences, Zenon DEF CpuKexts, When

LEMMA ProcessorNames == \A cpu, version : ProcessorKexts(cpu, version) \in Seq(Others)
  <1>1. {"AppleMCEReporterDisabler", "CryptexFixup", "CpuTopologyRebuild"} \subseteq Others
    BY OtherNames
  <1>2. /\ <<"AppleMCEReporterDisabler">> \in Seq(Others) /\ <<"CryptexFixup">> \in Seq(Others)
        /\ <<"CpuTopologyRebuild">> \in Seq(Others)
    BY <1>1
  <1>3. QED BY <1>2, OtherSequences, Zenon DEF ProcessorKexts, When

LEMMA BoardNames == \A machine : BoardKexts(machine) \in Seq(Others)
  BY OtherNames DEF BoardKexts, When

LEMMA BridgeNames == \A cpu : BridgeKexts(cpu) \in Seq(Others)
  BY OtherNames DEF BridgeKexts, When

LEMMA EthernetNames == \A id : EthernetKext(id) \in Seq(Others)
  BY OtherNames DEF EthernetKext

LEMMA ClockNames == \A machine, named : ClockKexts(machine, named) \in Seq(Others)
  <1>1. {"ForgedInvariant", "CpuTscSync"} \subseteq Others
    BY OtherNames
  <1>2. <<"ForgedInvariant">> \in Seq(Others) /\ <<"CpuTscSync">> \in Seq(Others)
    BY <1>1
  <1>3. QED BY <1>2, OtherSequences, Zenon DEF ClockKexts, When

LEMMA OclpNames == \A oclp : OclpKexts(oclp) \in Seq(Others)
  <1>1. <<"AMFIPass", "RestrictEvents">> \in Seq(Others)
    BY OtherNames
  <1>2. QED BY <1>1, OtherSequences, Zenon DEF OclpKexts, When

LEMMA InputNames == \A input : InputKexts(input) \in Seq(Others)
  <1>1. {"VoodooPS2Controller", "VoodooRMI", "VoodooSMBus", "VoodooI2CHID", "AlpsHID"} \subseteq Others
    BY OtherNames
  <1>2. /\ <<"VoodooPS2Controller">> \in Seq(Others) /\ <<"VoodooRMI">> \in Seq(Others)
        /\ <<"VoodooSMBus">> \in Seq(Others) /\ <<"VoodooI2CHID">> \in Seq(Others)
        /\ <<"AlpsHID">> \in Seq(Others)
    BY <1>1
  <1>3. QED BY <1>2, OtherSequences, Zenon DEF InputKexts, When

\* The kexts of a Mac model.
LEMMA SmbiosNames == \A model : SmbiosKexts(model) \in Seq(Others)
  <1>1. <<"RestrictEvents">> \in Seq(Others) /\ <<"NoTouchID">> \in Seq(Others)
    BY OtherNames
  <1>2. QED BY <1>1, OtherSequences, Zenon DEF SmbiosKexts

\* The names for each of some devices.
LEMMA EachNames ==
    ASSUME NEW S, NEW devices, Len(devices) \in Nat, NEW names \in [1 .. Len(devices) -> Seq(S)]
    PROVE  /\ Joined(names) \in Seq(S)
           /\ ToSet(Joined(names)) = UNION {ToSet(names[i]) : i \in 1 .. Len(devices)}
  <1>1. names \in Seq(Seq(S)) /\ Len(names) = Len(devices)
    OBVIOUS
  <1>2. QED BY <1>1, JoinedElements

\* What a machine keeps its devices in.
Listed(machine) == \A part \in ReportLists : Len(machine[part]) \in Nat

LEMMA MachineLists ==
    ASSUME NEW machine, Listed(machine)
    PROVE  /\ Len(machine.gpus) \in Nat /\ Len(machine.sound) \in Nat /\ Len(machine.network) \in Nat
           /\ Len(machine.storage) \in Nat /\ Len(machine.bluetooth) \in Nat /\ Len(machine.sd) \in Nat
           /\ Len(machine.inputs) \in Nat /\ Len(machine.system) \in Nat /\ Len(machine.usb) \in Nat
  BY DEF Listed, ReportLists

LEMMA AnswerTypes ==
    ASSUME NEW machine, NEW version, NEW answer \in Answers(machine, version)
    PROVE  /\ answer.wifi \in {"itlwm", "AirportItlwm"}
           /\ answer.navi \in {"NootRX", "WhateverGreen", "none"}
  <1>1. PICK audio, navi, wifi, rootPatch : answer \in [audio : audio, navi : navi, wifi : wifi, rootPatch : rootPatch]
                                            /\ wifi \subseteq {"itlwm", "AirportItlwm"}
                                            /\ navi \subseteq {"NootRX", "WhateverGreen", "none"}
    BY DEF Answers
  <1>2. QED BY <1>1

\* What the rules name for the hardware, kind by kind.
LEMMA WirelessNames ==
    ASSUME NEW id, NEW version, NEW answer, answer.wifi \in {"itlwm", "AirportItlwm"}
    PROVE  WirelessKexts(id, version, answer) \in Seq(Others)
  <1>1. {"itlwm", "AirportItlwm", "IOSkywalkFamily", "AirportBrcmFixup", "corecaptureElCap", "AMFIPass"} \subseteq Others
    BY OtherNames
  <1>2. /\ <<answer.wifi>> \in Seq(Others) /\ <<"IOSkywalkFamily">> \in Seq(Others)
        /\ <<"AirportBrcmFixup">> \in Seq(Others) /\ <<"corecaptureElCap">> \in Seq(Others)
        /\ <<"AMFIPass">> \in Seq(Others)
    BY <1>1
  <1>3. IntelWiFiKexts(version, answer) \in Seq(Others)
    BY <1>2, OtherSequences, Zenon DEF IntelWiFiKexts, When
  <1>4. QED BY <1>2, <1>3, OtherSequences, Zenon DEF WirelessKexts, When

LEMMA NetworkNames ==
    ASSUME NEW machine, Listed(machine), NEW version, NEW answer, answer.wifi \in {"itlwm", "AirportItlwm"}
    PROVE  NetworkKexts(machine, version, answer) \in Seq(Others)
  <1> DEFINE names == [i \in 1 .. Len(machine.network) |->
                          WirelessKexts(machine.network[i].id, version, answer) \o EthernetKext(machine.network[i].id)]
  <1>1. Len(machine.network) \in Nat
    BY MachineLists
  <1>2. names \in [1 .. Len(machine.network) -> Seq(Others)]
    BY WirelessNames, EthernetNames, OtherSequences
  <1>3. Joined(names) \in Seq(Others)
    <2> HIDE DEF names
    <2> QED BY <1>1, <1>2, EachNames
  <1>4. <<"NullEthernet">> \in Seq(Others)
    BY OtherNames
  <1>5. NetworkKexts(machine, version, answer)
          = Joined(names) \o When(\A d \in ToSet(machine.network) : d.bus = "USB", <<"NullEthernet">>)
    BY DEF NetworkKexts, Each
  <1> HIDE DEF names
  <1>6. QED BY <1>3, <1>4, <1>5, OtherSequences, Zenon DEF When

LEMMA BluetoothNames ==
    ASSUME NEW machine, Listed(machine)
    PROVE  BluetoothKexts(machine) \in Seq(Others)
  <1> DEFINE Of(d) ==
               CASE d.id \in AtherosBluetoothIDs -> <<"Ath3kBT", "Ath3kBTInjector">>
                 [] d.id \in BroadcomBluetoothIDs -> <<"BrcmFirmwareData">>
                 [] d.id \in IntelBluetoothIDs -> <<"IntelBluetoothFirmware">>
                 [] OTHER -> When(d.id = <<"Bluetooth", 55>>, <<"BlueToolFixup">>)
             names == [i \in 1 .. Len(machine.bluetooth) |-> Of(machine.bluetooth[i])]
  <1>1. Len(machine.bluetooth) \in Nat
    BY MachineLists
  <1>2. /\ <<"Ath3kBT", "Ath3kBTInjector">> \in Seq(Others) /\ <<"BrcmFirmwareData">> \in Seq(Others)
        /\ <<"IntelBluetoothFirmware">> \in Seq(Others) /\ <<"BlueToolFixup">> \in Seq(Others)
    BY OtherNames
  <1>3. \A d : Of(d) \in Seq(Others)
    BY <1>2, OtherSequences, Zenon DEF When
  <1> HIDE DEF Of
  <1>4. names \in [1 .. Len(machine.bluetooth) -> Seq(Others)]
    BY <1>3
  <1>5. BluetoothKexts(machine) = Joined(names)
    BY DEF BluetoothKexts, Each, Of
  <1> HIDE DEF names
  <1>6. QED BY <1>1, <1>4, <1>5, EachNames

LEMMA LaptopNames ==
    ASSUME NEW machine, Listed(machine)
    PROVE  LaptopKexts(machine) \in Seq(Others)
  <1> DEFINE names == [i \in 1 .. Len(machine.inputs) |-> InputKexts(machine.inputs[i])]
  <1>1. Len(machine.inputs) \in Nat
    BY MachineLists
  <1>2. names \in [1 .. Len(machine.inputs) -> Seq(Others)]
    BY InputNames
  <1>3. Joined(names) \in Seq(Others)
    <2> HIDE DEF names
    <2> QED BY <1>1, <1>2, EachNames
  <1>4. Each(InputKexts, machine.inputs) = Joined(names)
    BY DEF Each
  <1>5. /\ <<"BigSurface">> \in Seq(Others) /\ <<"AsusSMC">> \in Seq(Others)
        /\ <<"BrightnessKeys">> \in Seq(Others)
    BY OtherNames
  <1>6. Each(InputKexts, machine.inputs) \in Seq(Others)
    BY <1>3, <1>4
  <1> HIDE DEF names
  <1>7. QED BY <1>5, <1>6, OtherSequences, Zenon DEF LaptopKexts, When

LEMMA PlatformNames ==
    ASSUME NEW machine, Listed(machine), NEW patches
    PROVE  PlatformKexts(machine, patches) \in Seq(Others)
  <1> DEFINE names == [i \in 1 .. Len(machine.system) |-> When(machine.system[i] \in YogaHIDs, <<"YogaSMC">>)]
  <1>1. Len(machine.system) \in Nat
    BY MachineLists
  <1>2. <<"YogaSMC">> \in Seq(Others) /\ <<"ECEnabler">> \in Seq(Others)
    BY OtherNames
  <1>3. \A hid : When(hid \in YogaHIDs, <<"YogaSMC">>) \in Seq(Others)
    BY <1>2, OtherSequences, Zenon DEF When
  <1>4. names \in [1 .. Len(machine.system) -> Seq(Others)]
    BY <1>3
  <1>5. PlatformKexts(machine, patches) = Joined(names) \o When("BATP" \in patches, <<"ECEnabler">>)
    BY DEF PlatformKexts, Each
  <1> HIDE DEF names
  <1>6. Joined(names) \in Seq(Others)
    BY <1>1, <1>4, EachNames
  <1>7. QED BY <1>2, <1>5, <1>6, OtherSequences, Zenon DEF When

LEMMA StorageNames ==
    ASSUME NEW machine, Listed(machine), NEW version
    PROVE  StorageKexts(machine, version) \in Seq(Others)
  <1> DEFINE Reader(d) ==
               When(d.id \in RealtekCardReaderIDs, IF d.id[2] >= 5 THEN <<"Sinetek-rtsx">> ELSE <<"RealtekCardReader">>)
             Disk(d) ==
               CASE d.interface = "NVMe" -> <<"NVMeFix">>
                 [] d.interface = "AHCI" /\ machine.cpu.maker # "AMD" -> <<>>
                 [] OTHER -> When(d.id \in UnsupportedSATAControllerIDs,
                                  IF version >= Darwin(20, 0, 0) THEN <<"CtlnaAHCIPort">>
                                  ELSE When(d.id[2] >= 15, <<"SATA-unsupported">>))
             readers == [i \in 1 .. Len(machine.sd) |-> Reader(machine.sd[i])]
             disks == [i \in 1 .. Len(machine.storage) |-> Disk(machine.storage[i])]
  <1>1. Len(machine.sd) \in Nat /\ Len(machine.storage) \in Nat
    BY MachineLists
  <1>2. /\ <<"Sinetek-rtsx">> \in Seq(Others) /\ <<"RealtekCardReader">> \in Seq(Others)
        /\ <<"NVMeFix">> \in Seq(Others) /\ <<"CtlnaAHCIPort">> \in Seq(Others)
        /\ <<"SATA-unsupported">> \in Seq(Others)
    BY OtherNames
  <1>3. \A d : Reader(d) \in Seq(Others) /\ Disk(d) \in Seq(Others)
    BY <1>2, OtherSequences, Zenon DEF When
  <1>4. StorageKexts(machine, version) = Joined(readers) \o Joined(disks)
    BY DEF StorageKexts, Each
  <1> HIDE DEF Reader, Disk
  <1>5. /\ readers \in [1 .. Len(machine.sd) -> Seq(Others)]
        /\ disks \in [1 .. Len(machine.storage) -> Seq(Others)]
    BY <1>3
  <1> HIDE DEF readers, disks
  <1>6. Joined(readers) \in Seq(Others) /\ Joined(disks) \in Seq(Others)
    BY <1>1, <1>5, EachNames
  <1>7. QED BY <1>4, <1>6, OtherSequences

LEMMA UsbNames ==
    ASSUME NEW machine, Listed(machine)
    PROVE  UsbKexts(machine) \in Seq(Others)
  <1> DEFINE Of(d) == When(d.id \in UnsupportedUSBControllerIDs /\ d.listed,
                           IF d.maker = "AMD" THEN When(OnLaptop(machine), <<"GenericUSBXHCI">>)
                           ELSE <<"XHCI-unsupported">>)
             names == [i \in 1 .. Len(machine.usb) |-> Of(machine.usb[i])]
  <1>1. Len(machine.usb) \in Nat
    BY MachineLists
  <1>2. <<"GenericUSBXHCI">> \in Seq(Others) /\ <<"XHCI-unsupported">> \in Seq(Others)
    BY OtherNames
  <1>3. \A d : Of(d) \in Seq(Others)
    BY <1>2, OtherSequences, Zenon DEF When
  <1>4. UsbKexts(machine) = Joined(names)
    BY DEF UsbKexts, Each
  <1> HIDE DEF Of
  <1>5. names \in [1 .. Len(machine.usb) -> Seq(Others)]
    BY <1>3
  <1> HIDE DEF names
  <1>6. QED BY <1>1, <1>4, <1>5, EachNames

\* AppleALC is named before Tahoe, or because the user says so.
LEMMA AudioNames ==
    ASSUME NEW machine, Listed(machine), NEW version, NEW answer
    PROVE  /\ AudioKexts(machine, version, answer) \in Seq({"AppleALC"})
           /\ "AppleALC" \in ToSet(AudioKexts(machine, version, answer)) =>
                version < Darwin(25, 0, 0) \/ answer.audio = "AppleALC"
  <1> DEFINE Asked == version < Darwin(25, 0, 0) \/ answer.audio = "AppleALC"
             names == [i \in 1 .. Len(machine.sound) |->
                         When(machine.sound[i].id \in CodecIDs /\ Asked, <<"AppleALC">>)]
  <1>1. Len(machine.sound) \in Nat
    BY MachineLists
  <1>2. <<>> \in Seq({"AppleALC"}) /\ <<"AppleALC">> \in Seq({"AppleALC"}) /\ ToSet(<<>>) = {}
    BY DEF ToSet
  <1>3. AudioKexts(machine, version, answer) = Joined(names)
    BY DEF AudioKexts, Each
  <1> HIDE DEF Asked
  <1>4. \A d : When(d.id \in CodecIDs /\ Asked, <<"AppleALC">>) \in Seq({"AppleALC"})
    BY <1>2, Zenon DEF When
  <1>5. names \in [1 .. Len(machine.sound) -> Seq({"AppleALC"})]
    BY <1>4
  <1>6. ASSUME ~Asked, NEW i \in 1 .. Len(machine.sound)
        PROVE  ToSet(names[i]) = {}
    <2>1. \A d : When(d.id \in CodecIDs /\ Asked, <<"AppleALC">>) = <<>>
      BY <1>6, Zenon DEF When
    <2>2. names[i] = <<>>
      BY <2>1
    <2>3. QED BY <1>2, <2>2
  <1> HIDE DEF names
  <1>7. /\ Joined(names) \in Seq({"AppleALC"})
        /\ ToSet(Joined(names)) = UNION {ToSet(names[i]) : i \in 1 .. Len(machine.sound)}
    BY <1>1, <1>5, EachNames
  <1>8. "AppleALC" \in ToSet(Joined(names)) => Asked
    BY <1>6, <1>7
  <1>9. QED BY <1>3, <1>7, <1>8 DEF Asked

GraphicsKexts == {"NootedRed", "WhateverGreen", "NootRX"}
NaviChoices == {"NootRX", "WhateverGreen", "none"}

\* NootRX is named for a Navi 22, or as the choice when there is no Intel card.
NamedForCards(kexts, cards) ==
    /\ kexts \in Seq(GraphicsKexts)
    /\ "NootRX" \in ToSet(kexts) =>
         \/ \A g \in cards : g.maker # "Intel"
         \/ \E g \in cards : ~g.integrated /\ g.codename = "Navi 22"

\* The rules for the graphics cards.
LEMMA GpuNames ==
    ASSUME NEW machine, Listed(machine), NEW version, NEW answer,
           answer.navi \in NaviChoices
    PROVE  NamedForCards(GpuKexts(machine, version, answer), ToSet(machine.gpus))
  <1> DEFINE intel == \E g \in ToSet(machine.gpus) : g.maker = "Intel"
             Chosen(gpu) == ~gpu.integrated /\ gpu.codename \in {"Navi 21", "Navi 23"}
             Ends(gpu) == /\ ~gpu.integrated /\ ~Chosen(gpu)
                          /\ gpu.codename = "Navi 22" \/ version >= Darwin(25, 0, 0)
             Of(gpu) ==
                 CASE gpu.integrated -> IF gpu.maker = "AMD" THEN <<"NootedRed">> ELSE <<"WhateverGreen">>
                   [] Chosen(gpu) -> When(~intel /\ answer.navi # "none", <<answer.navi>>)
                   [] ~gpu.integrated /\ gpu.codename = "Navi 22" -> <<"NootRX">>
                   [] OTHER -> When(~Ends(gpu), <<"WhateverGreen">>)
             Looked == {i \in 1 .. Len(machine.gpus) : \A j \in 1 .. i - 1 : ~Ends(machine.gpus[j])}
             cards == SubSeq(machine.gpus, 1, Cardinality(Looked))
             names == [i \in 1 .. Len(cards) |-> Of(cards[i])]
  <1>1. GpuKexts(machine, version, answer) = Joined(names)
    BY DEF GpuKexts, Each
  <1>2. Len(machine.gpus) \in Nat
    BY MachineLists
  <1>3. Cardinality(Looked) \in Nat /\ Cardinality(Looked) <= Len(machine.gpus)
    <2>1. IsFiniteSet(1 .. Len(machine.gpus)) /\ Cardinality(1 .. Len(machine.gpus)) = Len(machine.gpus)
      BY <1>2, FS_Interval
    <2>2. Looked \subseteq 1 .. Len(machine.gpus)
      OBVIOUS
    <2> HIDE DEF Looked
    <2>3. IsFiniteSet(Looked) /\ Cardinality(Looked) <= Cardinality(1 .. Len(machine.gpus))
      BY <2>1, <2>2, FS_Subset
    <2>4. QED BY <2>1, <2>3, FS_CardinalityType
  <1> HIDE DEF Looked, Of
  <1>4. Len(cards) \in Nat /\ \A i \in 1 .. Len(cards) : cards[i] \in ToSet(machine.gpus)
    BY <1>2, <1>3 DEF ToSet
  <1>5. /\ <<"NootedRed">> \in Seq(GraphicsKexts) /\ <<"WhateverGreen">> \in Seq(GraphicsKexts)
        /\ <<"NootRX">> \in Seq(GraphicsKexts) /\ <<>> \in Seq(GraphicsKexts)
        /\ answer.navi # "none" => <<answer.navi>> \in Seq(GraphicsKexts)
    BY DEF GraphicsKexts, NaviChoices
  <1>6. /\ "NootRX" \notin ToSet(<<"NootedRed">>) /\ "NootRX" \notin ToSet(<<"WhateverGreen">>)
        /\ "NootRX" \notin ToSet(<<>>)
    BY DEF ToSet
  <1>7. ASSUME NEW gpu
        PROVE  /\ Of(gpu) \in Seq(GraphicsKexts)
               /\ "NootRX" \in ToSet(Of(gpu)) =>
                     ~intel \/ (~gpu.integrated /\ gpu.codename = "Navi 22")
    BY <1>5, <1>6, Zenon DEF Of, When
  <1>8. names \in [1 .. Len(cards) -> Seq(GraphicsKexts)]
    BY <1>7
  <1>9. \A i \in 1 .. Len(cards) : names[i] = Of(cards[i])
    OBVIOUS
  <1> HIDE DEF names, cards
  <1>10. /\ Joined(names) \in Seq(GraphicsKexts)
         /\ ToSet(Joined(names)) = UNION {ToSet(names[i]) : i \in 1 .. Len(cards)}
    BY <1>4, <1>8, EachNames
  <1>11. ASSUME "NootRX" \in ToSet(Joined(names)), intel
         PROVE  \E g \in ToSet(machine.gpus) : ~g.integrated /\ g.codename = "Navi 22"
    <2>1. PICK i \in 1 .. Len(cards) : "NootRX" \in ToSet(names[i])
      BY <1>10, <1>11
    <2>2. "NootRX" \in ToSet(Of(cards[i])) /\ cards[i] \in ToSet(machine.gpus)
      BY <1>4, <1>9, <2>1
    <2>3. ~cards[i].integrated /\ cards[i].codename = "Navi 22"
      BY <1>7, <1>11, <2>2
    <2>4. QED BY <2>2, <2>3
  <1>12. QED BY <1>1, <1>10, <1>11 DEF NamedForCards

\* Names of which those that no kext requires are in a set.
Naming(names, alone) == names \in Seq(HardwareKexts) /\ ToSet(names) \cap Alone \subseteq alone

LEMMA NamingOthers ==
    ASSUME NEW names \in Seq(Others), NEW alone
    PROVE  Naming(names, alone)
  <1>1. ToSet(names) \subseteq Others /\ names \in Seq(HardwareKexts)
    BY DEF ToSet, Others
  <1>2. QED BY <1>1 DEF Naming, Others

LEMMA NamingBoth ==
    ASSUME NEW s, NEW t, NEW alone, Naming(s, alone), Naming(t, alone)
    PROVE  Naming(s \o t, alone)
  <1>1. s \o t \in Seq(HardwareKexts) /\ ToSet(s \o t) = ToSet(s) \cup ToSet(t)
    BY Concatenated DEF Naming
  <1>2. QED BY <1>1 DEF Naming

\* NootRX is named for the graphics only, AppleALC for the audio only.
LEMMA NamedNames ==
    ASSUME NEW machine, Listed(machine), NEW version, NEW oclp, NEW patches,
           NEW answer \in Answers(machine, version)
    PROVE  LET names == NamedKexts(machine, version, oclp, patches, answer)
           IN  /\ names \in Seq(HardwareKexts)
               /\ "NootRX" \in ToSet(names) => "NootRX" \in ToSet(GpuKexts(machine, version, answer))
               /\ "AppleALC" \in ToSet(names) => "AppleALC" \in ToSet(AudioKexts(machine, version, answer))
  <1> DEFINE names == NamedKexts(machine, version, oclp, patches, answer)
             audio == AudioKexts(machine, version, answer)
             gpus == GpuKexts(machine, version, answer)
             alone == ToSet(audio) \cup ToSet(gpus)
             graphics == BoardKexts(machine) \o CpuKexts(machine.cpu, version) \o audio
                         \o ProcessorKexts(machine.cpu, version) \o gpus
             root == oclp \/ AudioNeedsOclp(machine, version, answer)
  <1>1. answer.wifi \in {"itlwm", "AirportItlwm"} /\ answer.navi \in {"NootRX", "WhateverGreen", "none"}
    BY AnswerTypes
  <1>2. audio \in Seq({"AppleALC"}) /\ gpus \in Seq(GraphicsKexts)
    <2>1. audio \in Seq({"AppleALC"})
      BY AudioNames
    <2>2. gpus \in Seq(GraphicsKexts)
      <3>1. answer.navi \in NaviChoices
        BY <1>1 DEF NaviChoices
      <3>2. NamedForCards(GpuKexts(machine, version, answer), ToSet(machine.gpus))
        BY <3>1, GpuNames
      <3>3. QED BY <3>2 DEF NamedForCards
    <2>3. QED BY <2>1, <2>2
  <1> HIDE DEF audio, gpus
  <1>3. /\ ToSet(audio) \subseteq {"AppleALC"} /\ ToSet(gpus) \subseteq GraphicsKexts
        /\ audio \in Seq(HardwareKexts) /\ gpus \in Seq(HardwareKexts)
    <2>1. {"AppleALC"} \subseteq HardwareKexts /\ GraphicsKexts \subseteq HardwareKexts
      BY DEF GraphicsKexts, HardwareKexts
    <2>2. QED BY <1>2, <2>1 DEF ToSet
  <1>4. Naming(audio, alone) /\ Naming(gpus, alone)
    BY <1>3 DEF Naming
  <1> HIDE DEF alone
  <1>5. /\ Naming(BoardKexts(machine), alone) /\ Naming(CpuKexts(machine.cpu, version), alone)
        /\ Naming(ProcessorKexts(machine.cpu, version), alone)
        /\ \A named : Naming(ClockKexts(machine, named), alone)
        /\ Naming(OclpKexts(root), alone) /\ Naming(NetworkKexts(machine, version, answer), alone)
        /\ Naming(BluetoothKexts(machine), alone) /\ Naming(LaptopKexts(machine), alone)
        /\ Naming(PlatformKexts(machine, patches), alone) /\ Naming(StorageKexts(machine, version), alone)
        /\ Naming(UsbKexts(machine), alone) /\ Naming(BridgeKexts(machine.cpu), alone)
    BY <1>1, NamingOthers, BoardNames, CpuNames, ProcessorNames, ClockNames, OclpNames, NetworkNames,
       BluetoothNames, LaptopNames, PlatformNames, StorageNames, UsbNames, BridgeNames
  <1>6. Naming(graphics, alone)
    BY <1>4, <1>5, NamingBoth
  <1> HIDE DEF graphics
  <1>7. Naming(graphics \o ClockKexts(machine, graphics) \o OclpKexts(root)
               \o NetworkKexts(machine, version, answer) \o BluetoothKexts(machine)
               \o LaptopKexts(machine), alone)
    BY <1>5, <1>6, NamingBoth
  <1>8. Naming(graphics \o ClockKexts(machine, graphics) \o OclpKexts(root)
               \o NetworkKexts(machine, version, answer) \o BluetoothKexts(machine)
               \o LaptopKexts(machine) \o PlatformKexts(machine, patches)
               \o StorageKexts(machine, version) \o UsbKexts(machine) \o BridgeKexts(machine.cpu), alone)
    BY <1>5, <1>7, NamingBoth
  <1>9. Naming(names, alone)
    BY <1>8 DEF NamedKexts, graphics, root, audio, gpus
  <1>10. "AppleALC" \notin GraphicsKexts /\ "NootRX" \in Alone /\ "AppleALC" \in Alone
    BY DEF GraphicsKexts, Alone
  <1> HIDE DEF names
  <1>11. /\ names \in Seq(HardwareKexts)
         /\ "NootRX" \in ToSet(names) => "NootRX" \in ToSet(gpus)
         /\ "AppleALC" \in ToSet(names) => "AppleALC" \in ToSet(audio)
    BY <1>3, <1>9, <1>10 DEF Naming, alone
  <1>12. QED BY <1>11 DEF names, audio, gpus

-----------------------------------------------------------------------------
(* The devices that are kept.                                              *)

KeptOf(choice, devices) == Those(devices, {d \in ToSet(devices) : d.name \in choice.kept})

\* A customized report has the kept devices in its lists, and what it had elsewhere.
LEMMA CustomizedParts ==
    ASSUME NEW name \in DOMAIN Reports, NEW choice
    PROVE  LET report == Reports[name]
               machine == Customized(report, choice)
           IN  /\ \A part \in ReportLists : machine[part] \in {report[part], KeptOf(choice, report[part])}
               /\ machine.gpus = KeptOf(choice, report.gpus)
  <1> DEFINE report == Reports[name]
             machine == Customized(report, choice)
  <1>1. ReportLists \cup {"uefi", "patched"} \subseteq DOMAIN report
    BY ReportAssumption
  <1>2. machine = [report EXCEPT !.gpus = KeptOf(choice, @), !.sound = KeptOf(choice, @),
                                 !.biometric = KeptOf(choice, @), !.network = KeptOf(choice, @),
                                 !.storage = KeptOf(choice, @), !.bluetooth = KeptOf(choice, @),
                                 !.sd = KeptOf(choice, @), !.uefi = choice.uefi, !.patched = choice.patched]
    BY DEF Customized, KeptOf
  <1> HIDE DEF machine, report
  <1>3. \A part \in ReportLists : machine[part] \in {report[part], KeptOf(choice, report[part])}
    BY <1>1, <1>2 DEF ReportLists
  <1>4. machine.gpus = KeptOf(choice, report.gpus)
    BY <1>1, <1>2 DEF ReportLists
  <1>5. QED BY <1>3, <1>4 DEF machine, report

\* A list of kept devices holds those of the list that are kept.
LEMMA KeptElements ==
    ASSUME NEW name \in DOMAIN Reports, NEW choice, NEW part \in ReportLists
    PROVE  LET devices == Reports[name][part]
           IN  /\ KeptOf(choice, devices) \in Seq(ToSet(devices))
               /\ ToSet(KeptOf(choice, devices)) = {d \in ToSet(devices) : d.name \in choice.kept}
  <1> DEFINE devices == Reports[name][part]
  <1>1. devices \in Seq(ToSet(devices))
    BY ReportAssumption
  <1> HIDE DEF devices
  <1>2. QED BY <1>1, ThoseElements DEF KeptOf, devices

\* A customized report is made of lists.
LEMMA CustomizedListed ==
    ASSUME NEW name \in DOMAIN Reports, NEW choice
    PROVE  Listed(Customized(Reports[name], choice))
  <1> DEFINE report == Reports[name]
             machine == Customized(report, choice)
  <1>1. ASSUME NEW part \in ReportLists
        PROVE  Len(machine[part]) \in Nat
    <2>1. machine[part] \in {report[part], KeptOf(choice, report[part])}
      BY CustomizedParts
    <2>2. report[part] \in Seq(ToSet(report[part])) /\ KeptOf(choice, report[part]) \in Seq(ToSet(report[part]))
      BY ReportAssumption, KeptElements
    <2> HIDE DEF machine, report
    <2>3. QED BY <2>1, <2>2
  <1>2. QED BY <1>1 DEF Listed

\* The devices of a report.
LEMMA ReportDevices ==
    ASSUME NEW name \in DOMAIN Reports
    PROVE  LET report == Reports[name]
               devices == report.gpus \o Sections(report)
           IN  /\ ToSet(devices) = ToSet(report.gpus) \cup ToSet(Sections(report))
               /\ \A d, e \in ToSet(devices) : d.name = e.name => d = e
               /\ ToSet(report.network) \cup ToSet(report.bluetooth) \cup ToSet(report.sd)
                    \subseteq ToSet(Sections(report))
               /\ \A d \in ToSet(report.gpus) : \A e \in ToSet(Sections(report)) : d.name # e.name
               /\ \A i, j \in 1 .. Len(report.gpus) : report.gpus[i].name = report.gpus[j].name => i = j
  <1> DEFINE report == Reports[name]
             sections == Sections(report)
             devices == report.gpus \o sections
             S == UNION {ToSet(report[part]) : part \in ReportLists}
  <1>1. \A part \in ReportLists : report[part] \in Seq(S)
    <2>1. ASSUME NEW part \in ReportLists PROVE report[part] \in Seq(S)
      <3>1. report[part] \in Seq(ToSet(report[part])) /\ ToSet(report[part]) \subseteq S
        BY ReportAssumption
      <3> HIDE DEF report, S
      <3>2. QED BY <3>1
    <2>2. QED BY <2>1
  <1> HIDE DEF S
  <1>2. /\ report.gpus \in Seq(S) /\ report.sound \in Seq(S) /\ report.biometric \in Seq(S)
        /\ report.network \in Seq(S) /\ report.storage \in Seq(S) /\ report.bluetooth \in Seq(S)
        /\ report.sd \in Seq(S)
    <2> HIDE DEF report
    <2> QED BY <1>1 DEF ReportLists
  <1>3. /\ sections \in Seq(S)
        /\ ToSet(report.network) \subseteq ToSet(sections) /\ ToSet(report.bluetooth) \subseteq ToSet(sections)
        /\ ToSet(report.sd) \subseteq ToSet(sections)
    <2> HIDE DEF report
    <2> DEFINE one == report.sound \o report.biometric
               two == one \o report.network
               three == two \o report.storage
               four == three \o report.bluetooth
    <2>1. one \in Seq(S)
      BY <1>2, Concatenated
    <2>2. two \in Seq(S) /\ ToSet(two) = ToSet(one) \cup ToSet(report.network)
      <3> HIDE DEF one
      <3> QED BY <1>2, <2>1, Concatenated
    <2>3. three \in Seq(S) /\ ToSet(three) = ToSet(two) \cup ToSet(report.storage)
      <3> HIDE DEF two
      <3> QED BY <1>2, <2>2, Concatenated
    <2>4. four \in Seq(S) /\ ToSet(four) = ToSet(three) \cup ToSet(report.bluetooth)
      <3> HIDE DEF three
      <3> QED BY <1>2, <2>3, Concatenated
    <2>5. sections = four \o report.sd
      BY DEF Sections
    <2> HIDE DEF two, three, four, sections
    <2>6. sections \in Seq(S) /\ ToSet(sections) = ToSet(four) \cup ToSet(report.sd)
      BY <1>2, <2>4, <2>5, Concatenated
    <2>7. QED BY <2>2, <2>3, <2>4, <2>6
  <1>4. /\ devices \in Seq(S)
        /\ ToSet(devices) = ToSet(report.gpus) \cup ToSet(sections)
    <2> HIDE DEF report, sections
    <2> QED BY <1>2, <1>3, Concatenated
  <1>5. \A i, j \in DOMAIN devices : devices[i].name = devices[j].name => i = j
    BY MenuAssumption
  <1>6. ASSUME NEW d \in ToSet(devices), NEW e \in ToSet(devices), d.name = e.name
        PROVE  d = e
    <2> HIDE DEF devices
    <2>1. PICK i \in DOMAIN devices, j \in DOMAIN devices : d = devices[i] /\ e = devices[j]
      BY DEF ToSet
    <2>2. QED BY <1>5, <1>6, <2>1
  <1>7. ASSUME NEW d \in ToSet(report.gpus), NEW e \in ToSet(sections)
        PROVE  d.name # e.name
    <2>1. d.kind = "GPU" /\ e.kind # "GPU"
      BY ReportAssumption
    <2>2. d \in ToSet(devices) /\ e \in ToSet(devices)
      BY <1>4
    <2> HIDE DEF devices, report, sections
    <2>3. QED BY <1>6, <2>1, <2>2
  <1>8. \A i, j \in 1 .. Len(report.gpus) : report.gpus[i].name = report.gpus[j].name => i = j
    <2>1. \A i \in 1 .. Len(report.gpus) : i \in DOMAIN devices /\ devices[i] = report.gpus[i]
      <3> HIDE DEF report, sections
      <3> QED BY <1>2, <1>3
    <2> HIDE DEF devices, report
    <2>2. QED BY <1>5, <2>1
  <1> HIDE DEF report, sections
  <1>9. /\ ToSet(devices) = ToSet(report.gpus) \cup ToSet(sections)
        /\ \A d, e \in ToSet(devices) : d.name = e.name => d = e
        /\ ToSet(report.network) \cup ToSet(report.bluetooth) \cup ToSet(report.sd) \subseteq ToSet(sections)
        /\ \A d \in ToSet(report.gpus) : \A e \in ToSet(sections) : d.name # e.name
    BY <1>3, <1>4, <1>6, <1>7
  <1>10. QED BY <1>8, <1>9 DEF report, sections

\* The devices a selection is between are devices of their list.
LEMMA CompatibleElements ==
    ASSUME NEW devices, devices \in Seq(ToSet(devices)), NEW check, NEW version
    PROVE  LET compatible == CompatibleDevices(devices, check, version)
           IN  /\ Len(compatible) \in Nat /\ DOMAIN compatible = 1 .. Len(compatible)
               /\ \A i \in 1 .. Len(compatible) :
                     /\ compatible[i] \in ToSet(devices)
                     /\ Fate(compatible[i].name, check, version) \in {"kept", "patched"}
               /\ \A d \in ToSet(devices) :
                     /\ Fate(d.name, check, version) \in {"kept", "patched"}
                     /\ d.kind # "Network"
                     => \E i \in 1 .. Len(compatible) : d = compatible[i]
  <1> DEFINE compatible == CompatibleDevices(devices, check, version)
             set == {d \in ToSet(devices) : /\ Fate(d.name, check, version) \in {"kept", "patched"}
                                            /\ d.kind = "Network" => d.id \in WirelessCardIDs}
  <1>1. compatible = Those(devices, set)
    BY DEF CompatibleDevices
  <1>2. \A d \in ToSet(devices) :
           /\ Fate(d.name, check, version) \in {"kept", "patched"}
           /\ d.kind # "Network"
           => d \in set
    OBVIOUS
  <1>3. set \subseteq ToSet(devices) /\ \A d \in set : Fate(d.name, check, version) \in {"kept", "patched"}
    OBVIOUS
  <1> HIDE DEF compatible, set
  <1>4. compatible \in Seq(ToSet(devices)) /\ ToSet(compatible) = ToSet(devices) \cap set
    BY <1>1, ThoseElements
  <1>5. Len(compatible) \in Nat /\ DOMAIN compatible = 1 .. Len(compatible)
    BY <1>4
  <1>6. \A d \in set : \E i \in 1 .. Len(compatible) : d = compatible[i]
    <2>1. \A d \in set : d \in ToSet(compatible)
      BY <1>3, <1>4
    <2>2. QED BY <1>5, <2>1 DEF ToSet
  <1>7. \A i \in 1 .. Len(compatible) : compatible[i] \in set
    <2>1. \A i \in 1 .. Len(compatible) : compatible[i] \in ToSet(compatible)
      BY <1>5 DEF ToSet
    <2>2. QED BY <1>4, <2>1
  <1>8. QED BY <1>2, <1>3, <1>5, <1>6, <1>7 DEF compatible

\* What is selected are names of the devices there are.
LEMMA SelectedNames ==
    ASSUME NEW devices, devices \in Seq(ToSet(devices)), NEW check, NEW version, NEW kind,
           NEW names \in Selections(kind, devices, check, version), NEW n \in names
    PROVE  \E d \in ToSet(devices) : d.name = n /\ Fate(n, check, version) \in {"kept", "patched"}
  <1> DEFINE compatible == CompatibleDevices(devices, check, version)
  <1>1. \A i \in 1 .. Len(compatible) :
           /\ compatible[i] \in ToSet(devices)
           /\ Fate(compatible[i].name, check, version) \in {"kept", "patched"}
    BY CompatibleElements
  <1>2. \/ names = NamesAt(compatible, 1 .. Len(compatible))
        \/ \E combo \in GpuCombinations(compatible, check, version) : names = NamesAt(compatible, combo)
        \/ \E i \in 1 .. Len(compatible) : names = {compatible[i].name}
    BY DEF Selections
  <1> HIDE DEF compatible
  <1>3. \A combo \in GpuCombinations(compatible, check, version) : combo \subseteq 1 .. Len(compatible)
    BY DEF GpuCombinations, GpuGroups
  <1>4. \E i \in 1 .. Len(compatible) : n = compatible[i].name
    BY <1>2, <1>3 DEF NamesAt
  <1>5. QED BY <1>1, <1>4

\* The graphics cards that are kept are those that have been selected.
LEMMA KeptCards ==
    ASSUME NEW name \in DOMAIN Reports, NEW check, NEW version,
           NEW choice \in Customizations(Reports[name], check, version)
    PROVE  \E names \in Selections("GPU", Reports[name].gpus, check, version) :
              \A g \in ToSet(Reports[name].gpus) : g.name \in choice.kept => g.name \in names
  <1> DEFINE report == Reports[name]
             Left(devices) == NamesAt(CompatibleDevices(devices, check, version),
                                       1 .. Len(CompatibleDevices(devices, check, version)))
             choosable == Left(report.gpus) \cup Left(report.network) \cup Left(report.bluetooth)
             With(fate) == {n \in Devices(report) : Fate(n, check, version) = fate}
             staying == (With("kept") \cup With("patched")) \ choosable
             Kept(chosen) == staying \cup chosen.gpu \cup chosen.wifi \cup chosen.bluetooth
             needs == With("patched")
             disabled(chosen) == With("disabled") \cup (choosable \ Kept(chosen))
             outcome(chosen) == [kept |-> Kept(chosen), disabled |-> disabled(chosen),
                                 patched |-> needs \cap Kept(chosen), oclp |-> needs # {}, uefi |-> chosen.uefi]
             cards == Selections("GPU", report.gpus, check, version)
             wifis == Selections("WiFi", report.network, check, version)
             bluetooths == Selections("Bluetooth", report.bluetooth, check, version)
             firmware == IF report.uefi THEN {TRUE} ELSE BOOLEAN
  <1>1. \E chosen \in [gpu : cards, wifi : wifis, bluetooth : bluetooths, uefi : firmware] :
           choice = outcome(chosen)
    BY Zenon DEF Customizations
  <1>2. /\ report.gpus \in Seq(ToSet(report.gpus)) /\ report.network \in Seq(ToSet(report.network))
        /\ report.bluetooth \in Seq(ToSet(report.bluetooth))
    BY ReportAssumption DEF ReportLists
  <1>3. /\ ToSet(report.network) \cup ToSet(report.bluetooth) \subseteq ToSet(Sections(report))
        /\ \A d \in ToSet(report.gpus) : \A e \in ToSet(Sections(report)) : d.name # e.name
    BY ReportDevices
  <1>4. \A g \in ToSet(report.gpus) : g.kind # "Network"
    BY ReportAssumption
  <1>5. ASSUME NEW g \in ToSet(report.gpus)
        PROVE  /\ g.name \notin staying
               /\ \A names \in wifis \cup bluetooths : g.name \notin names
    <2>1. ASSUME g.name \in staying PROVE FALSE
      <3>1. Fate(g.name, check, version) \in {"kept", "patched"} /\ g.name \notin Left(report.gpus)
        BY <2>1
      <3> DEFINE compatible == CompatibleDevices(report.gpus, check, version)
      <3>2. \E i \in 1 .. Len(compatible) : g = compatible[i]
        <4> HIDE DEF report
        <4> QED BY <1>2, <1>4, <3>1, CompatibleElements
      <3>3. g.name \in NamesAt(compatible, 1 .. Len(compatible))
        <4> HIDE DEF compatible
        <4> QED BY <3>2 DEF NamesAt
      <3>4. QED BY <3>1, <3>3
    <2> HIDE DEF report
    <2>2. ASSUME NEW names \in wifis, g.name \in names PROVE FALSE
      <3>1. \E d \in ToSet(report.network) : d.name = g.name
        BY <1>2, <2>2, SelectedNames
      <3>2. QED BY <1>3, <3>1
    <2>3. ASSUME NEW names \in bluetooths, g.name \in names PROVE FALSE
      <3>1. \E d \in ToSet(report.bluetooth) : d.name = g.name
        BY <1>2, <2>3, SelectedNames
      <3>2. QED BY <1>3, <3>1
    <2> HIDE DEF staying, wifis, bluetooths
    <2>4. QED BY <2>1, <2>2, <2>3
  <1> HIDE DEF staying, needs, disabled, report, cards, wifis, bluetooths, firmware
  <1>6. PICK chosen \in [gpu : cards, wifi : wifis, bluetooth : bluetooths, uefi : firmware] :
           choice = outcome(chosen)
    BY <1>1
  <1>7. choice.kept = staying \cup chosen.gpu \cup chosen.wifi \cup chosen.bluetooth
    BY <1>6
  <1>8. chosen.gpu \in cards /\ chosen.wifi \in wifis /\ chosen.bluetooth \in bluetooths
    BY <1>6
  <1>9. \A g \in ToSet(report.gpus) : g.name \in choice.kept => g.name \in chosen.gpu
    BY <1>5, <1>7, <1>8
  <1>10. QED BY <1>8, <1>9 DEF report, cards

\* A Navi 22 is in no group with an Intel card.
LEMMA GroupedApart ==
    ASSUME NEW cards, NEW group \in GpuGroups(cards), NEW i \in group, NEW j \in group,
           cards[i].maker = "AMD", ~cards[i].integrated, cards[i].codename = "Navi 22",
           cards[j].maker = "Intel"
    PROVE  FALSE
  <1> DEFINE amd == {k \in 1 .. Len(cards) : cards[k].maker = "AMD"}
             apu == {k \in amd : cards[k].integrated}
             navi == {k \in amd \ apu : cards[k].codename \in Navi1 \cup Navi2}
             navi22 == {k \in navi : cards[k].codename = "Navi 22"}
             intel == {k \in 1 .. Len(cards) : cards[k].maker = "Intel"}
             others == (1 .. Len(cards)) \ (apu \cup navi \cup intel)
  <1>1. group \in {IF apu \ {1} = {} THEN {} ELSE (apu \ {1}) \cup others,
                   IF navi22 = {} THEN {} ELSE navi22 \cup others,
                   (navi \ navi22) \cup intel \cup others}
    BY DEF GpuGroups
  <1>2. group \in {(apu \ {1}) \cup others, navi22 \cup others, (navi \ navi22) \cup intel \cup others}
    BY <1>1
  <1>3. i \in 1 .. Len(cards) /\ j \in 1 .. Len(cards)
    BY <1>2
  <1>4. i \notin apu /\ i \in navi22 /\ i \in navi /\ i \notin intel /\ i \notin others
    BY <1>3 DEF Navi2
  <1>5. j \notin amd /\ j \in intel /\ j \notin navi22 /\ j \notin others /\ j \notin apu
    BY <1>3
  <1> HIDE DEF amd, apu, navi, navi22, intel, others
  <1>6. QED BY <1>2, <1>4, <1>5

\* Of several cards those of one group are selected.
Together(cards, m, n) ==
    \E group \in GpuGroups(cards) : \E i, j \in group :
        /\ i \in 1 .. Len(cards) /\ j \in 1 .. Len(cards)
        /\ m = cards[i].name /\ n = cards[j].name

\* Two graphics cards that are selected are one card or of one group.
LEMMA SelectedTogether ==
    ASSUME NEW gpus, gpus \in Seq(ToSet(gpus)), NEW check, NEW version,
           NEW names \in Selections("GPU", gpus, check, version), NEW m \in names, NEW n \in names
    PROVE  m = n \/ Together(CompatibleDevices(gpus, check, version), m, n)
  <1> DEFINE compatible == CompatibleDevices(gpus, check, version)
             length == Len(compatible)
  <1>1. length \in Nat
    BY CompatibleElements
  <1>2. names \in CASE length <= 1 -> {NamesAt(compatible, 1 .. length)}
                   [] length > 1 /\ "GPU" = "GPU" ->
                        {NamesAt(compatible, combo) : combo \in GpuCombinations(compatible, check, version)}
                   [] OTHER -> {{compatible[i].name} : i \in 1 .. length}
    BY DEF Selections
  <1> HIDE DEF compatible
  <1>3. ASSUME NEW group \in GpuGroups(compatible) PROVE group \subseteq 1 .. length
    BY DEF GpuGroups
  <1> HIDE DEF length
  <1>4. (length \in {0, 1} /\ length <= 1 /\ ~(length > 1)) \/ (~(length <= 1) /\ length > 1)
    BY <1>1
  <1>5. CASE length \in {0, 1} /\ length <= 1 /\ ~(length > 1)
    <2>1. names = NamesAt(compatible, 1 .. length)
      BY <1>2, <1>5
    <2>2. QED BY <1>5, <2>1 DEF NamesAt
  <1>6. CASE ~(length <= 1) /\ length > 1
    <2>1. PICK combo \in GpuCombinations(compatible, check, version) : names = NamesAt(compatible, combo)
      BY <1>2, <1>6
    <2>2. PICK group \in GpuGroups(compatible) : combo \subseteq group
      BY DEF GpuCombinations
    <2>3. PICK i \in combo, j \in combo : m = compatible[i].name /\ n = compatible[j].name
      BY <2>1 DEF NamesAt
    <2>4. i \in group /\ j \in group /\ i \in 1 .. length /\ j \in 1 .. length
      BY <1>3, <2>2
    <2>5. Together(compatible, m, n)
      BY <2>3, <2>4 DEF Together, length
    <2>6. QED BY <2>5 DEF compatible
  <1>7. QED BY <1>4, <1>5, <1>6 DEF compatible

\* With a Navi 22 no Intel card is kept.
LEMMA KeptApart ==
    ASSUME NEW name \in DOMAIN Reports, NEW check, NEW version,
           NEW choice \in Customizations(Reports[name], check, version),
           NEW g \in ToSet(Customized(Reports[name], choice).gpus),
           NEW h \in ToSet(Customized(Reports[name], choice).gpus),
           ~g.integrated, g.codename = "Navi 22"
    PROVE  h.maker # "Intel"
  <1> DEFINE gpus == Reports[name].gpus
             compatible == CompatibleDevices(gpus, check, version)
  <1>1. /\ g \in ToSet(gpus) /\ h \in ToSet(gpus) /\ g.name \in choice.kept /\ h.name \in choice.kept
    <2>1. Customized(Reports[name], choice).gpus = KeptOf(choice, gpus)
      BY CustomizedParts
    <2>2. ToSet(KeptOf(choice, gpus)) = {d \in ToSet(gpus) : d.name \in choice.kept}
      BY KeptElements DEF ReportLists
    <2>3. QED BY <2>1, <2>2
  <1>2. gpus \in Seq(ToSet(gpus)) /\ g.maker = "AMD"
    BY <1>1, ReportAssumption DEF ReportLists
  <1>3. \A d, e \in ToSet(gpus) : d.name = e.name => d = e
    BY ReportDevices
  <1>4. PICK names \in Selections("GPU", gpus, check, version) : g.name \in names /\ h.name \in names
    BY <1>1, KeptCards
  <1>5. Len(compatible) \in Nat /\ \A i \in 1 .. Len(compatible) : compatible[i] \in ToSet(gpus)
    <2> HIDE DEF gpus
    <2> QED BY <1>2, CompatibleElements
  <1>6. g.name = h.name \/ Together(compatible, g.name, h.name)
    <2> HIDE DEF gpus
    <2> QED BY <1>2, <1>4, SelectedTogether
  <1> HIDE DEF gpus, compatible
  <1>7. CASE g.name = h.name
    BY <1>1, <1>2, <1>3, <1>7
  <1>8. CASE Together(compatible, g.name, h.name)
    <2>1. PICK group \in GpuGroups(compatible) : \E i, j \in group :
              /\ i \in 1 .. Len(compatible) /\ j \in 1 .. Len(compatible)
              /\ g.name = compatible[i].name /\ h.name = compatible[j].name
      BY <1>8 DEF Together
    <2>2. PICK i \in group, j \in group :
              /\ i \in 1 .. Len(compatible) /\ j \in 1 .. Len(compatible)
              /\ g.name = compatible[i].name /\ h.name = compatible[j].name
      BY <2>1
    <2>3. compatible[i] = g /\ compatible[j] = h
      BY <1>1, <1>3, <1>5, <2>2
    <2>4. QED BY <1>2, <2>3, GroupedApart
  <1>9. QED BY <1>6, <1>7, <1>8

-----------------------------------------------------------------------------
(* The cards that are offered.                                             *)

\* The cards there is a choice between have names of their own.
LEMMA CompatibleNames ==
    ASSUME NEW name \in DOMAIN Reports, NEW check, NEW version
    PROVE  LET usable == CompatibleDevices(Reports[name].gpus, check, version)
           IN  \A i, j \in 1 .. Len(usable) : usable[i].name = usable[j].name => i = j
  <1> DEFINE gpus == Reports[name].gpus
             set == {d \in ToSet(gpus) : /\ Fate(d.name, check, version) \in {"kept", "patched"}
                                         /\ d.kind = "Network" => d.id \in WirelessCardIDs}
             usable == CompatibleDevices(gpus, check, version)
  <1>1. gpus \in Seq(ToSet(gpus))
    BY ReportAssumption DEF ReportLists
  <1>2. /\ \A d, e \in ToSet(gpus) : d.name = e.name => d = e
        /\ \A i, j \in 1 .. Len(gpus) : gpus[i].name = gpus[j].name => i = j
    BY ReportDevices
  <1>3. \A i, j \in 1 .. Len(gpus) : gpus[i] = gpus[j] => i = j
    BY <1>2
  <1>4. usable = Those(gpus, set)
    BY DEF CompatibleDevices
  <1>5. \A i, j \in 1 .. Len(usable) : usable[i] = usable[j] => i = j
    <2> HIDE DEF gpus, set, usable
    <2> QED BY <1>1, <1>3, <1>4, ThoseDistinct
  <1>6. \A i \in 1 .. Len(usable) : usable[i] \in ToSet(gpus)
    <2> HIDE DEF gpus
    <2> QED BY <1>1, CompatibleElements
  <1> HIDE DEF gpus, usable
  <1>7. \A i, j \in 1 .. Len(usable) : usable[i].name = usable[j].name => i = j
    BY <1>2, <1>5, <1>6
  <1>8. QED BY <1>7 DEF gpus, usable

\* An AMD integrated card that is listed first.
ApuFirst(cards, i) == i = 1 /\ cards[i].maker = "AMD" /\ cards[i].integrated

\* Each card but such a one is in a group, and that one in none.
LEMMA GroupedUnlessFirst ==
    ASSUME NEW cards, NEW i \in 1 .. Len(cards)
    PROVE  (\E group \in GpuGroups(cards) : i \in group) <=> ~ApuFirst(cards, i)
  <1> DEFINE amd == {k \in 1 .. Len(cards) : cards[k].maker = "AMD"}
             apu == {k \in amd : cards[k].integrated}
             navi == {k \in amd \ apu : cards[k].codename \in Navi1 \cup Navi2}
             navi22 == {k \in navi : cards[k].codename = "Navi 22"}
             intel == {k \in 1 .. Len(cards) : cards[k].maker = "Intel"}
             others == (1 .. Len(cards)) \ (apu \cup navi \cup intel)
             first == IF apu \ {1} = {} THEN {} ELSE (apu \ {1}) \cup others
             second == IF navi22 = {} THEN {} ELSE navi22 \cup others
             third == (navi \ navi22) \cup intel \cup others
  <1>1. GpuGroups(cards) = {group \in {first, second, third} : group # {}}
    BY DEF GpuGroups
  <1>2. ApuFirst(cards, i) <=> i = 1 /\ i \in apu
    BY DEF ApuFirst
  <1>3. i \in apu => i \notin navi /\ i \notin navi22 /\ i \notin intel /\ i \notin others
    OBVIOUS
  <1>4. i \in apu \/ i \in navi22 \/ i \in navi \ navi22 \/ i \in intel \/ i \in others
    OBVIOUS
  <1> HIDE DEF amd, apu, navi, navi22, intel, others
  <1>5. (i \in first \/ i \in second \/ i \in third) <=> ~(i = 1 /\ i \in apu)
    BY <1>3, <1>4
  <1> HIDE DEF first, second, third
  <1>6. QED BY <1>1, <1>2, <1>5

\* A usable card is offered in some selection, unless it is an AMD integrated card and
\* the first of several, whatever the report, its order and the version
\* (hardware_customizer.py:154-188).
THEOREM EveryCardOfferedHolds == Spec => []EveryCardOffered
  <1>1. MenuInv => EveryCardOffered
    <2> SUFFICES ASSUME MenuInv, hardwareReport # NoReport
                 PROVE  EveryCardOffered
      BY DEF EveryCardOffered
    <2> DEFINE report == Reports[hardwareReport]
               check == CheckCompatibility(report)
               usable == CompatibleDevices(report.gpus, check, macosVersion)
               selections == Selections("GPU", report.gpus, check, macosVersion)
               offered == UNION selections
               combos == GpuCombinations(usable, check, macosVersion)
    <2>1. hardwareReport \in DOMAIN Reports
      BY DEF MenuInv
    <2>2. report.gpus \in Seq(ToSet(report.gpus))
      BY <2>1, ReportAssumption DEF ReportLists
    <2>3. Len(usable) \in Nat
      <3> HIDE DEF report, check
      <3> QED BY <2>2, CompatibleElements
    <2>4. \A i, j \in 1 .. Len(usable) : usable[i].name = usable[j].name => i = j
      <3> HIDE DEF check
      <3> QED BY <2>1, CompatibleNames
    <2>5. selections = CASE Len(usable) <= 1 -> {NamesAt(usable, 1 .. Len(usable))}
                         [] Len(usable) > 1 /\ "GPU" = "GPU" -> {NamesAt(usable, combo) : combo \in combos}
                         [] OTHER -> {{usable[i].name} : i \in 1 .. Len(usable)}
      BY DEF Selections
    <2>6. \A combo \in combos : \E group \in GpuGroups(usable) : combo \subseteq group
      BY DEF GpuCombinations
    <2>7. ASSUME NEW i \in 1 .. Len(usable), NEW group \in GpuGroups(usable), i \in group
          PROVE  {i} \in combos
      <3>1. ~(Cardinality({i}) > 1)
        <4>1. Cardinality({i}) = 1
          BY FS_Singleton
        <4>2. QED BY <4>1
      <3>2. {i} \in SUBSET group /\ {i} # {}
        BY <2>7
      <3> HIDE DEF usable, check
      <3>3. QED BY <2>7, <3>1, <3>2 DEF GpuCombinations
    <2>8. \A group \in GpuGroups(usable) : group \subseteq 1 .. Len(usable)
      <3> HIDE DEF usable
      <3> QED BY DEF GpuGroups
    <2> HIDE DEF report, check, usable, combos, selections
    <2>9. SUFFICES ASSUME NEW i \in 1 .. Len(usable)
                   PROVE  usable[i].name \notin offered <=> ApuFirst(usable, i) /\ Len(usable) > 1
      BY DEF EveryCardOffered, ApuFirst, report, check, usable, selections
    <2>10. CASE Len(usable) <= 1
      <3>1. ~(Len(usable) > 1) /\ selections = {NamesAt(usable, 1 .. Len(usable))}
        BY <2>3, <2>5, <2>10
      <3>2. QED BY <3>1 DEF NamesAt
    <2>11. CASE Len(usable) > 1
      <3>1. selections = {NamesAt(usable, combo) : combo \in combos}
        BY <2>3, <2>5, <2>11
      <3>2. CASE ApuFirst(usable, i)
        <4>1. ASSUME NEW combo \in combos, usable[i].name \in NamesAt(usable, combo) PROVE FALSE
          <5>1. PICK j \in combo : usable[j].name = usable[i].name
            BY <4>1 DEF NamesAt
          <5>2. PICK group \in GpuGroups(usable) : combo \subseteq group
            BY <2>6
          <5>3. j \in group /\ j \in 1 .. Len(usable)
            BY <2>8, <5>2
          <5>4. j = i
            BY <2>4, <5>1, <5>3
          <5>5. QED BY <3>2, <5>3, <5>4, GroupedUnlessFirst
        <4>2. QED BY <2>11, <3>1, <3>2, <4>1
      <3>3. CASE ~ApuFirst(usable, i)
        <4>1. PICK group \in GpuGroups(usable) : i \in group
          BY <3>3, GroupedUnlessFirst
        <4>2. {i} \in combos
          BY <2>7, <4>1
        <4>3. usable[i].name \in NamesAt(usable, {i})
          BY DEF NamesAt
        <4>4. QED BY <3>1, <3>3, <4>2, <4>3
      <3>4. QED BY <3>2, <3>3
    <2>12. QED BY <2>3, <2>10, <2>11
  <1>2. QED BY <1>1, MenuInvHolds, PTL

-----------------------------------------------------------------------------
(* What is selected.                                                       *)

\* The kexts of a selection: NootRX and AppleALC only if they are named.
SelectedKexts(kexts, machine, version, answer) ==
    /\ kexts \in KextSets /\ RequiredKexts \subseteq kexts
    /\ "NootRX" \in kexts => "NootRX" \in ToSet(GpuKexts(machine, version, answer))
    /\ "AppleALC" \in kexts => "AppleALC" \in ToSet(AudioKexts(machine, version, answer))

\* What select_required_kexts and smbios_specific_options have checked.
LEMMA KextsSelected ==
    ASSUME NEW machine, Listed(machine), NEW version, NEW oclp, NEW patches, NEW model,
           NEW answer \in Answers(machine, version),
           NEW kexts \in KextChoices(NamedKexts(machine, version, oclp, patches, answer), version)
    PROVE  SelectedKexts(CheckKexts(SmbiosKexts(model), kexts, version, FALSE), machine, version, answer)
  <1> DEFINE names == NamedKexts(machine, version, oclp, patches, answer)
             gpus == GpuKexts(machine, version, answer)
             audio == AudioKexts(machine, version, answer)
             all == CheckKexts(SmbiosKexts(model), kexts, version, FALSE)
  <1>1. /\ names \in Seq(HardwareKexts)
        /\ "NootRX" \in ToSet(names) => "NootRX" \in ToSet(gpus)
        /\ "AppleALC" \in ToSet(names) => "AppleALC" \in ToSet(audio)
    BY NamedNames
  <1>2. PICK allow : kexts = CheckKexts(names, RequiredKexts, version, allow)
    BY DEF KextChoices, SelectRequiredKexts
  <1>3. HardwareKexts \subseteq AllKexts /\ Alone \cap RequiredKexts = {} /\ RequiredKexts \in KextSets
    BY HardwareAssumption, KextListAssumption DEF Alone, KextSets
  <1> HIDE DEF names, gpus, audio
  <1>4. names \in Seq(AllKexts)
    BY <1>1, <1>3
  <1>5. kexts \in KextSets /\ RequiredKexts \subseteq kexts /\ kexts \cap Alone \subseteq RequiredKexts \cup ToSet(names)
    BY <1>2, <1>3, <1>4, CheckKextsAllowed
  <1>6. SmbiosKexts(model) \in Seq(AllKexts) /\ ToSet(SmbiosKexts(model)) \cap Alone = {}
    <2>1. SmbiosKexts(model) \in Seq(Others)
      BY SmbiosNames
    <2>2. QED BY <1>3, <2>1 DEF ToSet, Others
  <1>7. all \in KextSets /\ RequiredKexts \subseteq all /\ all \cap Alone \subseteq kexts \cup ToSet(SmbiosKexts(model))
    BY <1>5, <1>6, CheckKextsAllowed
  <1>8. "NootRX" \in Alone /\ "AppleALC" \in Alone
    BY DEF Alone
  <1> HIDE DEF all
  <1>9. \A k \in Alone : k \in all => k \in ToSet(names)
    BY <1>3, <1>5, <1>6, <1>7
  <1>10. QED BY <1>1, <1>7, <1>8, <1>9 DEF SelectedKexts, all, gpus, audio

\* A selection that goes on from a customized report.
LEMMA SelectionAnswer ==
    ASSUME NEW name, NEW v, NEW custom, NEW machine, NEW s \in SelectionsFor(name, v, custom, machine),
           Listed(machine), s.raised # "model"
    PROVE  /\ s.report = name /\ s.version = v /\ s.choice = custom
           /\ ~SelectRaises(machine) /\ s.model = SelectSmbiosModel(machine, v)
           /\ \E answer \in Answers(machine, v) :
                 /\ SelectedKexts(s.kexts, machine, v, answer)
                 /\ AudioNeedsOclp(machine, v, answer) => s.oclp
                 /\ s.oclp \in {custom.oclp, custom.oclp \/ AudioNeedsOclp(machine, v, answer)}
  <1> DEFINE patches == IF Raises(machine) = "no"
                        THEN SelectAcpiPatches(machine, DisabledDevices(Reports[name], custom)) ELSE {}
             model == IF Raises(machine) = "model" THEN NoModel ELSE SelectSmbiosModel(machine, v)
             record(batp, oclp, kexts) ==
                [report |-> name, version |-> v, choice |-> custom, raised |-> Raises(machine),
                 model |-> model, mchc |-> Raises(machine) # "model" /\ NeedsMchc(machine, model),
                 batp |-> batp, oclp |-> oclp, kexts |-> kexts, patches |-> patches]
             oclp(answer) == custom.oclp \/ AudioNeedsOclp(machine, v, answer)
             chosen(answer, batp) ==
                {record(batp, oclp(answer), CheckKexts(SmbiosKexts(model), kexts, v, FALSE)) :
                   kexts \in KextChoices(NamedKexts(machine, v, custom.oclp,
                                                   IF batp THEN {"BATP"} ELSE {}, answer), v)}
  <1>1. Raises(machine) # "model"
    <2>1. CASE Raises(machine) = "model"
      <3>1. \E batp \in BOOLEAN : s = record(batp, FALSE, {})
        BY <2>1 DEF SelectionsFor
      <3> HIDE DEF patches, model
      <3>2. QED BY <2>1, <3>1
    <2>2. QED BY <2>1
  <1>2. \E answer \in Answers(machine, v) : s \in chosen(answer, TRUE) \cup chosen(answer, FALSE)
    BY <1>1 DEF SelectionsFor
  <1>3. ~SelectRaises(machine) /\ model = SelectSmbiosModel(machine, v)
    BY <1>1 DEF Raises
  <1>4. PICK answer \in Answers(machine, v) : s \in chosen(answer, TRUE) \cup chosen(answer, FALSE)
    BY <1>2
  <1>5. PICK batp \in BOOLEAN : s \in chosen(answer, batp)
    <2> HIDE DEF chosen
    <2> QED BY <1>4
  <1> HIDE DEF patches, oclp
  <1>6. PICK kexts \in KextChoices(NamedKexts(machine, v, custom.oclp, IF batp THEN {"BATP"} ELSE {}, answer), v) :
           s = record(batp, oclp(answer), CheckKexts(SmbiosKexts(model), kexts, v, FALSE))
    BY <1>5
  <1>7. SelectedKexts(CheckKexts(SmbiosKexts(model), kexts, v, FALSE), machine, v, answer)
    BY KextsSelected
  <1> HIDE DEF model
  <1>8. /\ s.report = name /\ s.version = v /\ s.choice = custom /\ s.model = model
        /\ s.kexts = CheckKexts(SmbiosKexts(model), kexts, v, FALSE) /\ s.oclp = oclp(answer)
    BY <1>6
  <1>9. SelectedKexts(s.kexts, machine, v, answer)
    BY <1>7, <1>8
  <1>10. (AudioNeedsOclp(machine, v, answer) => s.oclp)
         /\ s.oclp \in {custom.oclp, custom.oclp \/ AudioNeedsOclp(machine, v, answer)}
    BY <1>8 DEF oclp
  <1>11. QED BY <1>3, <1>8, <1>9, <1>10

-----------------------------------------------------------------------------
(* The versions a machine supports.                                        *)

\* The ranges within the versions there are.
Spans == {r \in Ranges : LowestDarwin <= r[2] /\ r[1] <= LatestDarwin}
PatchedSpans == Spans \cup {Absent}

LEMMA DarwinNumbers ==
    /\ \A major \in Nat : Darwin(major, 0, 0) \in Nat /\ Darwin(major, 99, 99) \in Nat /\ UpTo(major) \in Ranges
    /\ \A v \in Nat : Major(v) \in Nat /\ Since(v) \in Ranges
    /\ LowestDarwin \in Nat /\ LatestDarwin \in Nat /\ NoVersion \in Nat
    /\ AnyVersion \in Spans /\ Unsupported \in Ranges /\ AnyVersion \in Ranges
  BY DEF Darwin, UpTo, Since, Major, LowestDarwin, LatestDarwin, NoVersion, AnyVersion, Unsupported, Ranges, Spans

LEMMA PairOf ==
    /\ \A a, b \in Nat : <<a, b>> \in Ranges
    /\ \A r \in Ranges : r[1] \in Nat /\ r[2] \in Nat
    /\ Absent \notin Ranges
    /\ \A a, b \in Nat : Newer(a, b) \in Nat /\ Older(a, b) \in Nat /\ Newer(a, b) >= a /\ Newer(a, b) >= b
                         /\ Older(a, b) <= a /\ Older(a, b) <= b
  BY DEF Ranges, Absent, Newer, Older

LEMMA CpuVersions == \A cpu : CpuRange(cpu) \in Spans \cup {Unsupported}
  <1>1. <<LatestDarwin, Darwin(18, 0, 0)>> \in Spans /\ <<Darwin(21, 99, 99), Darwin(18, 0, 0)>> \in Spans
    BY DEF Spans, Ranges, Darwin, LowestDarwin, LatestDarwin
  <1>2. QED BY <1>1, DarwinNumbers, Zenon DEF CpuRange

LEMMA IntelGpuVersions == \A gpu, report : IntelGpuRange(gpu, report) \in Ranges
  <1>1. /\ UpTo(17) \in Ranges /\ UpTo(20) \in Ranges /\ UpTo(21) \in Ranges
        /\ Since(Darwin(19, 4, 0)) \in Ranges
    BY DEF UpTo, Since, Ranges, Darwin, LowestDarwin, LatestDarwin
  <1>2. QED BY <1>1, DarwinNumbers, Zenon DEF IntelGpuRange

LEMMA AmdGpuVersions == \A gpu, avx2 : AmdGpuRange(gpu, avx2) \in Ranges
  <1>1. /\ UpTo(21) \in Ranges /\ Since(Darwin(21, 2, 0)) \in Ranges
        /\ Since(Darwin(20, 5, 0)) \in Ranges /\ Since(Darwin(19, 0, 0)) \in Ranges
    BY DEF UpTo, Since, Ranges, Darwin, LowestDarwin, LatestDarwin
  <1>2. \A gpu : AmdFirst(gpu) \in Nat
    <2>1. Darwin(19, 0, 0) \in Nat /\ Darwin(18, 6, 0) \in Nat /\ Darwin(17, 0, 0) \in Nat /\ NoVersion \in Nat
      BY DEF Darwin, NoVersion
    <2>2. QED BY <2>1, Zenon DEF AmdFirst
  <1>3. \A gpu : <<LatestDarwin, AmdFirst(gpu)>> \in Ranges /\ <<Darwin(21, 99, 99), AmdFirst(gpu)>> \in Ranges
    BY <1>2, DarwinNumbers, PairOf
  <1>4. QED BY <1>1, <1>3, DarwinNumbers, Zenon DEF AmdGpuRange

LEMMA GpuVersions == \A gpu, report : GpuRange(gpu, report) \in Ranges
  <1>1. \A gpu : NvidiaGpuRange(gpu) \in Ranges
    <2>1. UpTo(17) \in Ranges /\ UpTo(20) \in Ranges
      BY DarwinNumbers
    <2>2. QED BY <2>1, DarwinNumbers, Zenon DEF NvidiaGpuRange
  <1>2. QED BY <1>1, IntelGpuVersions, AmdGpuVersions, DarwinNumbers, Zenon DEF GpuRange

LEMMA GpuPatchedVersions == \A gpu, report : GpuPatchedRange(gpu, report) \in PatchedSpans
  <1> TAKE gpu, report
  <1> DEFINE avx2 == "AVX2" \in report.cpu.simd
             range == GpuRange(gpu, report)
             max == IF gpu.codename \in Navi2 /\ ~avx2 THEN Darwin(21, 99, 99) ELSE Darwin(24, 99, 99)
             min == IF gpu.maker = "AMD" /\ AmdFirst(gpu) # NoVersion /\ ~avx2
                    THEN Darwin(22, 0, 0) ELSE Darwin(20, 0, 0)
             next == Darwin(Major(range[1]) + 1, 0, 0)
  <1>1. GpuPatchedRange(gpu, report) \in {<<max, Newer(min, next)>>, Absent}
    BY DEF GpuPatchedRange
  <1>2. /\ max \in Nat /\ max <= LatestDarwin /\ min \in Nat /\ LowestDarwin <= min
    BY DEF Darwin, LowestDarwin, LatestDarwin
  <1>3. next \in Nat
    <2>1. range[1] \in Nat
      BY GpuVersions, PairOf
    <2>2. Major(range[1]) \in Nat
      BY <2>1, DarwinNumbers
    <2> HIDE DEF range
    <2>3. Major(range[1]) + 1 \in Nat
      BY <2>2
    <2>4. QED BY <2>3, DarwinNumbers
  <1> HIDE DEF max, min, next
  <1>4. Newer(min, next) \in Nat /\ LowestDarwin <= Newer(min, next)
    BY <1>2, <1>3 DEF Newer, LowestDarwin
  <1>5. <<max, Newer(min, next)>> \in Spans
    BY <1>2, <1>4 DEF Spans, Ranges
  <1>6. QED BY <1>1, <1>5 DEF PatchedSpans

LEMMA Widened ==
    ASSUME NEW patched \in PatchedSpans, NEW range \in Spans
    PROVE  Widen(patched, range) \in Spans
  <1>1. range[1] \in Nat /\ range[2] \in Nat /\ LowestDarwin <= range[2] /\ range[1] <= LatestDarwin
    BY DEF Spans, Ranges
  <1>2. patched # Absent => patched[2] \in Nat /\ LowestDarwin <= patched[2]
    BY DEF PatchedSpans, Spans, Ranges
  <1>3. Widen(patched, range) \in {<<range[1], patched[2]>>, <<range[1], range[2]>>}
        /\ (patched = Absent => Widen(patched, range) = <<range[1], range[2]>>)
    BY DEF Widen
  <1>4. QED BY <1>1, <1>2, <1>3 DEF Spans, Ranges

\* What the pass over the graphics cards has come to.
PassType(names) ==
    [compat : [names -> Ranges], oclp : [names -> PatchedSpans],
     max : Nat, min : Nat, patched : PatchedSpans, raised : BOOLEAN]

LEMMA PassPatched ==
    ASSUME NEW names, NEW acc \in PassType(names), NEW n \in names
    PROVE  (IF acc.oclp[n] = Absent THEN acc ELSE [acc EXCEPT !.patched = Widen(@, acc.oclp[n])]) \in PassType(names)
  <1>1. acc.oclp[n] \in PatchedSpans /\ acc.patched \in PatchedSpans
    BY DEF PassType
  <1>2. acc.oclp[n] # Absent => Widen(acc.patched, acc.oclp[n]) \in PatchedSpans
    BY <1>1, Widened DEF PatchedSpans
  <1>3. QED BY <1>2 DEF PassType

\* The pass over the graphics cards keeps its type.
LEMMA GpuPassType ==
    ASSUME NEW report, report.gpus \in Seq(ToSet(report.gpus))
    PROVE  GpuPass(report) \in PassType({g.name : g \in ToSet(report.gpus)})
  <1> DEFINE OtherGpusDead(compat, gpu) == \A g \in ToSet(report.gpus) \ {gpu} : compat[g.name] = Unsupported
             Muxed(gpu) == \E m \in ToSet(report.monitors) :
                               m.type = "Internal" /\ m.gpu \notin {gpu.name, "unknown"}
             Patched(acc, gpu) ==
                 IF acc.oclp[gpu.name] = Absent THEN acc
                 ELSE [acc EXCEPT !.patched = Widen(@, acc.oclp[gpu.name])]
             Unset(acc, gpu) == Muxed(gpu) /\ ~OtherGpusDead(acc.compat, gpu)
             Span(acc, gpu) == IF Unset(acc, gpu) THEN Unsupported ELSE acc.compat[gpu.name]
             Next1(acc, gpu) == [acc EXCEPT !.compat[gpu.name] = Span(acc, gpu),
                                         !.oclp[gpu.name] = IF Unset(acc, gpu) THEN Absent ELSE @]
             First(acc, gpu) == [Next1(acc, gpu) EXCEPT !.max = Span(acc, gpu)[1], !.min = Span(acc, gpu)[2]]
             Later(acc, gpu) == [Next1(acc, gpu) EXCEPT !.raised = @ \/ Unset(acc, gpu),
                                                       !.max = Newer(@, Span(acc, gpu)[1]),
                                                       !.min = Older(@, Span(acc, gpu)[2])]
             Step(acc, gpu) ==
                 CASE acc.compat[gpu.name] = Unsupported -> Patched(acc, gpu)
                   [] acc.compat[gpu.name] # Unsupported /\ acc.max = NoVersion -> Patched(First(acc, gpu), gpu)
                   [] OTHER -> Patched(Later(acc, gpu), gpu)
             names == {g.name : g \in ToSet(report.gpus)}
             card(n) == CHOOSE g \in ToSet(report.gpus) : g.name = n
             Passes == [compat : [names -> Ranges], oclp : [names -> PatchedRanges],
                        max : Nat, min : Nat, patched : PatchedRanges, raised : BOOLEAN]
             step == [acc \in Passes |-> [gpu \in ToSet(report.gpus) |-> Step(acc, gpu)]]
             base == [compat |-> [n \in names |-> GpuRange(card(n), report)],
                      oclp |-> [n \in names |-> GpuPatchedRange(card(n), report)],
                      max |-> NoVersion, min |-> NoVersion, patched |-> Absent, raised |-> FALSE]
  <1>1. GpuPass(report) = Folded(step, base, report.gpus)
    BY DEF GpuPass
  <1> HIDE DEF OtherGpusDead, Muxed
  <1>2. base \in PassType(names)
    <2>1. \A n \in names : GpuRange(card(n), report) \in Ranges /\ GpuPatchedRange(card(n), report) \in PatchedSpans
      BY GpuVersions, GpuPatchedVersions
    <2>2. NoVersion \in Nat /\ Absent \in PatchedSpans
      BY DarwinNumbers DEF PatchedSpans
    <2> HIDE DEF names, card
    <2>3. QED BY <2>1, <2>2 DEF PassType
  <1>3. ASSUME NEW acc \in PassType(names), NEW gpu \in ToSet(report.gpus)
        PROVE  Step(acc, gpu) \in PassType(names)
    <2> DEFINE n == gpu.name
    <2>1. n \in names
      OBVIOUS
    <2> HIDE DEF names
    <2>2. Unset(acc, gpu) \in BOOLEAN
      OBVIOUS
    <2> HIDE DEF Unset
    <2>3. /\ acc.compat[n] \in Ranges /\ acc.oclp[n] \in PatchedSpans /\ acc.max \in Nat /\ acc.min \in Nat
      BY <2>1 DEF PassType
    <2>4. Span(acc, gpu) \in Ranges
      BY <2>3, DarwinNumbers
    <2> HIDE DEF Span
    <2>5. Next1(acc, gpu) \in PassType(names) /\ Next1(acc, gpu).max = acc.max /\ Next1(acc, gpu).min = acc.min
          /\ Next1(acc, gpu).raised = acc.raised
      BY <2>1, <2>3, <2>4 DEF PassType, PatchedSpans
    <2> HIDE DEF Next1
    <2>6. Span(acc, gpu)[1] \in Nat /\ Span(acc, gpu)[2] \in Nat
      BY <2>4, PairOf
    <2>7. First(acc, gpu) \in PassType(names)
      BY <2>5, <2>6 DEF PassType
    <2>8. Newer(acc.max, Span(acc, gpu)[1]) \in Nat /\ Older(acc.min, Span(acc, gpu)[2]) \in Nat
      BY <2>3, <2>6, PairOf
    <2>9. Later(acc, gpu) \in PassType(names)
      <3>1. acc.raised \in BOOLEAN
        BY DEF PassType
      <3>2. (acc.raised \/ Unset(acc, gpu)) \in BOOLEAN
        OBVIOUS
      <3>3. QED BY <2>2, <2>5, <2>8, <3>1, <3>2 DEF PassType
    <2> HIDE DEF First, Later
    <2>10. \A x \in PassType(names) : Patched(x, gpu) \in PassType(names)
      BY <2>1, PassPatched
    <2> HIDE DEF Patched
    <2>11. QED BY <2>7, <2>9, <2>10, Zenon
  <1> HIDE DEF Step
  <1>4. StepOn(step, PassType(names), report.gpus)
    <2>1. PassType(names) \subseteq Passes
      BY DEF PassType, PatchedSpans, Spans, PatchedRanges
    <2>2. \A i \in 1 .. Len(report.gpus) : report.gpus[i] \in ToSet(report.gpus)
      BY DEF ToSet
    <2> HIDE DEF Passes, names
    <2>3. QED BY <1>3, <2>1, <2>2 DEF StepOn
  <1>5. Len(report.gpus) \in Nat
    OBVIOUS
  <1> HIDE DEF step, base, names
  <1>6. GpuPass(report) \in PassType(names)
    BY <1>1, <1>2, <1>4, <1>5, FoldedType
  <1>7. QED BY <1>6 DEF names

\* The versions of the devices that are not graphics cards.
LEMMA DeviceVersions ==
    ASSUME NEW d, d.kind \in {"Sound", "Biometric", "Network", "Storage", "Bluetooth", "SD"}
    PROVE  DeviceRange(d) \in Ranges \cup {Absent} /\ DevicePatchedRange(d) \in PatchedSpans
  <1>1. /\ UpTo(17) \in Ranges /\ UpTo(20) \in Ranges /\ UpTo(22) \in Ranges /\ UpTo(23) \in Ranges
        /\ Since(Darwin(19, 0, 0)) \in Ranges /\ Since(Darwin(21, 0, 0)) \in Ranges
    BY DEF UpTo, Since, Ranges, Darwin, LowestDarwin, LatestDarwin
  <1>2. AnyVersion \in Ranges /\ Unsupported \in Ranges
    BY DarwinNumbers
  <1>3. SoundRange(d) \in Ranges /\ BluetoothRange(d) \in Ranges /\ CardReaderRange(d) \in Ranges
    BY <1>1, <1>2, Zenon DEF SoundRange, BluetoothRange, CardReaderRange
  <1>4. NetworkDriverRange(d.id) \in Ranges
    BY <1>1, <1>2, Zenon DEF NetworkDriverRange
  <1>5. NetworkRange(d) \in Ranges \cup {Absent} /\ StorageRange(d) \in Ranges \cup {Absent}
    BY <1>2, <1>4, Zenon DEF NetworkRange, StorageRange
  <1>6. DeviceRange(d) \in {SoundRange(d), Unsupported, NetworkRange(d), StorageRange(d), BluetoothRange(d),
                            CardReaderRange(d)}
    BY DEF DeviceRange
  <1>7. /\ <<LatestDarwin, Darwin(23, 0, 0)>> \in PatchedSpans
        /\ <<LatestDarwin, Darwin(20, 0, 0)>> \in PatchedSpans /\ Absent \in PatchedSpans
    BY DEF PatchedSpans, Spans, Ranges, Darwin, LowestDarwin, LatestDarwin
  <1>8. DevicePatchedRange(d) \in PatchedSpans
    BY <1>7, Zenon DEF DevicePatchedRange, NetworkPatchedRange
  <1>9. QED BY <1>2, <1>3, <1>5, <1>6, <1>8

\* The ranges of a checked report.
LEMMA CheckedRanges ==
    ASSUME NEW name \in DOMAIN Reports
    PROVE  LET report == Reports[name]
               check == CheckCompatibility(report)
           IN  /\ \A n \in Devices(report) : check.compat[n] \in Ranges \cup {Absent}
               /\ check.patched \in PatchedSpans
               /\ check.verdict = "checked" => check.native \in Spans
  <1> DEFINE report == Reports[name]
             check == CheckCompatibility(report)
             gpus == GpuPass(report)
             cards == {g.name : g \in ToSet(report.gpus)}
             device(n) == CHOOSE d \in ToSet(Sections(report)) : d.name = n
             compat == [n \in Devices(report) |->
                          IF n \in cards THEN gpus.compat[n] ELSE DeviceRange(device(n))]
             oclp == [n \in Devices(report) |->
                        IF n \in cards THEN gpus.oclp[n] ELSE DevicePatchedRange(device(n))]
             cpu == CpuRange(report.cpu)
             step == [acc \in PatchedRanges |-> [d \in ToSet(report.network) |->
                           IF oclp[d.name] = Absent THEN acc ELSE Widen(acc, oclp[d.name])]]
             patched == Folded(step, gpus.patched, report.network)
             both == <<Older(gpus.max, cpu[1]), Newer(gpus.min, cpu[2])>>
             native == IF report.gpus = <<>> THEN cpu ELSE both
  <1>1. check.compat = compat /\ check.patched = patched /\ check.native = native
    BY DEF CheckCompatibility, CheckDevices
  <1>2. check.verdict = "checked" => cpu # Unsupported
    BY DEF CheckCompatibility, CheckDevices
  <1>3. gpus \in PassType(cards)
    <2>1. report.gpus \in Seq(ToSet(report.gpus))
      BY ReportAssumption DEF ReportLists
    <2> HIDE DEF report
    <2>2. QED BY <2>1, GpuPassType
  <1>4. /\ report.network \in Seq(ToSet(report.network))
        /\ ToSet(report.network) \subseteq ToSet(Sections(report))
        /\ ToSet(report.gpus \o Sections(report)) = ToSet(report.gpus) \cup ToSet(Sections(report))
    BY ReportAssumption, ReportDevices DEF ReportLists
  <1>5. \A d \in ToSet(Sections(report)) :
           d.kind \in {"Sound", "Biometric", "Network", "Storage", "Bluetooth", "SD"}
    BY ReportAssumption
  <1> HIDE DEF report, gpus, check
  <1>6. ASSUME NEW n \in Devices(report)
        PROVE  compat[n] \in Ranges \cup {Absent} /\ oclp[n] \in PatchedSpans
    <2>1. CASE n \in cards
      BY <1>3, <2>1 DEF PassType
    <2>2. CASE n \notin cards
      <3>1. \E d \in ToSet(Sections(report)) : d.name = n
        BY <1>4, <2>2 DEF Devices
      <3>2. device(n) \in ToSet(Sections(report))
        BY <3>1
      <3> HIDE DEF device, cards
      <3>3. DeviceRange(device(n)) \in Ranges \cup {Absent} /\ DevicePatchedRange(device(n)) \in PatchedSpans
        BY <1>5, <3>2, DeviceVersions
      <3>4. QED BY <2>2, <3>3
    <2>3. QED BY <2>1, <2>2
  <1> HIDE DEF compat, oclp, cards
  <1>7. patched \in PatchedSpans
    <2>1. StepOn(step, PatchedSpans, report.network)
      <3> SUFFICES ASSUME NEW acc \in PatchedSpans, NEW i \in 1 .. Len(report.network)
                   PROVE  step[acc][report.network[i]] \in PatchedSpans
        BY DEF StepOn
      <3> DEFINE d == report.network[i]
      <3>1. d \in ToSet(report.network)
        BY <1>4 DEF ToSet
      <3>2. d.name \in Devices(report)
        BY <1>4, <3>1 DEF Devices
      <3>3. oclp[d.name] \in PatchedSpans
        BY <1>6, <3>2
      <3>4. acc \in PatchedRanges
        BY DEF PatchedSpans, Spans, PatchedRanges
      <3>5. step[acc][d] = IF oclp[d.name] = Absent THEN acc ELSE Widen(acc, oclp[d.name])
        BY <3>1, <3>4
      <3> HIDE DEF d, step
      <3>6. oclp[d.name] # Absent => Widen(acc, oclp[d.name]) \in PatchedSpans
        BY <3>3, Widened DEF PatchedSpans
      <3>7. step[acc][d] \in PatchedSpans
        BY <3>5, <3>6
      <3>8. QED BY <3>7 DEF d
    <2>2. gpus.patched \in PatchedSpans /\ Len(report.network) \in Nat
      BY <1>3, <1>4 DEF PassType
    <2> HIDE DEF step
    <2>3. QED BY <2>1, <2>2, FoldedType
  <1>8. cpu # Unsupported => native \in Spans
    <2>1. gpus.max \in Nat /\ gpus.min \in Nat
      BY <1>3 DEF PassType
    <2>2. SUFFICES ASSUME cpu # Unsupported PROVE cpu \in Spans /\ both \in Spans
      OBVIOUS
    <2>3. cpu \in Spans
      BY <2>2, CpuVersions
    <2> HIDE DEF cpu
    <2>4. cpu[1] \in Nat /\ cpu[2] \in Nat /\ LowestDarwin <= cpu[2] /\ cpu[1] <= LatestDarwin
      BY <2>3 DEF Spans, Ranges
    <2>5. LowestDarwin \in Nat /\ LatestDarwin \in Nat
      BY DarwinNumbers
    <2> DEFINE a == Older(gpus.max, cpu[1])
               b == Newer(gpus.min, cpu[2])
    <2>6. a \in Nat /\ b \in Nat /\ a <= cpu[1] /\ b >= cpu[2]
      BY <2>1, <2>4, PairOf
    <2> HIDE DEF a, b
    <2>7. LowestDarwin <= b /\ a <= LatestDarwin
      BY <2>4, <2>5, <2>6
    <2>8. <<a, b>> \in Spans
      BY <2>6, <2>7 DEF Spans, Ranges
    <2>9. QED BY <2>3, <2>8 DEF a, b
  <1> HIDE DEF native, patched, cpu
  <1>9. /\ \A n \in Devices(report) : check.compat[n] \in Ranges \cup {Absent}
        /\ check.patched \in PatchedSpans
        /\ check.verdict = "checked" => check.native \in Spans
    BY <1>1, <1>2, <1>6, <1>7, <1>8
  <1>10. QED BY <1>9 DEF report, check

\* The version that is offered by default is a version.
LEMMA SuggestedType ==
    ASSUME NEW name \in DOMAIN Reports, NEW check,
           check.native \in Ranges, \A n \in Devices(Reports[name]) : check.compat[n] \in Ranges \cup {Absent}
    PROVE  SuggestedVersion(Reports[name], check) \in Nat
  <1> DEFINE report == Reports[name]
             Lower(device, suggested) ==
                CASE device.kind # "GPU" -> suggested
                  [] device.kind = "GPU" /\ ~device.integrated -> suggested
                  [] OTHER ->
                CASE device.maker = "AMD" \/ device.prefix = "59" \/ device.id = "87C0" -> Darwin(22, 99, 99)
                  [] device.maker # "AMD" /\ device.prefix \in {"09", "19"} -> Darwin(21, 99, 99)
                  [] OTHER -> suggested
             devices == report.gpus \o report.network \o report.bluetooth \o report.sd
             step == [suggested \in Nat |-> [d \in ToSet(devices) |->
                        IF check.compat[d.name] \in {Absent, Unsupported} THEN suggested
                        ELSE Older(Lower(d, suggested), check.compat[d.name][1])]]
  <1>1. SuggestedVersion(report, check) = Folded(step, check.native[1], devices)
    BY DEF SuggestedVersion
  <1>2. /\ Len(devices) \in Nat /\ \A i \in 1 .. Len(devices) : devices[i] \in ToSet(devices)
        /\ \A d \in ToSet(devices) : d.name \in Devices(report)
    <2> DEFINE all == report.gpus \o Sections(report)
               T == ToSet(report.gpus) \cup ToSet(Sections(report))
               one == report.gpus \o report.network
               two == one \o report.bluetooth
    <2>1. /\ ToSet(all) = T
          /\ ToSet(report.network) \subseteq T /\ ToSet(report.bluetooth) \subseteq T /\ ToSet(report.sd) \subseteq T
      BY ReportDevices
    <2>2. /\ report.gpus \in Seq(ToSet(report.gpus)) /\ report.network \in Seq(ToSet(report.network))
          /\ report.bluetooth \in Seq(ToSet(report.bluetooth)) /\ report.sd \in Seq(ToSet(report.sd))
      BY ReportAssumption DEF ReportLists
    <2>3. \A d \in T : d.name \in Devices(report)
      <3>1. \A d \in ToSet(all) : d.name \in Devices(report)
        BY DEF Devices
      <3>2. QED BY <2>1, <3>1
    <2>4. ToSet(report.gpus) \subseteq T
      OBVIOUS
    <2> HIDE DEF report, T
    <2>5. /\ report.gpus \in Seq(T) /\ report.network \in Seq(T) /\ report.bluetooth \in Seq(T) /\ report.sd \in Seq(T)
      BY <2>1, <2>2, <2>4
    <2>6. one \in Seq(T)
      BY <2>5
    <2>7. two \in Seq(T)
      <3> HIDE DEF one
      <3> QED BY <2>5, <2>6
    <2>8. devices \in Seq(T)
      <3> HIDE DEF two
      <3>1. two \o report.sd \in Seq(T)
        BY <2>5, <2>7
      <3>2. QED BY <3>1 DEF two
    <2> HIDE DEF devices
    <2>9. Len(devices) \in Nat /\ \A i \in 1 .. Len(devices) : devices[i] \in ToSet(devices)
      BY <2>8 DEF ToSet
    <2>10. ToSet(devices) \subseteq T
      BY <2>8 DEF ToSet
    <2>11. QED BY <2>3, <2>9, <2>10
  <1> HIDE DEF devices
  <1>3. \A d, suggested : suggested \in Nat => Lower(d, suggested) \in Nat
    <2>1. Darwin(22, 99, 99) \in Nat /\ Darwin(21, 99, 99) \in Nat
      BY DarwinNumbers
    <2>2. QED BY <2>1, Zenon
  <1> HIDE DEF Lower, report
  <1>4. StepOn(step, Nat, devices)
    <2> SUFFICES ASSUME NEW suggested \in Nat, NEW i \in 1 .. Len(devices)
                 PROVE  step[suggested][devices[i]] \in Nat
      BY DEF StepOn
    <2> DEFINE d == devices[i]
    <2>1. d \in ToSet(devices) /\ d.name \in Devices(report)
      BY <1>2
    <2>2. check.compat[d.name] \in Ranges \cup {Absent}
      BY <2>1 DEF report
    <2>3. step[suggested][d] = IF check.compat[d.name] \in {Absent, Unsupported} THEN suggested
                               ELSE Older(Lower(d, suggested), check.compat[d.name][1])
      BY <2>1
    <2>4. Lower(d, suggested) \in Nat
      BY <1>3
    <2> HIDE DEF d, step
    <2>5. check.compat[d.name] # Absent => check.compat[d.name][1] \in Nat
      BY <2>2, PairOf
    <2>6. check.compat[d.name] # Absent => Older(Lower(d, suggested), check.compat[d.name][1]) \in Nat
      BY <2>4, <2>5, PairOf
    <2>7. step[suggested][d] \in Nat
      BY <2>3, <2>6
    <2>8. QED BY <2>7 DEF d
  <1>5. check.native[1] \in Nat
    BY PairOf
  <1> HIDE DEF step
  <1>6. SuggestedVersion(report, check) \in Nat
    <2> DEFINE Versions == Nat
    <2>1. StepOn(step, Versions, devices) /\ check.native[1] \in Versions
      BY <1>4, <1>5
    <2> HIDE DEF Versions
    <2>2. Folded(step, check.native[1], devices) \in Versions
      BY <1>2, <2>1, FoldedType
    <2>3. QED BY <1>1, <2>2 DEF Versions
  <1>7. QED BY <1>6 DEF report

\* A version that is accepted is one there is.
LEMMA AcceptedBounds ==
    ASSUME NEW name \in DOMAIN Reports, CheckCompatibility(Reports[name]).verdict = "checked",
           NEW v \in AcceptedVersions(Reports[name], CheckCompatibility(Reports[name]))
    PROVE  v \in Nat /\ LowestDarwin <= v /\ v <= LatestDarwin
  <1> DEFINE check == CheckCompatibility(Reports[name])
  <1>1. /\ \A n \in Devices(Reports[name]) : check.compat[n] \in Ranges \cup {Absent}
        /\ check.patched \in PatchedSpans /\ check.native \in Spans
    BY CheckedRanges
  <1>2. SuggestedVersion(Reports[name], check) \in Nat
    <2> HIDE DEF check
    <2>1. check.native \in Ranges
      BY <1>1 DEF Spans
    <2>2. QED BY <1>1, <2>1, SuggestedType
  <1>3. v \in Nat
    BY <1>2, MenuAssumption DEF AcceptedVersions
  <1>4. PICK range \in Spans : InRange(v, range)
    <2>1. (check.patched # Absent /\ InRange(v, check.patched)) \/ InRange(v, check.native)
      BY DEF AcceptedVersions
    <2> HIDE DEF check
    <2>2. QED BY <1>1, <2>1 DEF PatchedSpans
  <1>5. range[1] \in Nat /\ range[2] \in Nat /\ LowestDarwin <= range[2] /\ range[1] <= LatestDarwin
    BY DEF Spans, Ranges
  <1>6. QED BY <1>3, <1>4, <1>5, DarwinNumbers DEF InRange

\* A choice is between the devices of the report: none is kept and disabled.
ChoiceOf(choice, report) ==
    /\ choice.kept \cap choice.disabled = {} /\ choice.kept \cup choice.disabled \subseteq Devices(report)
    /\ choice.oclp \in BOOLEAN

\* Every outcome of hardware_customization is such a choice.
LEMMA CustomizationsType ==
    ASSUME NEW name \in DOMAIN Reports, NEW check, NEW version,
           NEW choice \in Customizations(Reports[name], check, version)
    PROVE  ChoiceOf(choice, Reports[name])
  <1> DEFINE report == Reports[name]
             Left(devices) == NamesAt(CompatibleDevices(devices, check, version),
                                       1 .. Len(CompatibleDevices(devices, check, version)))
             choosable == Left(report.gpus) \cup Left(report.network) \cup Left(report.bluetooth)
             With(fate) == {n \in Devices(report) : Fate(n, check, version) = fate}
             staying == (With("kept") \cup With("patched")) \ choosable
             Kept(chosen) == staying \cup chosen.gpu \cup chosen.wifi \cup chosen.bluetooth
             needs == With("patched")
             off == With("disabled")
             outcome(chosen) == [kept |-> Kept(chosen), disabled |-> off \cup (choosable \ Kept(chosen)),
                                 patched |-> needs \cap Kept(chosen), oclp |-> needs # {}, uefi |-> chosen.uefi]
             cards == Selections("GPU", report.gpus, check, version)
             wifis == Selections("WiFi", report.network, check, version)
             bluetooths == Selections("Bluetooth", report.bluetooth, check, version)
             firmware == IF report.uefi THEN {TRUE} ELSE BOOLEAN
             Staying == {n \in Devices(report) : Fate(n, check, version) \in {"kept", "patched"}}
  <1>1. \E chosen \in [gpu : cards, wifi : wifis, bluetooth : bluetooths, uefi : firmware] :
           choice = outcome(chosen)
    BY Zenon DEF Customizations
  <1>2. /\ report.gpus \in Seq(ToSet(report.gpus)) /\ report.network \in Seq(ToSet(report.network))
        /\ report.bluetooth \in Seq(ToSet(report.bluetooth))
    BY ReportAssumption DEF ReportLists
  <1>3. \A d \in ToSet(report.gpus) \cup ToSet(report.network) \cup ToSet(report.bluetooth) : d.name \in Devices(report)
    <2>1. /\ ToSet(report.gpus \o Sections(report)) = ToSet(report.gpus) \cup ToSet(Sections(report))
          /\ ToSet(report.network) \cup ToSet(report.bluetooth) \subseteq ToSet(Sections(report))
      BY ReportDevices
    <2> HIDE DEF report
    <2>2. QED BY <2>1 DEF Devices
  <1> HIDE DEF report
  <1>4. choosable \subseteq Devices(report)
    <2>1. ASSUME NEW devices, devices \in Seq(ToSet(devices)), \A d \in ToSet(devices) : d.name \in Devices(report)
          PROVE  Left(devices) \subseteq Devices(report)
      <3> DEFINE compatible == CompatibleDevices(devices, check, version)
      <3>1. \A i \in 1 .. Len(compatible) : compatible[i] \in ToSet(devices)
        BY <2>1, CompatibleElements
      <3> HIDE DEF compatible
      <3>2. NamesAt(compatible, 1 .. Len(compatible)) \subseteq Devices(report)
        BY <2>1, <3>1 DEF NamesAt
      <3>3. QED BY <3>2 DEF compatible
    <2> HIDE DEF Left
    <2>2. QED BY <1>2, <1>3, <2>1
  <1>5. \A names \in cards \cup wifis \cup bluetooths : names \subseteq Staying
    <2>1. ASSUME NEW devices, devices \in Seq(ToSet(devices)), \A d \in ToSet(devices) : d.name \in Devices(report),
                 NEW kind, NEW names \in Selections(kind, devices, check, version)
          PROVE  names \subseteq Staying
      <3> SUFFICES ASSUME NEW n \in names PROVE n \in Staying
        OBVIOUS
      <3>1. \E d \in ToSet(devices) : d.name = n /\ Fate(n, check, version) \in {"kept", "patched"}
        BY <2>1, SelectedNames
      <3>2. QED BY <2>1, <3>1 DEF Staying
    <2> HIDE DEF Staying
    <2>2. \A names \in cards : names \subseteq Staying
      BY <1>2, <1>3, <2>1
    <2>3. \A names \in wifis : names \subseteq Staying
      BY <1>2, <1>3, <2>1
    <2>4. \A names \in bluetooths : names \subseteq Staying
      BY <1>2, <1>3, <2>1
    <2>5. QED BY <2>2, <2>3, <2>4
  <1>6. staying \subseteq Staying /\ Staying \cap off = {} /\ Staying \cup off \subseteq Devices(report)
    OBVIOUS
  <1> HIDE DEF staying, needs, off, Staying, choosable, cards, wifis, bluetooths, firmware
  <1>7. PICK chosen \in [gpu : cards, wifi : wifis, bluetooth : bluetooths, uefi : firmware] :
           choice = outcome(chosen)
    BY <1>1
  <1>8. chosen.gpu \in cards /\ chosen.wifi \in wifis /\ chosen.bluetooth \in bluetooths
    BY <1>7
  <1>9. /\ choice.kept = Kept(chosen) /\ choice.disabled = off \cup (choosable \ Kept(chosen))
        /\ choice.oclp = (needs # {})
    BY <1>7
  <1>10. Kept(chosen) \subseteq Staying
    BY <1>5, <1>6, <1>8
  <1> HIDE DEF Kept
  <1>11. ChoiceOf(choice, report)
    BY <1>4, <1>6, <1>9, <1>10 DEF ChoiceOf
  <1>12. QED BY <1>11 DEF report

-----------------------------------------------------------------------------

\* A model that is selected is one there is.
LEMMA ModelSelected == \A machine, version : SelectSmbiosModel(machine, version) \in MacModels
  <1> TAKE machine, version
  <1> DEFINE S == SelectableModels
             code == machine.cpu.codename
             old == version < Darwin(19, 0, 0)
             iMac11 == code \in {"Lynnfield", "Clarkdale"} /\ "Xeon" \notin machine.cpu.name /\ old
             By3(desktop, nuc, laptop) == By(Platform(machine), desktop, nuc, laptop)
             Cores(bound, few, many) == IF machine.cpu.cores < bound THEN few ELSE many
             Igpu(only, not) == IF Head(machine.gpus).integrated THEN only ELSE not
  <1>1. \A a, b, c \in S : By3(a, b, c) \in S
    BY Zenon DEF By
  <1>2. \A bound : \A a, b \in S : Cores(bound, a, b) \in S /\ Igpu(a, b) \in S
    OBVIOUS
  <1> HIDE DEF By3, Cores, Igpu
  <1>3. HighEndModel(machine, version) \in S
    <2>1. {"iMac11,1", "iMac11,2", "MacPro5,1", "MacPro6,1", "MacBookPro16,2", "iMacPro1,1", "MacPro7,1"} \subseteq S
      BY DEF SelectableModels
    <2>2. /\ "iMac11,1" \in S /\ "iMac11,2" \in S /\ "MacPro5,1" \in S /\ "MacPro6,1" \in S
          /\ "MacBookPro16,2" \in S /\ "iMacPro1,1" \in S /\ "MacPro7,1" \in S
      BY <2>1
    <2> HIDE DEF S
    <2>3. QED BY <2>2, Zenon DEF HighEndModel
  <1> DEFINE sandy == By3("iMac12,2", Cores(4, "Macmini5,1", "Macmini5,3"), Cores(4, "MacBookPro8,1", "MacBookPro8,2"))
             ivy == By3(Igpu("iMac13,1", "iMac13,2"), Cores(4, "Macmini6,1", "Macmini6,2"),
                        Cores(4, "MacBookPro10,2", "MacBookPro10,1"))
             haswell == By3(Igpu("iMac14,4", "iMac15,1"), "Macmini7,1", Cores(4, "MacBookPro11,1", "MacBookPro11,5"))
             broadwell == By3(Igpu("iMac16,2", "iMac17,1"), "iMac16,1", Cores(4, "MacBookPro12,1", "MacBookPro11,5"))
             skylake == By3("iMac17,1", "iMac17,1", Cores(4, "MacBookPro13,1", "MacBookPro13,3"))
             kaby == By3(Igpu("iMac18,1", "iMac18,3"), Igpu("iMac18,1", "iMac18,3"),
                         Cores(4, "MacBookPro14,1", "MacBookPro14,3"))
             desk == CASE code \in CometLake -> Cores(10, "iMac20,1", "iMac20,2")
                       [] code \notin CometLake /\ version < Darwin(18, 0, 0) -> "iMac18,3"
                       [] OTHER -> "iMac19,1"
             lap == IF "-8" \in machine.cpu.name THEN Cores(6, "MacBookPro15,2", "MacBookPro15,3")
                    ELSE Cores(6, "MacBookPro16,3", "MacBookPro16,1")
             comet == By3(desk, "Macmini8,1", lap)
  <1>4. /\ "iMac12,2" \in S /\ "Macmini5,1" \in S /\ "Macmini5,3" \in S /\ "MacBookPro8,1" \in S
        /\ "MacBookPro8,2" \in S /\ "iMac13,1" \in S /\ "iMac13,2" \in S /\ "Macmini6,1" \in S
        /\ "Macmini6,2" \in S /\ "MacBookPro10,2" \in S /\ "MacBookPro10,1" \in S /\ "iMac14,4" \in S
        /\ "iMac15,1" \in S /\ "Macmini7,1" \in S /\ "MacBookPro11,1" \in S /\ "MacBookPro11,5" \in S
        /\ "iMac16,2" \in S /\ "iMac17,1" \in S /\ "iMac16,1" \in S /\ "MacBookPro12,1" \in S
        /\ "MacBookPro13,1" \in S /\ "MacBookPro13,3" \in S /\ "iMac18,1" \in S /\ "iMac18,3" \in S
        /\ "MacBookPro14,1" \in S /\ "MacBookPro14,3" \in S
    BY DEF SelectableModels
  <1>5. /\ "iMac20,1" \in S /\ "iMac20,2" \in S /\ "iMac19,1" \in S /\ "iMac18,3" \in S
        /\ "Macmini8,1" \in S /\ "MacBookPro15,2" \in S /\ "MacBookPro15,3" \in S
        /\ "MacBookPro16,3" \in S /\ "MacBookPro16,1" \in S
        /\ "MacBookAir9,1" \in S /\ "MacBookPro6,1" \in S
    BY DEF SelectableModels
  <1> HIDE DEF S
  <1>6. /\ sandy \in S /\ ivy \in S /\ haswell \in S /\ broadwell \in S /\ skylake \in S /\ kaby \in S
    BY <1>1, <1>2, <1>4
  <1>7. comet \in S
    <2>1. Cores(10, "iMac20,1", "iMac20,2") \in S
      BY <1>2, <1>5
    <2>2. desk \in S
      BY <1>5, <2>1, Zenon
    <2>3. Cores(6, "MacBookPro15,2", "MacBookPro15,3") \in S /\ Cores(6, "MacBookPro16,3", "MacBookPro16,1") \in S
      BY <1>2, <1>5
    <2>4. lap \in S
      BY <2>3
    <2> HIDE DEF desk, lap
    <2>5. QED BY <1>1, <1>5, <2>2, <2>4
  <1>8. IntegratedModel(machine, version) =
          CASE code \in {"Arrandale", "Clarksfield"} -> "MacBookPro6,1"
            [] code \in SandyBridge -> sandy
            [] code \in IvyBridge -> ivy
            [] code \in Haswell -> haswell
            [] code \in Broadwell -> broadwell
            [] code \in Skylake -> skylake
            [] code \in AmberLake \cup KabyLake -> kaby
            [] code \in CannonToComet -> comet
            [] code \in IceLake -> "MacBookAir9,1"
            [] OTHER -> HighEndModel(machine, version)
    BY DEF IntegratedModel, By3, Cores, Igpu
  <1> HIDE DEF sandy, ivy, haswell, broadwell, skylake, kaby, comet
  <1>9. IntegratedModel(machine, version) \in S
    BY <1>3, <1>5, <1>6, <1>7, <1>8, Zenon
  <1>10. SelectSmbiosModel(machine, version) \in S
    BY <1>3, <1>9 DEF SelectSmbiosModel
  <1>11. QED BY <1>10, ModelAssumption DEF S

-----------------------------------------------------------------------------
(* What options 1 and 2 select.                                            *)

\* The checked kexts suit the machine: NootRX is not with an Intel card, and AppleALC on
\* Tahoe is with the warning.
Suits(kexts, machine, version, oclp) ==
    /\ "NootRX" \in kexts => \A g \in ToSet(machine.gpus) : g.maker # "Intel"
    /\ "AppleALC" \in kexts /\ UsesCodec(machine) /\ version >= Darwin(25, 0, 0) => oclp

\* A version there is.
Released(version) == version \in Nat /\ LowestDarwin <= version /\ version <= LatestDarwin

\* The selected kexts suit the machine they are selected for.
LEMMA KextsSuit ==
    ASSUME NEW name \in DOMAIN Reports, NEW check, NEW v \in Nat,
           NEW custom \in Customizations(Reports[name], check, v),
           NEW answer \in Answers(Customized(Reports[name], custom), v),
           NEW kexts, NEW oclp,
           SelectedKexts(kexts, Customized(Reports[name], custom), v, answer),
           AudioNeedsOclp(Customized(Reports[name], custom), v, answer) => oclp
    PROVE  Suits(kexts, Customized(Reports[name], custom), v, oclp)
  <1> DEFINE machine == Customized(Reports[name], custom)
  <1>1. Listed(machine)
    BY CustomizedListed
  <1>2. ASSUME NEW g \in ToSet(machine.gpus), NEW h \in ToSet(machine.gpus),
               ~g.integrated, g.codename = "Navi 22"
        PROVE  h.maker # "Intel"
    BY <1>2, KeptApart
  <1> HIDE DEF machine
  <1>3. answer.navi \in NaviChoices
    BY AnswerTypes DEF NaviChoices, machine
  <1>4. NamedForCards(GpuKexts(machine, v, answer), ToSet(machine.gpus))
    BY <1>1, <1>3, GpuNames
  <1>5. /\ "NootRX" \in kexts => "NootRX" \in ToSet(GpuKexts(machine, v, answer))
        /\ "AppleALC" \in kexts => "AppleALC" \in ToSet(AudioKexts(machine, v, answer))
    BY DEF SelectedKexts, machine
  <1>6. "NootRX" \in kexts => \A g \in ToSet(machine.gpus) : g.maker # "Intel"
    BY <1>2, <1>4, <1>5 DEF NamedForCards
  <1>7. "AppleALC" \in ToSet(AudioKexts(machine, v, answer)) =>
           v < Darwin(25, 0, 0) \/ answer.audio = "AppleALC"
    BY <1>1, AudioNames
  <1>8. ~(v < Darwin(25, 0, 0) /\ v >= Darwin(25, 0, 0))
    BY DarwinNumbers
  <1>9. "AppleALC" \in kexts /\ UsesCodec(machine) /\ v >= Darwin(25, 0, 0) => AudioNeedsOclp(machine, v, answer)
    BY <1>5, <1>7, <1>8 DEF AudioNeedsOclp
  <1>10. QED BY <1>6, <1>9 DEF Suits, machine

\* What a selection is that goes on.
SoundSelection(s) ==
    /\ s.report \in DOMAIN Reports /\ ChoiceOf(s.choice, Reports[s.report])
    /\ Released(s.version) /\ s.model \in MacModels /\ s.oclp \in BOOLEAN
    /\ s.kexts \in KextSets /\ RequiredKexts \subseteq s.kexts
    /\ Suits(s.kexts, Customized(Reports[s.report], s.choice), s.version, s.oclp)

\* Every selection is, whatever the report holds and the user answers.
LEMMA SelectionsSound ==
    ASSUME NEW s \in AllSelections, s.raised # "model"
    PROVE  SoundSelection(s)
  <1>1. PICK name \in DOMAIN Reports : CheckCompatibility(Reports[name]).verdict = "checked" /\ s \in SelectionsOf(name)
    BY DEF AllSelections, ReportsWith
  <1> DEFINE check == CheckCompatibility(Reports[name])
  <1>2. s \in SelectionsFrom(name, check)
    BY <1>1 DEF SelectionsOf
  <1> HIDE DEF check
  <1>3. PICK v \in AcceptedVersions(Reports[name], check) : \E custom \in Customizations(Reports[name], check, v) :
           s \in SelectionsFor(name, v, custom, Customized(Reports[name], custom))
    BY <1>2 DEF SelectionsFrom
  <1>4. PICK custom \in Customizations(Reports[name], check, v) :
           s \in SelectionsFor(name, v, custom, Customized(Reports[name], custom))
    BY <1>3
  <1> DEFINE machine == Customized(Reports[name], custom)
  <1>5. Released(v)
    BY <1>1, AcceptedBounds DEF check, Released
  <1>6. ChoiceOf(custom, Reports[name])
    BY CustomizationsType
  <1>7. Listed(machine)
    BY CustomizedListed
  <1>8. /\ s.report = name /\ s.version = v /\ s.choice = custom
        /\ s.model = SelectSmbiosModel(machine, v)
        /\ \E answer \in Answers(machine, v) :
                 /\ SelectedKexts(s.kexts, machine, v, answer)
                 /\ AudioNeedsOclp(machine, v, answer) => s.oclp
                 /\ s.oclp \in {custom.oclp, custom.oclp \/ AudioNeedsOclp(machine, v, answer)}
    BY <1>4, <1>7, SelectionAnswer
  <1>9. PICK answer \in Answers(machine, v) :
           /\ SelectedKexts(s.kexts, machine, v, answer)
           /\ AudioNeedsOclp(machine, v, answer) => s.oclp
           /\ s.oclp \in {custom.oclp, custom.oclp \/ AudioNeedsOclp(machine, v, answer)}
    BY <1>8
  <1>10. Suits(s.kexts, machine, v, s.oclp)
    BY <1>5, <1>9, KextsSuit DEF Released
  <1>11. s.oclp \in BOOLEAN
    <2>1. custom.oclp \in BOOLEAN
      BY <1>6 DEF ChoiceOf
    <2>2. QED BY <1>9, <2>1
  <1>12. s.model \in MacModels
    BY <1>8, ModelSelected
  <1>13. s.kexts \in KextSets /\ RequiredKexts \subseteq s.kexts
    BY <1>9 DEF SelectedKexts
  <1>14. QED BY <1>5, <1>6, <1>8, <1>10, <1>11, <1>12, <1>13 DEF SoundSelection

\* What main() keeps is what has been selected, and what has been changed since: the kexts
\* suit the machine until the user changes them by hand.
SelectInv ==
    /\ macosVersion = NoVersion \/ Released(macosVersion)
    /\ smbiosModel \in MacModels \cup {NoModel}
    /\ needsOclp \in BOOLEAN /\ edits \in 0 .. MaxEdits
    /\ checkedKexts \in KextSets /\ RequiredKexts \subseteq checkedKexts
    /\ hardwareReport # NoReport => ChoiceOf(customization, Reports[hardwareReport])
    /\ hardwareReport # NoReport /\ edits = 0 => Suits(checkedKexts, Machine, macosVersion, needsOclp)

LEMMA SelectInit == Init => SelectInv
  <1>1. MaxEdits \in Nat /\ RequiredKexts \in KextSets
    BY MenuAssumption, KextListAssumption DEF KextSets
  <1>2. ASSUME Init
        PROVE  SelectInv
    <2>1. /\ macosVersion = NoVersion /\ smbiosModel = NoModel /\ needsOclp = FALSE
          /\ hardwareReport = NoReport /\ edits \in 0 .. MaxEdits
          /\ checkedKexts \in KextSets /\ RequiredKexts \subseteq checkedKexts
      BY <1>1, <1>2 DEF Init
    <2>2. QED BY <2>1 DEF SelectInv
  <1>3. QED BY <1>2

LEMMA SelectForgets ==
    ASSUME Forget, checkedKexts' \in KextSets, RequiredKexts \subseteq checkedKexts'
    PROVE  SelectInv'
  <1>1. MaxEdits \in Nat
    BY MenuAssumption
  <1>2. /\ macosVersion' = NoVersion /\ smbiosModel' = NoModel /\ needsOclp' = FALSE
        /\ hardwareReport' = NoReport /\ edits' \in 0 .. MaxEdits
    BY <1>1 DEF Forget
  <1>3. QED BY <1>2 DEF SelectInv

\* The selected kexts are those of the report the selection is of.
LEMMA SelectSelected ==
    ASSUME NEW s \in AllSelections, s.raised # "model", Selected(s), hardwareReport' = s.report
    PROVE  SelectInv'
  <1>1. SoundSelection(s)
    BY SelectionsSound
  <1>2. MaxEdits \in Nat
    BY MenuAssumption
  <1>3. /\ macosVersion' = s.version /\ customization' = s.choice /\ smbiosModel' = s.model
        /\ needsOclp' = s.oclp /\ checkedKexts' = s.kexts /\ edits' = 0
    BY DEF Selected
  <1>4. Machine' = Customized(Reports[s.report], s.choice)
    BY <1>3 DEF Machine
  <1>5. Suits(checkedKexts, Machine, macosVersion, needsOclp)'
    BY <1>1, <1>3, <1>4 DEF SoundSelection, Suits
  <1>6. /\ Released(macosVersion') /\ smbiosModel' \in MacModels /\ needsOclp' \in BOOLEAN
        /\ edits' \in 0 .. MaxEdits /\ checkedKexts' \in KextSets /\ RequiredKexts \subseteq checkedKexts'
        /\ ChoiceOf(customization', Reports[hardwareReport'])
    BY <1>1, <1>2, <1>3 DEF SoundSelection
  <1>7. QED BY <1>5, <1>6 DEF SelectInv

\* A change by hand.
LEMMA SelectEdited ==
    ASSUME SelectInv, Edit, UNCHANGED <<hardwareReport, macosVersion, customization, needsOclp>>,
           smbiosModel' \in MacModels \cup {NoModel},
           checkedKexts' \in KextSets, RequiredKexts \subseteq checkedKexts'
    PROVE  SelectInv'
  <1>1. MaxEdits \in Nat
    BY MenuAssumption
  <1>2. edits' \in 0 .. MaxEdits /\ edits' # 0
    BY <1>1 DEF SelectInv, Edit
  <1>3. QED BY <1>2 DEF SelectInv

\* Of the kexts a build changes one only, which is neither of those that have to suit.
LEMMA SelectBuilt ==
    ASSUME SelectInv, BuildOpencoreEfi
    PROVE  SelectInv'
  <1>1. "ECEnabler" \in AllKexts /\ "ECEnabler" \notin RequiredKexts
    BY HardwareAssumption DEF HardwareKexts, RequiredKexts
  <1>2. checkedKexts' \in {checkedKexts, checkedKexts \cup {"ECEnabler"}, checkedKexts \ {"ECEnabler"}}
    BY DEF BuildOpencoreEfi
  <1>3. checkedKexts' \in KextSets /\ RequiredKexts \subseteq checkedKexts'
    BY <1>1, <1>2 DEF SelectInv, KextSets
  <1>4. CASE MainAgain
    BY <1>3, <1>4, SelectForgets DEF MainAgain
  <1>5. CASE UNCHANGED <<hardwareReport, macosVersion, customization, smbiosModel, needsOclp, edits>>
    <2>1. ("NootRX" \in checkedKexts' <=> "NootRX" \in checkedKexts)
          /\ ("AppleALC" \in checkedKexts' <=> "AppleALC" \in checkedKexts)
      BY <1>2
    <2>2. Machine' = Machine
      BY <1>5 DEF Machine
    <2>3. Suits(checkedKexts, Machine, macosVersion, needsOclp) => Suits(checkedKexts, Machine, macosVersion, needsOclp)'
      BY <1>5, <2>1, <2>2 DEF Suits
    <2>4. QED BY <1>3, <1>5, <2>3 DEF SelectInv
  <1>6. MainAgain \/ UNCHANGED <<hardwareReport, macosVersion, customization, smbiosModel, needsOclp, edits>>
    BY DEF BuildOpencoreEfi
  <1>7. QED BY <1>4, <1>5, <1>6

\* Every option keeps it, and so does every build.
LEMMA SelectStep ==
    ASSUME SelectInv, [Next]_vars
    PROVE  SelectInv'
  <1>1. CASE RefuseHardwareReport \/ ExitProgram
    <2>1. Forget /\ checkedKexts' = RequiredKexts
      BY <1>1 DEF RefuseHardwareReport, ExitProgram, EndProcess
    <2>2. RequiredKexts \in KextSets
      BY KextListAssumption DEF KextSets
    <2>3. QED BY <2>1, <2>2, SelectForgets
  <1>2. CASE HardwareReportRaises
    BY <1>2, SelectForgets DEF HardwareReportRaises, MainAgain, SelectInv
  <1>3. CASE SelectHardwareReport
    <2>1. \E s \in AllSelections : s.raised = "no" /\ hardwareReport' = s.report /\ Selected(s)
      BY <1>3 DEF SelectHardwareReport
    <2>2. QED BY <2>1, SelectSelected
  <1>4. CASE SelectMacosVersion
    <2>1. PICK s \in AllSelections :
             /\ s.report = hardwareReport
             /\ \/ MainAgain /\ UNCHANGED checkedKexts
                \/ s.raised # "model" /\ Selected(s) /\ hardwareReport' = hardwareReport
      BY <1>4 DEF SelectMacosVersion
    <2>2. CASE MainAgain /\ UNCHANGED checkedKexts
      BY <2>2, SelectForgets DEF MainAgain, SelectInv
    <2>3. CASE s.raised # "model" /\ Selected(s) /\ hardwareReport' = hardwareReport
      BY <2>1, <2>3, SelectSelected
    <2>4. QED BY <2>1, <2>2, <2>3
  <1>5. CASE CustomizePatchSelection
    BY <1>5, SelectEdited DEF CustomizePatchSelection, locals, SelectInv
  <1>6. CASE KextConfigurationMenu
    <2>1. PICK kext \in OfferedKexts, allow \in BOOLEAN :
             checkedKexts' = IF kext \in checkedKexts THEN UncheckKext(kext, checkedKexts)
                             ELSE CheckKext(kext, checkedKexts, macosVersion, allow)
      BY <1>6 DEF KextConfigurationMenu
    <2>2. kext \in AllKexts /\ kext \notin RequiredKexts
      BY MenuAssumption
    <2>3. UncheckKext(kext, checkedKexts) \in KextSets /\ RequiredKexts \subseteq UncheckKext(kext, checkedKexts)
      BY <2>2 DEF UncheckKext, SelectInv, KextSets
    <2>4. CheckKext(kext, checkedKexts, macosVersion, allow) \in Allowed(kext, checkedKexts)
      BY <2>2, CheckKextAllowed DEF SelectInv
    <2>5. checkedKexts' \in KextSets /\ RequiredKexts \subseteq checkedKexts'
      BY <2>1, <2>3, <2>4 DEF Allowed, SelectInv
    <2>6. Edit /\ UNCHANGED <<hardwareReport, macosVersion, customization, needsOclp, smbiosModel>>
      BY <1>6 DEF KextConfigurationMenu, locals
    <2>7. QED BY <2>5, <2>6, SelectEdited DEF SelectInv
  <1>7. CASE CustomizeSmbiosModel
    <2>1. /\ Edit /\ UNCHANGED <<hardwareReport, macosVersion, customization, needsOclp>>
          /\ smbiosModel' \in OfferedModels \cup {SelectSmbiosModel(Machine, macosVersion)}
          /\ checkedKexts' = CheckKexts(SmbiosKexts(smbiosModel'), checkedKexts, macosVersion, FALSE)
      BY <1>7 DEF CustomizeSmbiosModel
    <2>2. smbiosModel' \in MacModels
      BY <2>1, MenuAssumption, ModelSelected
    <2>3. SmbiosKexts(smbiosModel') \in Seq(AllKexts)
      <3>1. SmbiosKexts(smbiosModel') \in Seq(Others)
        BY SmbiosNames
      <3>2. Others \subseteq AllKexts
        BY HardwareAssumption DEF Others
      <3>3. QED BY <3>1, <3>2
    <2>4. /\ CheckKexts(SmbiosKexts(smbiosModel'), checkedKexts, macosVersion, FALSE) \in KextSets
          /\ checkedKexts \cap RequiredKexts \subseteq
               CheckKexts(SmbiosKexts(smbiosModel'), checkedKexts, macosVersion, FALSE)
      BY <2>3, CheckKextsAllowed DEF SelectInv
    <2>5. checkedKexts' \in KextSets /\ RequiredKexts \subseteq checkedKexts'
      BY <2>1, <2>4 DEF SelectInv
    <2>6. QED BY <2>1, <2>2, <2>5, SelectEdited
  <1>8. CASE BuildOpencoreEfi
    BY <1>8, SelectBuilt
  <1>9. CASE ChooseBuild \/ AcceptOclp \/ GatherBootloaderKexts \/ BeforeUsingEfi \/ UNCHANGED vars
    <2>1. UNCHANGED <<hardwareReport, macosVersion, customization, smbiosModel, needsOclp, checkedKexts, edits>>
      BY <1>9 DEF ChooseBuild, AcceptOclp, GatherBootloaderKexts, BeforeUsingEfi, locals, stored, vars
    <2>2. QED BY <2>1 DEF SelectInv, Machine, Suits
  <1>10. QED BY <1>1, <1>2, <1>3, <1>4, <1>5, <1>6, <1>7, <1>8, <1>9 DEF Next

LEMMA SelectInvHolds == Spec => []SelectInv
  BY SelectInit, SelectStep, PTL DEF Spec

\* NootRX is not selected for a machine that keeps an Intel card, whatever the reports hold,
\* the user answers and was selected before (hardware_customizer.py, kext_maestro.py).
THEOREM NootRXWithoutIntelHolds == Spec => []NootRXWithoutIntel
  <1>1. SelectInv => NootRXWithoutIntel
    BY DEF SelectInv, Suits, NootRXWithoutIntel
  <1>2. QED BY <1>1, SelectInvHolds, PTL

\* A build that is not behind the warning is chosen from the menu.
LEMMA BuildChosen ==
    ASSUME Next, at' = "gather", at # "warning"
    PROVE  ChooseBuild \/ UNCHANGED at
  BY DEF Next, RefuseHardwareReport, HardwareReportRaises, SelectHardwareReport, SelectMacosVersion,
         CustomizePatchSelection, KextConfigurationMenu, CustomizeSmbiosModel, AcceptOclp, GatherBootloaderKexts,
         BuildOpencoreEfi, BeforeUsingEfi, ExitProgram, EndProcess, MainAgain, Selected

\* AppleALC that needs the root patch is not built for without the warning, until the
\* selection is changed by hand (check_kext, main, option 6).
THEOREM AudioWarnedHolds == Spec => AudioWarned
  <1> DEFINE asks == /\ edits = 0 /\ "AppleALC" \in checkedKexts /\ UsesCodec(Machine)
                     /\ macosVersion >= Darwin(25, 0, 0)
  <1>1. ASSUME SelectInv, [Next]_vars
        PROVE  [at' = "gather" /\ asks => at = "warning"]_vars
    <2>1. SUFFICES ASSUME Next, at' = "gather", asks
                   PROVE  at = "warning" \/ UNCHANGED vars
      BY <1>1
    <2>2. ~ChooseBuild
      BY <1>1, <2>1 DEF ChooseBuild, SelectInv, Suits
    <2>3. at # "gather"
      BY <2>1 DEF Next, RefuseHardwareReport, HardwareReportRaises, SelectHardwareReport, SelectMacosVersion,
                  CustomizePatchSelection, KextConfigurationMenu, CustomizeSmbiosModel, ChooseBuild, AcceptOclp,
                  GatherBootloaderKexts, BuildOpencoreEfi, BeforeUsingEfi, ExitProgram, EndProcess
    <2>4. QED BY <2>1, <2>2, <2>3, BuildChosen
  <1>2. QED BY <1>1, SelectInvHolds, PTL DEF Spec, AudioWarned

-----------------------------------------------------------------------------
(* The type of the main menu's state.                                      *)

\* An EFI is offered only while its folder is, and the tables are those of a report.
StoredInv ==
    /\ at \in {"menu", "warning", "gather", "build", "built", "exited"}
    /\ efi # NoEfi <=> at = "built"
    /\ acpiTables \in DOMAIN Reports \cup {NoReport}

\* What is built is an EFI.
LEMMA EfiThere ==
    ASSUME BuildOpencoreEfi, at' = "built"
    PROVE  efi' # NoEfi
  <1>1. "model" \in DOMAIN efi'.config
    <2>1. \A machine, disabled, flagged, model, version, oclp, checked :
             "model" \in DOMAIN Generate(machine, disabled, flagged, model, version, oclp, checked)
      BY DEF Generate
    <2>2. QED BY <2>1, BuiltConfig
  <1>2. NoEfi.config = <<>>
    BY DEF NoEfi
  <1>3. "model" \notin DOMAIN <<>>
    OBVIOUS
  <1>4. efi'.config # NoEfi.config
    BY <1>1, <1>2, <1>3
  <1>5. QED BY <1>4

LEMMA StoredStep ==
    ASSUME MenuInv, StoredInv, [Next]_vars
    PROVE  StoredInv'
  <1>1. CASE RefuseHardwareReport \/ ExitProgram
    BY <1>1 DEF RefuseHardwareReport, ExitProgram, EndProcess, StoredInv
  <1>2. CASE HardwareReportRaises
    <2>1. at = "menu" /\ at' = "menu" /\ efi' = efi
      BY <1>2 DEF HardwareReportRaises, MainAgain
    <2>2. \/ acpiTables' = NoReport
          \/ \E s \in AllSelections, loaded \in BOOLEAN : ReadAcpiTables(s.report, loaded)
      BY <1>2 DEF HardwareReportRaises
    <2>3. acpiTables' \in DOMAIN Reports \cup {NoReport}
      BY <2>2, ReadTables, AllSelectionsKnown
    <2>4. QED BY <2>1, <2>3 DEF StoredInv
  <1>3. CASE SelectHardwareReport
    <2>1. PICK s \in AllSelections, loaded \in BOOLEAN : ReadAcpiTables(s.report, loaded) /\ Selected(s)
      BY <1>3 DEF SelectHardwareReport
    <2>2. acpiTables' \in DOMAIN Reports \cup {NoReport}
      BY <2>1, ReadTables, AllSelectionsKnown
    <2>3. at = "menu" /\ at' = "menu" /\ efi' = efi
      BY <1>3, <2>1 DEF SelectHardwareReport, Selected
    <2>4. QED BY <2>2, <2>3 DEF StoredInv
  <1>4. CASE SelectMacosVersion
    <2>1. at \in {"menu", "warning"} /\ UNCHANGED <<acpiTables, efi>>
      BY <1>4 DEF SelectMacosVersion
    <2>2. at' = "menu"
      BY <1>4 DEF SelectMacosVersion, MainAgain, Selected
    <2>3. QED BY <2>1, <2>2 DEF StoredInv
  <1>5. CASE CustomizePatchSelection \/ KextConfigurationMenu \/ CustomizeSmbiosModel \/ UNCHANGED vars
    <2>1. UNCHANGED <<at, acpiTables, efi>>
      BY <1>5 DEF CustomizePatchSelection, KextConfigurationMenu, CustomizeSmbiosModel, stored, vars
    <2>2. QED BY <2>1 DEF StoredInv
  <1>6. CASE ChooseBuild \/ AcceptOclp \/ GatherBootloaderKexts
    <2>1. UNCHANGED <<acpiTables, efi>>
      BY <1>6 DEF ChooseBuild, AcceptOclp, GatherBootloaderKexts, stored
    <2>2. at \in {"menu", "warning", "gather"} /\ at' \in {"menu", "warning", "gather", "build"}
      BY <1>6 DEF ChooseBuild, AcceptOclp, GatherBootloaderKexts
    <2>3. QED BY <2>1, <2>2 DEF StoredInv
  <1>7. CASE BuildOpencoreEfi
    <2>1. hardwareReport \in DOMAIN Reports /\ at = "build"
      BY <1>7 DEF MenuInv, BuildOpencoreEfi
    <2>2. \E loaded \in BOOLEAN : acpiTables' = acpiTables \/ ReadAcpiTables(hardwareReport, loaded)
      BY <1>7 DEF BuildOpencoreEfi
    <2>3. acpiTables' \in DOMAIN Reports \cup {NoReport}
      BY <2>1, <2>2, ReadTables DEF StoredInv
    <2>4. (at' = "menu" /\ efi' = efi) \/ at' = "built"
      BY <1>7 DEF BuildOpencoreEfi, MainAgain
    <2>5. at' = "built" => efi' # NoEfi
      BY <1>7, EfiThere
    <2>6. QED BY <2>1, <2>3, <2>4, <2>5 DEF StoredInv
  <1>8. CASE BeforeUsingEfi
    BY <1>8 DEF BeforeUsingEfi, stored, StoredInv
  <1>9. QED BY <1>1, <1>2, <1>3, <1>4, <1>5, <1>6, <1>7, <1>8 DEF Next

LEMMA StoredInvHolds == Spec => []StoredInv
  <1>1. Init => StoredInv
    BY DEF Init, StoredInv
  <1>2. QED BY <1>1, StoredStep, MenuInvHolds, PTL DEF Spec

\* Only disabled cards are marked.
LEMMA MarkedDisabled ==
    ASSUME MarkedInv
    PROVE  poweredOff \subseteq customization.disabled
  <1>1. Guru({}).disabled = DisabledDevices(Reports[hardwareReport], customization)
    BY DEF Guru
  <1>2. \A d \in DisabledBySsdt(Guru({})) : d \in Guru({}).disabled
    BY DEF DisabledBySsdt
  <1>3. \A d \in DisabledDevices(Reports[hardwareReport], customization) : d.name \in customization.disabled
    BY DEF DisabledDevices
  <1>4. QED BY <1>1, <1>2, <1>3 DEF MarkedInv, CardsOff

\* Every variable of the main menu has the values main() and its objects can give it: a
\* version there is, a model of the list, a choice between the report's devices, the
\* required kexts always among the checked ones.
THEOREM MainMenuTypeOKHolds == Spec => []MainMenuTypeOK
  <1>1. ASSUME MenuInv, SelectInv, StoredInv, MarkedInv
        PROVE  MainMenuTypeOK
    <2>1. poweredOff \subseteq customization.disabled
      BY <1>1, MarkedDisabled
    <2>2. hardwareReport # NoReport =>
            /\ customization.kept \cap customization.disabled = {}
            /\ customization.kept \cup customization.disabled \subseteq Devices(Reports[hardwareReport])
            /\ poweredOff \subseteq customization.disabled
      BY <1>1, <2>1 DEF SelectInv, ChoiceOf
    <2>3. macosVersion = NoVersion \/ (LowestDarwin <= macosVersion /\ macosVersion <= LatestDarwin)
      BY <1>1 DEF SelectInv, Released
    <2>4. /\ at \in {"menu", "warning", "gather", "build", "built", "exited"}
          /\ acpiTables \in DOMAIN Reports \cup {NoReport}
          /\ (efi # NoEfi) = (at = "built")
      BY <1>1 DEF StoredInv
    <2>5. /\ hardwareReport \in DOMAIN Reports \cup {NoReport}
          /\ dsdtPatches \subseteq PrePatches /\ checkedPatches \subseteq AllPatches
      BY <1>1 DEF MenuInv
    <2>6. /\ smbiosModel \in MacModels \cup {NoModel} /\ needsOclp \in BOOLEAN /\ edits \in 0 .. MaxEdits
          /\ RequiredKexts \subseteq checkedKexts /\ checkedKexts \subseteq AllKexts
      BY <1>1 DEF SelectInv, KextSets
    <2>7. QED BY <2>2, <2>3, <2>4, <2>5, <2>6 DEF MainMenuTypeOK
  <1>2. QED BY <1>1, MenuInvHolds, SelectInvHolds, StoredInvHolds, MarkedInvHolds, PTL
=============================================================================
