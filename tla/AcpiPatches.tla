----------------------------- MODULE AcpiPatches -----------------------------
(***************************************************************************)
(* ACPIGuru: what each ACPI patch of the command-line program adds to,     *)
(* renames in and deletes from the machine's tables, which patches are     *)
(* selected for a machine, and the order the renames are applied in.       *)
(*                                                                         *)
(* A table is the set of what the patches look for in it: "AWAC" is a      *)
(* device, "AWAC._STA" one of its objects.  The first table is the DSDT.   *)
(* `guru` holds what a patch looks at: the tables, the machine (its        *)
(* customized report), the disabled devices, the Mac model and the SSDTs   *)
(* that iasl refuses.                                                      *)
(***************************************************************************)
EXTENDS Smbios

\* A patch returns the SSDTs, renames and deletions for config.plist.  A rename is named
\* by its comment, in two parts, and an SSDT by the parts of its name.
Result(add, patch, delete) == [add |-> add, patch |-> patch, delete |-> delete]
None == Result({}, {}, {})

\* write_ssdt: Enabled says whether iasl compiled it.
WriteSsdt(name, guru) == [path |-> name, enabled |-> name \notin guru.refused]

Add(name, renames, guru) == Result({WriteSsdt(<<name>>, guru)}, renames, {})

Dsdt(guru) == Head(guru.tables)
InAny(feature, guru) == \E i \in 1 .. Len(guru.tables) : feature \in guru.tables[i]

\* The features of the first table that has one of some.
FirstWith(features, guru) ==
    LET with == {i \in 1 .. Len(guru.tables) : guru.tables[i] \cap features # {}}
    IN  IF with = {} THEN {} ELSE guru.tables[CHOOSE i \in with : \A j \in with : i <= j]

\* get_sta_var: a device with an XSTA and no _STA is taken for renamed already.
Valid(device, table) ==
    device \in table /\ ~(device \o ".XSTA" \in table /\ device \o "._STA" \notin table)
OwnSta(device, table) == Valid(device, table) /\ device \o "._STA" \in table
Stas(device, table) == OwnSta(device, table) /\ device \o ".STAS" \in table

StaRename(device) == <<device, "_STA to XSTA">>
CrsRename(device) == <<device, "_CRS to XCRS">>
StaRenames(device, table) == IF OwnSta(device, table) THEN {StaRename(device)} ELSE {}

\* get_lpc_name, for the device's presence: an embedded controller, a common name or an
\* address.
LpcFound(guru) == \E f \in {"EC", "H_EC", "LPC", "LPC._ADR"} : InAny(f, guru)

-----------------------------------------------------------------------------
(* The patches, one operator each.                                         *)

\* The first table with processors, which are devices in newer machines ("NamesTaken":
\* no name is free for one of those).
EnableCpuPowerManagement(guru) ==
    LET table == FirstWith({"Processor", "ACPI0007._UID"}, guru)
    IN  IF table = {} \/ "NamesTaken" \in table THEN None
        ELSE Add(IF "Processor" \in table THEN "SSDT-PLUG" ELSE "SSDT-PLUG-ALT", {}, guru)

\* list_irqs to same_line_irq: the timers' interrupts found once in the DSDT, or more.
IrqRenames(dsdt) ==
    (IF "TMR IRQ" \in dsdt THEN {<<"TMR", "IRQ 0">>} ELSE {}) \cup
    (IF "TMR IRQ twice" \in dsdt THEN {<<"Generic", "IRQ">>} ELSE {})

FixIrqConflicts(guru) ==
    LET dsdt == Dsdt(guru)
    IN  CASE "HPET" \in dsdt /\ "HPET._CRS" \in dsdt ->
               Add("SSDT-HPET", StaRenames("HPET", dsdt) \cup {CrsRename("HPET")}
                                \cup IrqRenames(dsdt), guru)
          [] "HPET" \notin dsdt /\ {"EC", "H_EC", "LPC"} \cap dsdt # {} ->
               Add("SSDT-HPET", IrqRenames(dsdt), guru)
          [] OTHER -> None

\* What fix_system_clock_awac renames: a _STA that STAS does not control, and the
\* _CRS of an RTC whose ranges leave a gap.
ClockRenames(dsdt) ==
    UNION {IF OwnSta(d, dsdt) /\ ~Stas(d, dsdt) THEN {StaRename(d)} ELSE {} : d \in {"AWAC", "RTC"}}
    \cup (IF Valid("RTC", dsdt) /\ "RTC._CRS gap" \in dsdt THEN {CrsRename("RTC")} ELSE {})

ClockNeedsFix(guru) ==
    LET dsdt == Dsdt(guru)
    IN  IF Valid("RTC", dsdt)
        THEN Valid("AWAC", dsdt) \/ OwnSta("RTC", dsdt) \/ "RTC._CRS gap" \in dsdt
        ELSE LpcFound(guru)

\* Variant: the SSDT is written as the other ones are.
FixSystemClockUnchecked(guru) ==
    IF ClockNeedsFix(guru) THEN Add("SSDT-RTCAWAC", ClockRenames(Dsdt(guru)), guru) ELSE None

\* The clock is renamed only when its SSDT is compiled.
FixSystemClockAwac(guru) ==
    IF ClockNeedsFix(guru) /\ <<"SSDT-RTCAWAC">> \notin guru.refused
    THEN Add("SSDT-RTCAWAC", ClockRenames(Dsdt(guru)), guru) ELSE None

ECNames == {"EC", "H_EC"}
EcFirst == <<"EC", "to EC0 - must come before any EC _STA to XSTA renames!">>

\* The complete embedded controllers that have a _STA of their own, in any table: all
\* of them on a desktop, and on a laptop those whose _STA may not return 0x0F.
EcRenames(guru) ==
    LET laptop == guru.machine.platform = "Laptop"
    IN  {StaRename(ec) : ec \in {e \in ECNames :
            \E i \in 1 .. Len(guru.tables) :
                LET table == guru.tables[i]
                IN  /\ OwnSta(e, table) /\ e \o ".complete" \in table
                    /\ laptop => e \o "._STA computed" \in table}}

FakeEmbeddedController(guru) ==
    LET laptop == guru.machine.platform = "Laptop"
        named == InAny("EC", guru)
        renames == EcRenames(guru)
        rename == IF named /\ ~laptop THEN {IF renames = {} THEN <<"EC", "to EC0">> ELSE EcFirst} ELSE {}
    IN  IF \/ laptop /\ named /\ renames = {}
           \/ ~\E f \in ECNames \cup {"LPC._ADR"} : InAny(f, guru)
        THEN None ELSE Add("SSDT-EC", renames \cup rename, guru)

AddIntelManagementEngine(guru) ==
    IF "IMEI" \in Dsdt(guru) THEN None ELSE Add("SSDT-IMEI", {}, guru)

AddMemoryControllerDevice(guru) ==
    IF LpcFound(guru) /\ "MCHC" \notin Dsdt(guru) THEN Add("SSDT-MCHC", {}, guru) ELSE None

AddSystemManagementBusDevice(guru) ==
    IF LpcFound(guru) THEN Add("SSDT-SBUS", {}, guru) ELSE None

\* The models with power properties; the mini of the code, MacMini8,1, is no model.
UsbPowerModels ==
    {"MacPro7,1", "iMacPro1,1", "MacBook9,1", "MacBookAir9,1"} \cup MacModelSlice(13, 23)
    \cup MacModelSlice(52, 66)

AddUsbPowerProperties(guru) ==
    IF guru.smbios \in UsbPowerModels THEN Add("SSDT-USBX", {}, guru) ELSE None

AmbientLightSensor(guru) ==
    IF "ALSD" \in Dsdt(guru) THEN Add("SSDT-ALSD", StaRenames("ALSD", Dsdt(guru)), guru)
    ELSE Add("SSDT-ALS0", {}, guru)

\* disable_unsupported_device: a graphics card needs an _OFF outside a power resource
\* or a _PS3 in any table.
CanPowerOff(device, guru) == InAny(device.name \o "._OFF", guru) \/ InAny(device.name \o "._PS3", guru)

\* The disabled devices that get an SSDT; the graphics cards among them are marked.
DisabledBySsdt(guru) ==
    {d \in guru.disabled :
        /\ d.bus = "PCI" /\ d.acpi
        /\ \/ d.kind = "GPU" /\ ~d.integrated /\ CanPowerOff(d, guru)
           \/ d.kind \in {"Network", "Storage"}}

\* Variant: a card that cannot be powered off gets an SSDT too.
DisableEveryDevice(guru) ==
    Result({WriteSsdt(<<"SSDT-Disable", d.kind, d.parent>>, guru) :
               d \in {x \in guru.disabled : x.bus = "PCI" /\ x.acpi}}, {}, {})

DisableUnsupportedDevice(guru) ==
    Result({WriteSsdt(<<"SSDT-Disable", d.kind, d.parent>>, guru) : d \in DisabledBySsdt(guru)}, {}, {})

\* Only the first table with either value of NBCF is looked at.
EnableBacklightControls(guru) ==
    LET nbcf == FirstWith({"NBCF 0x00", "NBCF Zero"}, guru)
    IN  Add("SSDT-PNLF",
            (IF "PNLF" \in Dsdt(guru) THEN {<<"PNLF", "to XNLF">>} ELSE {})
            \cup (CASE "NBCF 0x00" \in nbcf -> {<<"NBCF", "0x00 to 0x01">>}
                    [] "NBCF 0x00" \notin nbcf /\ "NBCF Zero" \in nbcf -> {<<"NBCF", "Zero to One">>}
                    [] OTHER -> {}), guru)

\* GPIO is looked for only where GPI0 is, and never used.
EnableGpioDevice(guru) ==
    IF "GPI0" \in Dsdt(guru) THEN Add("SSDT-GPI0", StaRenames("GPI0", Dsdt(guru)), guru) ELSE None

EnableNvramSupport(guru) == IF LpcFound(guru) THEN Add("SSDT-PMC", {}, guru) ELSE None

RemoveConditionalScope(guru) ==
    Result({}, {<<"Remove", "conditional scope">>}, {})

FixHp005PostError(guru) ==
    Result({}, IF "CMOS 005" \in Dsdt(guru) THEN {<<"Fix HP", "005 post error">>} ELSE {}, {})

AddNullEthernetDevice(guru) == Add("SSDT-RMNE", {}, guru)

FixSystemClockHedt(guru) ==
    LET dsdt == Dsdt(guru)
    IN  IF "RTC" \in dsdt \/ LpcFound(guru)
        THEN Add("SSDT-RTC0-RANGE",
                 IF "AWAC" \notin dsdt /\ OwnSta("RTC", dsdt) THEN {StaRename("RTC_")} ELSE {}, guru)
        ELSE None

\* Two methods are renamed to one name when the DSDT has both.
InstantWakeFix(guru) ==
    LET found == {"GPRW", "UPRW", "USWE", "WOLE"} \cap Dsdt(guru)
    IN  IF found = {} THEN None
        ELSE Add("SSDT-PRW", {<<m, "to XPRW">> : m \in found \cap {"GPRW", "UPRW"}}, guru)

FixUncoreBridge(guru) == IF "UNC0" \in Dsdt(guru) THEN Add("SSDT-UNC", {}, guru) ELSE None

OsiRename == <<"_OSI", "to XOSI">>
OsiFirst(method) == <<method, "renamed - must come before _OSI to XOSI rename!">>

OperatingSystemPatch(guru) ==
    LET dsdt == Dsdt(guru)
    IN  Add("SSDT-XOSI",
            {OsiRename}
            \cup (IF "OSID" \in dsdt THEN {OsiFirst("OSID")} ELSE {})
            \cup (IF "OSIF" \in dsdt THEN {OsiFirst("OSIF")} ELSE {}), guru)

SurfaceLaptopSpecialPatch(guru) == Add("SSDT-SURFACE", {}, guru)

\* battery_status_patch and the parser it uses: a field of the embedded controller is
\* wider than a byte.
BatteryStatusPatch(guru) == "EC fields wide" \in Dsdt(guru)

FixApicProcessorId(guru) ==
    IF InAny("APIC", guru) /\ InAny("Processor", guru) /\ ~InAny("APIC matches", guru)
    THEN Result({WriteSsdt(<<"APIC">>, guru)}, {}, {"Delete APIC"}) ELSE None

UsbHubs == {"RHUB", "HUBN", "URTH"}

DisableUsbHubDevices(guru) ==
    LET hubs == UsbHubs \cap Dsdt(guru)
    IN  IF hubs = {} THEN None
        ELSE Add("SSDT-USB-Reset", UNION {StaRenames(h, Dsdt(guru)) : h \in hubs}, guru)

ReturnThermalZone(guru) ==
    IF InAny("WQBI", guru) THEN Add("SSDT-WMIS", {<<"WQBI", "to XQBI">>}, guru) ELSE None

DropCpuTables(guru) ==
    Result({}, {}, {"Delete " \o t : t \in {x \in {"CpuPm", "Cpu0Ist"} : InAny(x, guru)}})

-----------------------------------------------------------------------------
AllPatches ==
    {"ALS", "APIC", "BATP", "BUS0", "Disable Devices", "FakeEC", "RCSP", "CMOS", "FixHPET",
     "GPI0", "IMEI", "MCHC", "PMC", "PM (Legacy)", "PLUG", "PNLF", "RMNE", "RTC0", "RTCAWAC",
     "PRW", "Surface Patch", "UNC", "USB Reset", "USBX", "WMIS", "XOSI"}

\* acpi_patch_data: the function of each patch; BATP's result is used otherwise.
Apply(patch, guru) ==
    CASE patch = "ALS" -> AmbientLightSensor(guru)
      [] patch = "APIC" -> FixApicProcessorId(guru)
      [] patch = "BATP" -> None
      [] patch = "BUS0" -> AddSystemManagementBusDevice(guru)
      [] patch = "Disable Devices" -> DisableUnsupportedDevice(guru)
      [] patch = "FakeEC" -> FakeEmbeddedController(guru)
      [] patch = "RCSP" -> RemoveConditionalScope(guru)
      [] patch = "CMOS" -> FixHp005PostError(guru)
      [] patch = "FixHPET" -> FixIrqConflicts(guru)
      [] patch = "GPI0" -> EnableGpioDevice(guru)
      [] patch = "IMEI" -> AddIntelManagementEngine(guru)
      [] patch = "MCHC" -> AddMemoryControllerDevice(guru)
      [] patch = "PMC" -> EnableNvramSupport(guru)
      [] patch = "PM (Legacy)" -> DropCpuTables(guru)
      [] patch = "PLUG" -> EnableCpuPowerManagement(guru)
      [] patch = "PNLF" -> EnableBacklightControls(guru)
      [] patch = "RMNE" -> AddNullEthernetDevice(guru)
      [] patch = "RTC0" -> FixSystemClockHedt(guru)
      [] patch = "RTCAWAC" -> FixSystemClockAwac(guru)
      [] patch = "PRW" -> InstantWakeFix(guru)
      [] patch = "Surface Patch" -> SurfaceLaptopSpecialPatch(guru)
      [] patch = "UNC" -> FixUncoreBridge(guru)
      [] patch = "USB Reset" -> DisableUsbHubDevices(guru)
      [] patch = "USBX" -> AddUsbPowerProperties(guru)
      [] patch = "WMIS" -> ReturnThermalZone(guru)
      [] patch = "XOSI" -> OperatingSystemPatch(guru)

\* The pre-patches of a DSDT that iasl cannot read, and the order Python sorts the
\* comments in: capitals, then the underscore, then small letters.
PrePatches ==
    {<<"GPP7._PRW", "to XPRW">>, <<"GPP7.UP00", "to UPXX">>, <<"GPP6._PRW", "to XPRW">>, <<"GPP1.PTXH", "to XTXH">>}

CommentOrder ==
    <<StaRename("ALSD"), StaRename("AWAC"), StaRename("EC"), <<"EC", "to EC0">>, EcFirst,
      <<"Fix HP", "005 post error">>, StaRename("GPI0"), <<"GPP1.PTXH", "to XTXH">>,
      <<"GPP6._PRW", "to XPRW">>, <<"GPP7.UP00", "to UPXX">>, <<"GPP7._PRW", "to XPRW">>,
      <<"GPRW", "to XPRW">>, <<"Generic", "IRQ">>, CrsRename("HPET"), StaRename("HPET"),
      StaRename("HUBN"), StaRename("H_EC"), <<"NBCF", "0x00 to 0x01">>, <<"NBCF", "Zero to One">>,
      OsiFirst("OSID"), OsiFirst("OSIF"), <<"PNLF", "to XNLF">>, StaRename("RHUB"),
      CrsRename("RTC"), StaRename("RTC"), StaRename("RTC_"), <<"Remove", "conditional scope">>,
      <<"TMR", "IRQ 0">>, <<"UPRW", "to XPRW">>, StaRename("URTH"), <<"WQBI", "to XQBI">>, OsiRename>>

Positions(renames) == {i \in 1 .. Len(CommentOrder) : CommentOrder[i] \in renames}

\* Variant: sorted from the last comment on.
AppliedLast(renames) ==
    LET positions == Positions(renames)
    IN  [n \in 1 .. Cardinality(positions) |->
            CommentOrder[CHOOSE i \in positions : Cardinality({j \in positions : j >= i}) = n]]

\* apply_acpi_patches enables every rename, whatever the patch says of it, and sorts
\* them by comment.
ApplyAcpiPatches(renames) ==
    LET positions == Positions(renames)
    IN  [n \in 1 .. Cardinality(positions) |->
            CommentOrder[CHOOSE i \in positions : Cardinality({j \in positions : j <= i}) = n]]

-----------------------------------------------------------------------------
\* select_acpi_patches.  The last graphics card kept decides for a laptop, and a
\* laptop with none raises.
PatchSelectionRaises(machine) == machine.platform = "Laptop" /\ machine.gpus = <<>>

Chipsets(from, to) == Slice(IntelChipsets, from, to)

SelectAcpiPatches(machine, disabled) ==
    LET laptop == machine.platform = "Laptop"
        surface == "SURFACE" \in machine.board
        bridge == machine.cpu.codename \in SandyBridge \cup IvyBridge
        Selected(patch) ==
            CASE patch \in {"ALS", "PNLF"} ->
                   laptop /\ Last(machine.gpus).integrated /\ ~surface
              [] patch = "APIC" -> HedtCPU(machine.cpu)
              [] patch = "Disable Devices" -> \E d \in disabled : d.bus = "PCI"
              [] patch = "CMOS" -> "HP" \in machine.board
              [] patch = "RCSP" -> machine.chipset \in Chipsets(Len(IntelChipsets) - 7, Len(IntelChipsets))
              [] patch = "FixHPET" -> laptop /\ machine.cpu.codename \in Intel(50, 77)
              [] patch = "IMEI" -> \/ machine.cpu.codename \in SandyBridge /\ "8086-1E3A" \in machine.heci
                                   \/ machine.cpu.codename \in IvyBridge /\ "8086-1C3A" \in machine.heci
              [] patch = "PMC" -> machine.chipset \in Chipsets(100, 112)
              [] patch = "PM (Legacy)" -> bridge
              [] patch = "PLUG" -> ~bridge
              [] patch = "RMNE" -> \A d \in ToSet(machine.network) : d.bus = "USB"
              [] patch = "RTC0" -> machine.chipset \in Chipsets(62, 64) \cup Chipsets(90, 100)
              [] patch = "RTCAWAC" -> machine.cpu.maker = "AMD" \/ machine.cpu.codename \in Intel(0, 40)
              [] patch = "BUS0" -> machine.cpu.maker = "Intel"
              [] patch = "Surface Patch" -> surface
              [] patch = "GPI0" -> /\ ~surface /\ machine.cpu.maker = "Intel"
                                   /\ \E i \in ToSet(machine.inputs) : "I2C" \in i.types
              [] patch = "UNC" -> machine.chipset \in Chipsets(27, 28) \cup Chipsets(62, 64)
              [] patch = "USB Reset" ->
                   machine.cpu.maker = "AMD" \/ machine.chipset \in Chipsets(112, Len(IntelChipsets))
              [] patch \in {"BATP", "XOSI"} -> laptop
              [] patch = "WMIS" -> \E hid \in ToSet(machine.system) : hid \in YogaHIDs
              [] patch \in {"FakeEC", "USBX"} -> TRUE
              [] patch \in {"MCHC", "PRW"} -> FALSE
    IN  {patch \in AllPatches : Selected(patch)}
=============================================================================
