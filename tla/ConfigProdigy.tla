---------------------------- MODULE ConfigProdigy ----------------------------
(***************************************************************************)
(* ConfigProdigy: what the command-line program writes into config.plist   *)
(* besides the ACPI patches and Kernel -> Add, for a customized report     *)
(* (`machine`), a Mac model, a Darwin version and the checked kexts.       *)
(*                                                                         *)
(* Switches that are on are members of a set; a value is kept where the    *)
(* code chooses between several.                                           *)
(***************************************************************************)
EXTENDS KextLoading

\* The chipset is in the slice [from:to] of Intel's or AMD's list.
IntelBoard(machine, from, to) == machine.chipset \in Slice(IntelChipsets, from, to)
AmdBoard(machine, from, to) == machine.chipset \in Slice(AMDChipsets, from, to)
NewIntelBoard(machine) == IntelBoard(machine, 112, Len(IntelChipsets))

IsAmd(machine) == machine.cpu.maker = "AMD"

MmioWhitelist(chipset) ==
    CASE chipset \in {"Ice Lake", "Ice Lake-LP"} -> {"MMIO 0xFF600000"}
      [] chipset \in {"B650", "X670"} -> {"MMIO 0xFD000000"}
      [] OTHER -> {}

AddBooterPatch(model, version) == IF RunsOn(model, version) THEN {} ELSE {"Skip Board ID check"}

-----------------------------------------------------------------------------
(* The properties of Intel's integrated graphics: a function from keys to  *)
(* values.  A monitor's size is the largest of the sizes the code compares *)
(* with that it reaches.                                                   *)

\* One property; those of g that f has not.
Key(key, value) == [k \in {key} |-> value]
f ++ g == [k \in DOMAIN f \cup DOMAIN g |-> IF k \in DOMAIN f THEN f[k] ELSE g[k]]

Monitors(machine) == ToSet(machine.monitors)
Connected(gpu, machine) == \E m \in Monitors(machine) : m.gpu = gpu.name
ConnectedNotVGA(gpu, machine) == \E m \in Monitors(machine) : m.gpu = gpu.name /\ m.type # "VGA"
UHD(machine) == \E m \in Monitors(machine) : m.size = "3840x2160"
Wide(machine) == \E m \in Monitors(machine) : m.size \in {"1600x900", "3840x2160"}

Family(gpu, version) ==
    CASE gpu.id \in {"0042", "0046"} -> "Ironlake"
      [] gpu.prefix = "01" -> IF gpu.id \in IvyBridgeGPUs THEN "Ivy Bridge" ELSE "Sandy Bridge"
      [] gpu.prefix \in {"04", "0A", "0C", "0D"} -> "Haswell"
      [] gpu.prefix \in {"0B", "16"} -> "Broadwell"
      [] gpu.prefix \in {"09", "19"} /\ version < Darwin(22, 0, 0) -> "Skylake"
      [] gpu.prefix \in {"09", "19"} /\ version >= Darwin(22, 0, 0) -> "Kaby Lake"
      [] gpu.prefix = "59" \/ gpu.id = "87C0" -> "Kaby Lake"
      [] gpu.prefix \in {"3E", "87", "9B"} /\ gpu.id # "87C0" -> "Coffee Lake"
      [] gpu.prefix = "8A" -> "Ice Lake"
      [] OTHER -> "Unknown"

\* The ids macOS knows, and the one that any other id is replaced by.
NativeIDs ==
    [f \in {"Sandy Bridge", "Ivy Bridge", "Haswell", "Broadwell", "Skylake", "Kaby Lake",
            "Coffee Lake", "Ice Lake"} |->
        CASE f = "Sandy Bridge" -> {"0106", "1106", "1601", "0116", "0126", "0102"}
          [] f = "Ivy Bridge" -> {"0152", "0156", "0162", "0166"}
          [] f = "Haswell" -> {"0D26", "0A26", "0A2E", "0D22", "0412"}
          [] f = "Broadwell" -> {"0BD1", "0BD2", "0BD3", "1606", "160E", "161E", "1626", "1622", "1612", "162B"}
          [] f = "Skylake" -> {"1916", "191E", "1926", "1927", "1912", "1932", "1902", "1917", "193B", "191B"}
          [] f = "Kaby Lake" -> {"5912", "5916", "591B", "591C", "591E", "5926", "5927", "5923", "87C0"}
          [] f = "Coffee Lake" -> {"3E9B", "3EA5", "3EA6", "3E92", "3E91", "3E98", "9BC8", "9BC5", "9BC4"}
          [] f = "Ice Lake" -> {"FF05", "8A70", "8A71", "8A51", "8A5C", "8A5D", "8A52", "8A53", "8A5A", "8A5B"}]

FakeID(gpu, family) ==
    CASE family = "Sandy Bridge" -> "26010000"
      [] family = "Ivy Bridge" -> "62010000"
      [] family = "Haswell" -> "12040000"
      [] family = "Broadwell" -> "26160000"
      [] family = "Skylake" -> IF gpu.id \in {"1906", "190B"} THEN "02190000" ELSE "1B190000"
      [] family = "Kaby Lake" -> "16590000"
      [] family = "Coffee Lake" -> "9B3E0000"
      [] family = "Ice Lake" -> "528A0000"

DeviceId(gpu, family) ==
    IF family \notin DOMAIN NativeIDs \/ gpu.id \in NativeIDs[family] THEN <<>>
    ELSE Key("device-id", FakeID(gpu, family))

Platformed(id) == Key("AAPL,ig-platform-id", id)
On(keys) == [k \in keys |-> "01000000"]
StolenMemory == Key("framebuffer-stolenmem", "00003001")
Memory == StolenMemory ++ Key("framebuffer-fbmem", "00009000")
CursorMemory == Key("framebuffer-cursormem", "00009000")

\* The framebuffer of a desktop whose monitors are all on other cards.
Headless(gpu, family, machine) ==
    IF Platform(machine) # "Desktop" THEN <<>>
    ELSE CASE family = "Haswell" /\ ~ConnectedNotVGA(gpu, machine) -> Platformed("04001204")
           [] family = "Skylake" /\ ~Connected(gpu, machine) -> Platformed("01001219")
           [] family = "Kaby Lake" /\ ~Connected(gpu, machine) -> Platformed("03001259")
           [] family = "Coffee Lake" /\ ~Connected(gpu, machine) ->
                Platformed(IF gpu.prefix = "9B" THEN "0300C89B" ELSE "0300913E")
           [] OTHER -> <<>>

\* The others, for each platform.
SandyBridgeProperties(gpu, machine) ==
    LET Snb(id) == Key("AAPL,snb-platform-id", id)
    IN  By(Platform(machine),
           IF ConnectedNotVGA(gpu, machine) THEN Snb("10000300")
           ELSE Snb("00000500") ++ Key("device-id", "02010000"),
           Snb("10000300"),
           Snb("00000100") ++ (IF Wide(machine) THEN On({"AAPL00,DualLink"}) ELSE <<>>))

\* The headless framebuffer of a desktop is overwritten.
IvyBridgeProperties(machine) ==
    By(Platform(machine), Platformed("0A006601"), Platformed("0B006601"),
       IF ~Wide(machine) THEN Platformed("03006601")
       ELSE Platformed("04006601")
            ++ [k \in {"framebuffer-memorycount", "framebuffer-pipecount"} |-> "02000000"]
            ++ Key("framebuffer-portcount", "04000000") ++ Key("framebuffer-stolenmem", "00000004")
            ++ On({"framebuffer-con1-enable", "framebuffer-con1-alldata"}))

KabyLakeLaptop(gpu) ==
    IF gpu.id \in {"5917", "87C0"} THEN Platformed("00001659")
    ELSE Platformed("00001B59")
         ++ On({"framebuffer-con1-enable", "framebuffer-con1-alldata",
                "#framebuffer-con1-enable", "#framebuffer-con1-alldata"})

FamilyProperties(gpu, family, machine, version) ==
    LET By3(desktop, nuc, laptop) == By(Platform(machine), desktop, nuc, laptop)
        Alt(ids, hit, miss) == Platformed(IF gpu.id \in ids THEN hit ELSE miss)
    IN  CASE family = "Ironlake" -> On({"framebuffer-patch-enable", "framebuffer-singlelink"})
          [] family = "Sandy Bridge" -> SandyBridgeProperties(gpu, machine)
          [] family = "Ivy Bridge" -> IvyBridgeProperties(machine)
          [] family = "Haswell" ->
               By3(Platformed("0300220D") ++ Memory, Platformed("0300220D") ++ CursorMemory,
                   Alt({"0A22", "0A26", "0A2A", "0A2B", "0A2E", "0D22", "0D26", "0D2A", "0D2B", "0D2E"}, "0500260A", "0600260A") ++ CursorMemory)
          [] family = "Broadwell" ->
               By3(Platformed("07002216"), Platformed("02001616"), Platformed("06002616")) ++ Memory
          [] family = "Skylake" ->
               By3(Platformed("00001219"),
                   IF gpu.id \in {"1926", "1927"} THEN Platformed("02002619")
                   ELSE Alt({"1932", "193B", "193A", "193D"}, "05003B19", "02001619"),
                   Alt({"1902", "1906", "190B"}, "00001B19", "00001619")) ++ Memory
          [] family = "Kaby Lake" ->
               By3(Platformed("00001259"),
                   IF gpu.id \in {"5926", "5927"} THEN Platformed("02002659")
                   ELSE Alt({"5912", "591B", "591A", "591D"}, "00001B59", "00001E59"),
                   KabyLakeLaptop(gpu)) ++ Memory
          [] family = "Coffee Lake" ->
               By3(Platformed(IF version < Darwin(19, 5, 0) THEN "07009B3E" ELSE "00009B3E") ++ StolenMemory,
                   Alt({"3EA5", "3EA8"}, "0000A53E", "07009B3E"),
                   Alt({"3EA9", "3EA0"}, "00009B3E", "0900A53E") ++ Memory)
          [] family = "Ice Lake" ->
               Platformed("0200518A") ++ Memory
               ++ On({"enable-dbuf-early-optimizer", "enable-dvmt-calc-fix", "enable-cdclk-frequency-fix"})
          [] OTHER -> <<>>

Without(properties, keys) == [k \in DOMAIN properties \ keys |-> properties[k]]

\* igpu_properties: a headless framebuffer is returned as it is; on the others a UHD
\* monitor drops the memory settings, and anything but the ids enables the patch.
IgpuProperties(gpu, machine, version) ==
    LET family == Family(gpu, version)
        headless == Headless(gpu, family, machine)
        given == FamilyProperties(gpu, family, machine, version) ++ DeviceId(gpu, family)
        sized == IF ~UHD(machine) THEN given
                 ELSE Without(given, {"framebuffer-stolenmem", "framebuffer-fbmem"})
                      ++ (IF Platform(machine) = "Laptop" THEN On({"enable-max-pixel-clock-override"}) ELSE <<>>)
    IN  IF headless # <<>> THEN headless ++ DeviceId(gpu, family)
        ELSE sized ++ (IF DOMAIN sized \subseteq {"AAPL,ig-platform-id", "device-id"} THEN <<>>
                       ELSE On({"framebuffer-patch-enable"}))

-----------------------------------------------------------------------------
(* DeviceProperties -> Add: triples of a device, a key and a value.  A     *)
(* device on PCI is one with a PCI path.                                   *)

Triples(device, properties) == {<<device, k, properties[k]>> : k \in DOMAIN properties}

\* The first sound device with a known codec decides.
LayoutDevice(machine) ==
    LET with == {i \in 1 .. Len(machine.sound) : machine.sound[i].id \in CodecIDs}
    IN  machine.sound[CHOOSE i \in with : \A j \in with : i <= j]

\* Variant: the layout is asked for whatever has been written.
AsksLayoutAgain(machine, properties, controllerRequired) ==
    /\ UsesCodec(machine)
    /\ controllerRequired => LayoutDevice(machine).controller # "none"

\* select_audio_codec_layout: whether a layout is asked for, given the device
\* properties written so far.
AsksLayout(machine, properties, controllerRequired) ==
    /\ ~\E p \in properties : p[2] = "layout-id"
    /\ UsesCodec(machine)
    /\ controllerRequired => LayoutDevice(machine).controller # "none"

GraphicsProperties(gpu, machine, version) ==
    CASE gpu.integrated /\ gpu.maker = "Intel" ->
           Triples(gpu.name, IgpuProperties(gpu, machine, version))
           \cup (CASE gpu.codename = "Sandy Bridge" /\ "8086-1E3A" \in machine.heci ->
                        {<<"IMEI", "device-id", "3A1C0000">>}
                   [] gpu.codename = "Ivy Bridge" /\ "8086-1C3A" \in machine.heci ->
                        {<<"IMEI", "device-id", "3A1E0000">>}
                   [] OTHER -> {})
      [] ~gpu.integrated /\ gpu.id \in SpoofGPUIDs /\ gpu.bus = "PCI" ->
           {<<gpu.name, "device-id", "spoofed">>, <<gpu.name, "model", gpu.name>>}
      [] OTHER -> {}

NetworkProperties(device, version, checked) ==
    LET Is(name, id) == {<<device.name, "IOName", name>>, <<device.name, "device-id", id>>}
        downgraded == {"AirportItlwm", "IOSkywalkFamily", "IO80211FamilyLegacy"} \subseteq checked
    IN  CASE device.id \in {<<"AtherosWiFi", 6>>, <<"AtherosWiFi", 7>>} -> Is("pci168c,2a", "2A000000")
          [] device.id \in Before(BroadcomWiFiIDs, 18) -> {<<device.name, "IOName", "pci14e4,43a0">>}
          [] device.id \in Before(BroadcomBCM57XXIDs, 29) -> Is("pci14e4,16b4", "B4160000")
          [] device.id \in Before(AquantiaAqtionIDs, 2) -> {<<device.name, "IOName", "1D6A-91B1">>}
          [] device.id \in IntelWiFiIDs /\ downgraded /\ version >= Darwin(23, 0, 0) ->
               {<<device.name, "IOName", "pci14e4,43a0">>}
          [] OTHER -> {}

BuiltIn(device) == IF device.acpi THEN {} ELSE {<<device.name, "built-in", "01">>}

\* deviceproperties.  Audio's key is written at the controller's path only, and a
\* graphics card that an SSDT has been written for is not disabled a second time.
DeviceProperties(machine, disabled, flagged, version, checked) ==
    LET Over(Of(_), devices) == UNION {Of(d) : d \in {x \in devices : x.bus = "PCI"}}
        graphics == IF "WhateverGreen" \notin checked THEN {}
                    ELSE UNION {GraphicsProperties(g, machine, version) : g \in ToSet(machine.gpus)}
        audio == IF /\ "AppleALC" \in checked /\ AsksLayout(machine, {}, TRUE)
                    /\ LayoutDevice(machine).controller = "with path"
                 THEN {<<"Audio controller", "layout-id", "chosen">>} ELSE {}
    IN  graphics \cup audio
        \cup Over(LAMBDA d : NetworkProperties(d, version, checked) \cup BuiltIn(d), ToSet(machine.network))
        \cup Over(BuiltIn, ToSet(machine.storage))
        \cup {<<d.name, "disable-gpu", "TRUE">> :
                 d \in {x \in disabled : x.kind = "GPU" /\ x.bus = "PCI" /\ x.name \notin flagged}}

-----------------------------------------------------------------------------
(* The kernel section.                                                     *)

BlockKextBundle(checked) ==
    IF "IOSkywalkFamily" \in checked THEN {"com.apple.iokit.IOSkywalkFamily"} ELSE {}

SpoofCpuid(cpu, version) ==
    CASE cpu.lowEnd /\ cpu.codename \in Intel(0, 39) -> "Ivy Bridge"
      [] ~(cpu.lowEnd /\ cpu.codename \in Intel(0, 39)) ->
    CASE cpu.codename \in {"Haswell-E", "Haswell-EP", "Haswell-EX"} -> "Haswell"
      [] cpu.codename = "Broadwell-E" -> "Broadwell"
      [] cpu.codename \in Intel(23, 28) -> "Ice Lake"
      [] cpu.codename \in Intel(0, 34) \ (Intel(23, 28) \cup IceLake \cup CometLake) -> "Comet Lake"
      [] cpu.codename \in CometLake /\ version < Darwin(19, 0, 0) -> "Coffee Lake"
      [] OTHER -> "none"

\* Of the AMD patches, those that depend on the board and the first graphics card.
AmdTweaks(machine) ==
    (IF \/ AmdBoard(machine, 17, Len(AMDChipsets))
        \/ machine.cpu.codename \in {"Raphael", "Storm Peak", "Phoenix", "Granite Ridge"}
     THEN {"IOPCIIsHotplugPort"} ELSE {})
    \cup (CASE machine.chipset \in {"TRX40", "TRX50"} -> {}
            [] machine.chipset \notin {"TRX40", "TRX50"} /\ Head(machine.gpus).maker = "AMD" ->
                 {"_mtrr_update_action (shaneee)"}
            [] OTHER -> {"_mtrr_update_action (algrey)"})

ProvidesCpuInfo(machine) == IsAmd(machine) \/ machine.cpu.codename \in Intel(4, 20)

\* load_kernel_patch: at most one of three kexts brings its patch.
LoadKernelPatch(machine, checked) ==
    LET topology == ProvidesCpuInfo(machine) /\ "CpuTopologyRebuild" \in checked
    IN  (IF IsAmd(machine) THEN {"AMD Vanilla"} \cup AmdTweaks(machine) ELSE {})
        \cup (IF \E d \in ToSet(machine.network) : d.id \in AquantiaAqtionIDs
              THEN {"Aquantia"} ELSE {})
        \cup (CASE topology -> {"Hyper Threading"}
                [] ~topology /\ "ForgedInvariant" \in checked ->
                     IF IsAmd(machine) THEN {} ELSE {"AMD Vanilla TSC"}
                [] ~topology /\ "ForgedInvariant" \notin checked
                             /\ "CatalinaBCM5701Ethernet" \in checked -> {"Broadcom BCM577XX"}
                [] OTHER -> {})

-----------------------------------------------------------------------------
(* boot-args.                                                              *)

OutOfRange(kext, version) == "Lilu" \in ToSet(KextInfo[kext].requires) /\ ~KextSupports(kext, version)

ResizableBAR(machine) == \E g \in ToSet(machine.gpus) : g.bar

IntegratedArgs(gpu, machine, version) ==
    LET bl == IF version >= Darwin(22, 5, 0) THEN "-igfxblt" ELSE "-igfxblr"
        CoffeeLike == gpu.prefix \in {"3E", "87", "9B"}
    IN  (IF gpu.name \in machine.patched THEN {"ipc_control_port_options=0"} ELSE {})
        \cup (IF gpu.codename = "Ice Lake" THEN {"-noDC9", "-igfxblr"} ELSE {})
        \cup (IF /\ machine.platform = "Desktop" /\ Connected(gpu, machine)
                 /\ CoffeeLike /\ version >= Darwin(19, 4, 0) THEN {"igfxonln=1"} ELSE {})
        \cup (IF /\ machine.platform = "Desktop"
                 /\ \E m \in Monitors(machine) : m.gpu = gpu.name /\ m.type \in {"DVI", "HDMI"}
              THEN {"-igfxvesa"} ELSE {})
        \cup (IF /\ machine.platform = "Laptop" /\ gpu.id # "5917"
                 /\ CoffeeLike \/ gpu.prefix \in {"59", "8C"} THEN {bl} ELSE {})

DiscreteArgs(gpu, machine, version) ==
    (IF gpu.codename \in Navi1 \cup Navi2 THEN {"agdpmod=pikera"} ELSE {})
    \cup (IF gpu.id \in SpoofGPUIDs THEN {"-radcodec"} ELSE {})
    \cup (IF gpu.id \in {"6610", "682B", "6837", "683D", "683F"} THEN {"radpg=15"} ELSE {})
    \cup (IF gpu.id \in {"67B0", "67B1", "67B8", "6810", "6811"} THEN {"-raddvi"} ELSE {})
    \cup (CASE gpu.name \in machine.patched /\ gpu.maker = "AMD" ->
                 {IF version < Darwin(23, 0, 0) THEN "-radvesa" ELSE "-amd_no_dgpu_accel"}
            [] gpu.name \in machine.patched /\ gpu.maker = "NVIDIA" /\ gpu.codename # "Kepler" ->
                 {"nvda_drv_vrl=1", "ngfxcompat=1", "ngfxgl=1"}
            [] OTHER -> {})

\* The last card is looked at for the integrated one and the first for the discrete one.
GraphicsArgs(machine, version) ==
    LET last == Last(machine.gpus)
        first == Head(machine.gpus)
    IN  (IF UHD(machine) /\ version < Darwin(20, 0, 0) THEN {"-cdfon"} ELSE {})
        \cup (IF machine.cpu.maker = "Intel" /\ last.integrated
              THEN IntegratedArgs(last, machine, version) ELSE {})
        \cup (IF first.integrated THEN {} ELSE DiscreteArgs(first, machine, version))

BootArgs(machine, version, oclp, checked, properties) ==
    LET If(condition, arg) == IF condition THEN {arg} ELSE {}
    IN  {"-v", "debug=0x100", "keepsyms=1"}
        \cup If(oclp /\ version >= Darwin(25, 0, 0), "-amfipassbeta")
        \cup If(~ResizableBAR(machine) /\ HedtCPU(machine.cpu), "npci=0x2000")
        \cup If(\E kext \in checked : OutOfRange(kext, version), "-lilubetaall")
        \cup (IF "WhateverGreen" \in checked THEN GraphicsArgs(machine, version) ELSE {})
        \cup If("AppleALC" \in checked /\ AsksLayout(machine, properties, FALSE), "alcid")
        \cup If("VoodooI2C" \in checked, "-vi2c-force-polling")
        \cup If("CpuTopologyRebuild" \in checked, "ctrsmt=full")

-----------------------------------------------------------------------------
(* Quirks, drivers, NVRAM and security.                                    *)

WriteUnprotected(machine) ==
    machine.uefi /\ ~IsAmd(machine) /\ ~IntelBoard(machine, 91, 100) /\ ~NewIntelBoard(machine)

BooterQuirks(machine, version) ==
    LET legacy == ~machine.uefi
        desktop == machine.platform = "Desktop"
        mobile8 == "-8" \in machine.cpu.name
        Is(quirk) ==
          CASE quirk = "AvoidRuntimeDefrag" -> ~(legacy /\ version # Darwin(20, 0, 0))
            [] quirk = "DevirtualiseMmio" ->
                 \/ MmioWhitelist(machine.chipset) # {}
                 \/ NewIntelBoard(machine) \/ IntelBoard(machine, 90, 100)
                 \/ IntelBoard(machine, 104, 112) /\ (desktop \/ ~mobile8)
                 \/ AmdBoard(machine, 16, 17)
            [] quirk \in {"EnableSafeModeSlide", "ProvideCustomSlide"} -> ~legacy
            [] quirk = "EnableWriteUnprotector" -> WriteUnprotected(machine)
            [] quirk = "ProtectMemoryRegions" ->
                 "GOOGLE" \in machine.board \/ ToSet(machine.system) \cap ChromebookIDs # {}
            [] quirk = "FixupAppleEfiImages" -> ~(legacy /\ LowestDarwin < version)
            [] quirk = "ProtectUefiServices" ->
                 \/ NewIntelBoard(machine)
                 \/ IntelBoard(machine, 104, 112) /\ (~mobile8 \/ IntelBoard(machine, 109, 110))
            [] quirk = "RebuildAppleMemoryMap" ->
                 ~WriteUnprotected(machine) /\ machine.cpu.codename \notin Intel(66, 77)
            [] quirk = "SetupVirtualMap" ->
                 ~legacy /\ ~(AmdBoard(machine, 11, 17) \/ IntelBoard(machine, 90, 100))
            [] quirk = "SyncRuntimePermissions" ->
                 \/ IsAmd(machine) \/ IntelBoard(machine, 90, 100)
                 \/ IntelBoard(machine, 104, Len(IntelChipsets))
    IN  {quirk \in {"AvoidRuntimeDefrag", "DevirtualiseMmio", "EnableSafeModeSlide",
                    "ProvideCustomSlide", "EnableWriteUnprotector", "ProtectMemoryRegions",
                    "FixupAppleEfiImages", "ProtectUefiServices", "RebuildAppleMemoryMap",
                    "SetupVirtualMap", "SyncRuntimePermissions"} : Is(quirk)}

KernelQuirks(machine) ==
    LET cpu == machine.cpu
        legacyPm == cpu.codename \in Intel(62, 77)
        Is(quirk) ==
          CASE quirk = "DummyPowerManagement" -> IsAmd(machine) \/ cpu.lowEnd
            [] quirk = "AppleCpuPmCfgLock" -> legacyPm
            [] quirk = "AppleXcpmCfgLock" -> ~IsAmd(machine) /\ ~legacyPm
            [] quirk = "AppleXcpmExtraMsrs" -> HedtCPU(cpu) /\ cpu.codename \in Intel(50, 77)
            [] quirk = "AppleXcpmForceBoost" -> cpu.codename \in Intel(0, 4)
            [] quirk = "DisableIoMapper" -> ~IsAmd(machine)
            [] quirk = "DisableRtcChecksum" -> {"ASUS", "HP"} \cap machine.board # {}
            [] quirk = "ForceAquantiaEthernet" ->
                 \E d \in ToSet(machine.network) : d.id \in AquantiaAqtionIDs
            [] quirk = "LapicKernelPanic" -> "HP" \in machine.board
            [] quirk = "ProvideCurrentCpuInfo" -> ProvidesCpuInfo(machine)
    IN  {quirk \in {"DummyPowerManagement", "AppleCpuPmCfgLock", "AppleXcpmCfgLock",
                    "AppleXcpmExtraMsrs", "AppleXcpmForceBoost", "DisableIoMapper",
                    "DisableRtcChecksum", "ForceAquantiaEthernet", "LapicKernelPanic",
                    "ProvideCurrentCpuInfo"} : Is(quirk)}

UefiQuirks(machine) ==
    LET Is(quirk) ==
          CASE quirk = "ForceOcWriteFlash" -> ToSet(machine.system) \cap ThinkPadTWX30IDs # {}
            [] quirk = "EnableVectorAcceleration" -> machine.cpu.codename \notin Intel(0, 20)
            [] quirk = "IgnoreInvalidFlexRatio" -> machine.cpu.codename \in Intel(50, 77)
            [] quirk = "UnblockFsConnect" -> "HP" \in machine.board
    IN  {quirk \in {"ForceOcWriteFlash", "EnableVectorAcceleration", "IgnoreInvalidFlexRatio",
                    "UnblockFsConnect"} : Is(quirk)}

LoadDrivers(machine, version) ==
    {IF machine.cpu.codename \in Intel(64, 77) THEN "HfsPlusLegacy.efi" ELSE "HfsPlus.efi",
     "OpenRuntime.efi", "ResetNvramEntry.efi",
     IF machine.uefi THEN "OpenCanopy.efi" ELSE "OpenUsbKbDxe.efi"}
    \cup (IF version >= Darwin(25, 0, 0) THEN {"apfs_aligned.efi"} ELSE {})

CsrActiveConfig(version) ==
    CASE version >= Darwin(20, 0, 0) -> "030A0000"
      [] version < Darwin(20, 0, 0) /\ version >= Darwin(18, 0, 0) -> "FF070000"
      [] OTHER -> "FF030000"

SecureBoots(version, oclp) == ~oclp /\ Darwin(20, 0, 0) <= version /\ version < Darwin(23, 0, 0)

\* What RestrictEvents patches and blocks; the integrated card is the last one.
Revpatch(machine, model, version) ==
    LET igpu == Last(machine.gpus)
        old == /\ machine.cpu.maker = "Intel" /\ igpu.integrated
               /\ igpu.name \in machine.patched /\ version >= Darwin(20, 4, 0)
        If(condition, patch) == IF condition THEN {patch} ELSE {}
    IN  If(\/ version > Darwin(23, 0, 0)
           \/ ~RunsOn(model, version) /\ version > Darwin(20, 4, 0), "sbvmm")
        \cup If(/\ ~(" Core" \in machine.cpu.name /\ machine.cpu.codename \in Intel(28, 77))
                /\ version > Darwin(23, 0, 0), "cpuname")
        \cup If(old /\ igpu.codename \in {"Kaby Lake", "Skylake", "Broadwell", "Haswell"}, "asset")
        \cup If(old /\ igpu.codename \in {"Ivy Bridge", "Sandy Bridge"}, "f16c")
        \cup If(old /\ igpu.codename \in {"Broadwell", "Haswell", "Ivy Bridge", "Sandy Bridge"}, "block media")

\* genarate raises without a graphics card, and when Intel's gets no property at all.
GenerateRaises(machine, version, checked) ==
    \/ machine.gpus = <<>>
    \/ /\ "WhateverGreen" \in checked
       /\ \E g \in ToSet(machine.gpus) :
             g.integrated /\ g.maker = "Intel" /\ IgpuProperties(g, machine, version) = <<>>

\* genarate.
Generate(machine, disabled, flagged, model, version, oclp, checked) ==
    LET properties == DeviceProperties(machine, disabled, flagged, version, checked)
    IN  [booterPatch |-> AddBooterPatch(model, version),
         quirks |-> BooterQuirks(machine, version) \cup KernelQuirks(machine) \cup UefiQuirks(machine),
         properties |-> properties,
         block |-> BlockKextBundle(checked),
         cpuid |-> SpoofCpuid(machine.cpu, version),
         kernelPatch |-> LoadKernelPatch(machine, checked),
         secureBoot |-> SecureBoots(version, oclp),
         bootArgs |-> BootArgs(machine, version, oclp, checked, properties),
         csr |-> CsrActiveConfig(version),
         model |-> model,
         drivers |-> LoadDrivers(machine, version),
         bluetooth |-> "BlueToolFixup" \in checked,
         revpatch |-> IF "RestrictEvents" \in checked THEN Revpatch(machine, model, version) ELSE {}]
=============================================================================
