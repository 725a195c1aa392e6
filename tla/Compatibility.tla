---------------------------- MODULE Compatibility ----------------------------
(***************************************************************************)
(* CompatibilityChecker: which macOS versions each device of a hardware    *)
(* report supports, natively and with OpenCore Legacy Patcher, and which   *)
(* versions the whole machine does.                                        *)
(*                                                                         *)
(* A range is <<newest, oldest>>, as the code has it.                      *)
(***************************************************************************)
EXTENDS Datasets, Folding, TLC

\* The keys "Compatibility" and "OCLP Compatibility" when they are absent, and the
\* value (None, None) of the former.
Absent == <<>>
Unsupported == <<NoVersion, NoVersion>>

AnyVersion == <<LatestDarwin, LowestDarwin>>
UpTo(major) == <<Darwin(major, 99, 99), LowestDarwin>>
Since(version) == <<LatestDarwin, version>>

Newer(v, w) == IF v > w THEN v ELSE w
Older(v, w) == IF v < w THEN v ELSE w

InRange(version, range) == range[2] <= version /\ version <= range[1]

-----------------------------------------------------------------------------
(* The processor and the graphics cards.                                   *)

CpuRange(cpu) ==
    CASE "SSE4" \notin cpu.simd -> Unsupported
      [] "SSE4" \in cpu.simd /\ "SSE4.2" \in cpu.simd -> AnyVersion
      [] OTHER -> <<IF "SSE4.1" \in cpu.simd THEN Darwin(21, 99, 99) ELSE LatestDarwin,
                    Darwin(18, 0, 0)>>

\* The ids 01x5 and 01x6 of Ivy Bridge; the other ids 01xx are Sandy Bridge.
IvyBridgeGPUs == {"0152", "0156", "015A", "0162", "0166", "016A"}

\* Graphics of Skylake to Comet Lake that are not GT2 or better.
UnsupportedUHDs ==
    {"3E90", "3E93", "3E99", "3E9C", "3EA1", "3EA4", "9B21", "9BA0", "9BA2", "9BA4", "9BA5",
     "9BA8", "9BAA", "9BAB", "9BAC"}

IntelGpuRange(gpu, report) ==
    CASE \/ report.cpu.lowEnd
         \/ gpu.id \in {"0152", "0156"} \/ gpu.id \in UnsupportedUHDs -> Unsupported
      [] OTHER ->
    CASE gpu.id \in {"0042", "0046"} /\ report.platform # "Desktop" -> UpTo(17)
      [] gpu.prefix = "01" /\ gpu.id \notin IvyBridgeGPUs \cup {"0102", "0106", "010A"} -> UpTo(17)
      [] gpu.prefix = "01" /\ gpu.id \in IvyBridgeGPUs \cup {"0102", "0106", "010A"} -> UpTo(20)
      [] gpu.prefix \in {"04", "0A", "0C", "0D", "0B", "16"} -> UpTo(21)
      [] gpu.prefix \in {"09", "19", "59", "3E", "87", "9B"} -> AnyVersion
      [] gpu.prefix = "8A" -> Since(Darwin(19, 4, 0))
      [] OTHER -> Unsupported

Navi2 == {"Navi 21", "Navi 22", "Navi 23", "Navi 24"}
Navi1 == {"Navi 10", "Navi 12", "Navi 14"}
LexaIDs == {"6995", "699F"}
ApuIDs == {"15D8", "15DD", "15E7", "1636", "1638", "164C"}

\* The cards whose drivers need AVX2 from Ventura on, and their first versions.
AmdFirst(gpu) ==
    CASE gpu.codename \in Navi1 -> Darwin(19, 0, 0)
      [] gpu.codename = "Vega 20" -> Darwin(18, 6, 0)
      [] \/ gpu.codename \in {"Vega 10", "Polaris 22", "Polaris 20", "Baffin", "Ellesmere"}
         \/ gpu.id \in LexaIDs -> Darwin(17, 0, 0)
      [] OTHER -> NoVersion

AmdGpuRange(gpu, avx2) ==
    CASE gpu.codename \in Navi2 ->
           CASE ~avx2 -> UpTo(21)
             [] avx2 /\ gpu.codename \in {"Navi 22", "Navi 23"} -> Since(Darwin(21, 2, 0))
             [] avx2 /\ gpu.codename = "Navi 21" -> Since(Darwin(20, 5, 0))
             [] OTHER -> Unsupported
      [] AmdFirst(gpu) # NoVersion ->
           <<IF avx2 THEN LatestDarwin ELSE Darwin(21, 99, 99), AmdFirst(gpu)>>
      [] gpu.codename \in AMDCodenames -> UpTo(21)
      [] gpu.id \in ApuIDs -> Since(Darwin(19, 0, 0))
      [] OTHER -> Unsupported

NvidiaGpuRange(gpu) ==
    CASE gpu.codename = "Kepler" -> UpTo(20)
      [] gpu.codename \in {"Pascal", "Maxwell", "Fermi", "Tesla"} -> UpTo(17)
      [] OTHER -> Unsupported

\* The Intel graphics up to Haswell have no VGA output in macOS.
OnlyVGA(gpu, report) ==
    /\ gpu.maker = "Intel" /\ gpu.prefix \in {"01", "04", "0A", "0C", "0D"}
    /\ \A m \in ToSet(report.monitors) : m.type = "VGA" /\ m.gpu \in {gpu.name, "unknown"}

GpuRange(gpu, report) ==
    CASE OnlyVGA(gpu, report) -> Unsupported
      [] gpu.maker = "Intel" /\ ~OnlyVGA(gpu, report) -> IntelGpuRange(gpu, report)
      [] gpu.maker = "AMD" -> AmdGpuRange(gpu, "AVX2" \in report.cpu.simd)
      [] gpu.maker = "NVIDIA" -> NvidiaGpuRange(gpu)
      [] OTHER -> AnyVersion

\* The versions OCLP has drivers for, without what macOS itself supports.
GpuPatchedRange(gpu, report) ==
    LET avx2 == "AVX2" \in report.cpu.simd
        range == GpuRange(gpu, report)
        max == IF gpu.codename \in Navi2 /\ ~avx2 THEN Darwin(21, 99, 99) ELSE Darwin(24, 99, 99)
        min == IF gpu.maker = "AMD" /\ AmdFirst(gpu) # NoVersion /\ ~avx2
               THEN Darwin(22, 0, 0) ELSE Darwin(20, 0, 0)
    IN  IF range # Unsupported /\ range[1] < max
        THEN <<max, Newer(min, Darwin(Major(range[1]) + 1, 0, 0))>>
        ELSE Absent

\* The ranges of versions, and what a device may have of OCLP.
Ranges == Nat \X Nat
PatchedRanges == Ranges \cup {Absent}

\* ocl_patched_macos_version: the newest is that of the device met last.
Widen(patched, range) ==
    <<range[1], IF patched # Absent /\ patched[2] < range[2] THEN patched[2] ELSE range[2]>>

\* The second pass over the graphics cards: of a laptop's several cards, one that the
\* built-in screen is not connected to is unset.  parse_darwin_version(None) raises
\* when such a card follows a supported one.
GpuPass(report) ==
    LET Others(compat, gpu) == \A g \in ToSet(report.gpus) \ {gpu} : compat[g.name] = Unsupported
        Muxed(gpu) == \E m \in ToSet(report.monitors) :
                          m.type = "Internal" /\ m.gpu \notin {gpu.name, "unknown"}
        Patched(acc, gpu) ==
            IF acc.oclp[gpu.name] = Absent THEN acc
            ELSE [acc EXCEPT !.patched = Widen(@, acc.oclp[gpu.name])]
        Step(acc, gpu) ==
            LET unset == Muxed(gpu) /\ ~Others(acc.compat, gpu)
                range == IF unset THEN Unsupported ELSE acc.compat[gpu.name]
                next == [acc EXCEPT !.compat[gpu.name] = range,
                                    !.oclp[gpu.name] = IF unset THEN Absent ELSE @]
            IN  CASE acc.compat[gpu.name] = Unsupported -> Patched(acc, gpu)
                  [] acc.compat[gpu.name] # Unsupported /\ acc.max = NoVersion ->
                       Patched([next EXCEPT !.max = range[1], !.min = range[2]], gpu)
                  [] OTHER ->
                       Patched([next EXCEPT !.raised = @ \/ unset,
                                            !.max = Newer(@, range[1]),
                                            !.min = Older(@, range[2])], gpu)
        names == {g.name : g \in ToSet(report.gpus)}
        card(n) == CHOOSE g \in ToSet(report.gpus) : g.name = n
        Passes == [compat : [names -> Ranges], oclp : [names -> PatchedRanges],
                   max : Nat, min : Nat, patched : PatchedRanges, raised : BOOLEAN]
    IN  Folded([acc \in Passes |-> [gpu \in ToSet(report.gpus) |-> Step(acc, gpu)]],
               [compat |-> [n \in names |-> GpuRange(card(n), report)],
                oclp |-> [n \in names |-> GpuPatchedRange(card(n), report)],
                max |-> NoVersion, min |-> NoVersion, patched |-> Absent, raised |-> FALSE],
               report.gpus)

-----------------------------------------------------------------------------
(* The other devices.                                                      *)

\* Codecs of AMD and Intel graphics; those of IntelSSTIDs count as neither.
SoundRange(device) ==
    IF \/ device.bus = "USB" \/ device.id[1] = "1002"
       \/ device.id[1] = "8086" \/ device.id \in CodecIDs
    THEN AnyVersion ELSE Unsupported

\* Broadcom cards at the positions 13 and 18 to 20 lost their driver in Sonoma.
LegacyBroadcom == {"BroadcomWiFi"} \X ({13} \cup (18 .. 20))

NetworkDriverRange(id) ==
    CASE id \in LegacyBroadcom -> UpTo(22)
      [] id \in Before(BroadcomWiFiIDs, 12) \cup Before(AtherosWiFiIDs, 8) -> UpTo(17)
      [] id \in From(AtherosWiFiIDs, 8) -> UpTo(20)
      [] id \in IntelI22XIDs -> Since(Darwin(19, 0, 0))
      [] id \in AquantiaAqtionIDs -> Since(Darwin(21, 0, 0))
      [] OTHER -> AnyVersion

NetworkRange(device) ==
    CASE device.id \in WirelessCardIDs \cup EthernetIDs \cup WirelessUSBIDs ->
           NetworkDriverRange(device.id)
      [] device.id \notin WirelessCardIDs \cup EthernetIDs \cup WirelessUSBIDs ->
           IF device.bus = "PCI" THEN Unsupported ELSE Absent

NetworkPatchedRange(device) ==
    IF device.id \in WirelessCardIDs \ (IntelWiFiIDs \cup From(AtherosWiFiIDs, 8))
    THEN <<LatestDarwin, IF device.id \in LegacyBroadcom THEN Darwin(23, 0, 0) ELSE Darwin(20, 0, 0)>>
    ELSE Absent

StorageRange(device) ==
    CASE device.bus # "PCI" -> Absent
      [] device.bus = "PCI" /\ device.id \in UnsupportedNVMeSSDIDs -> Unsupported
      [] OTHER -> AnyVersion

BluetoothRange(device) ==
    CASE device.id \in AtherosBluetoothIDs -> UpTo(20)
      [] device.id \in BluetoothIDs \ AtherosBluetoothIDs -> AnyVersion
      [] OTHER -> Unsupported

CardReaderRange(device) ==
    CASE device.id \in Before(RealtekCardReaderIDs, 5) -> UpTo(23)
      [] device.id \in From(RealtekCardReaderIDs, 5) -> AnyVersion
      [] OTHER -> Unsupported

-----------------------------------------------------------------------------
\* The devices a report has a compatibility for, in the order of the steps.
Sections(report) ==
    report.sound \o report.biometric \o report.network \o report.storage \o
    report.bluetooth \o report.sd

DeviceRange(device) ==
    CASE device.kind = "Sound" -> SoundRange(device)
      [] device.kind = "Biometric" -> Unsupported
      [] device.kind = "Network" -> NetworkRange(device)
      [] device.kind = "Storage" -> StorageRange(device)
      [] device.kind = "Bluetooth" -> BluetoothRange(device)
      [] device.kind = "SD" -> CardReaderRange(device)

DevicePatchedRange(device) ==
    IF device.kind = "Network" THEN NetworkPatchedRange(device) ELSE Absent

\* The names of all the devices of a report.
Devices(report) == {d.name : d \in ToSet(report.gpus \o Sections(report))}

\* check_compatibility after the graphics cards.  "exit": the program ends, "raise": an
\* exception.  A step runs only for a section that is there: a report without graphics
\* cards keeps the processor's versions.
CheckDevices(report, gpus) ==
    LET cards == {g.name : g \in ToSet(report.gpus)}
        device(n) == CHOOSE d \in ToSet(Sections(report)) : d.name = n
        compat == [n \in Devices(report) |->
                     IF n \in cards THEN gpus.compat[n] ELSE DeviceRange(device(n))]
        oclp == [n \in Devices(report) |->
                   IF n \in cards THEN gpus.oclp[n] ELSE DevicePatchedRange(device(n))]
        cpu == CpuRange(report.cpu)
        Patched == [acc \in PatchedRanges |-> [d \in ToSet(report.network) |->
                      IF oclp[d.name] = Absent THEN acc ELSE Widen(acc, oclp[d.name])]]
        patched == Folded(Patched, gpus.patched, report.network)
        storage == ToSet(report.storage)
    IN  [verdict |-> CASE cpu = Unsupported -> "exit"
                       [] cpu # Unsupported /\ gpus.raised -> "raise"
                       [] \/ report.gpus # <<>> /\ gpus.max = NoVersion /\ ~gpus.raised
                          \/ \E d \in storage : d.bus = "PCI" /\ d.id \in IntelVMDIDs
                          \/ storage # {} /\ \A d \in storage : compat[d.name] = Unsupported -> "exit"
                       [] OTHER -> "checked",
         compat |-> compat,
         oclp |-> oclp,
         native |-> IF report.gpus = <<>> THEN cpu
                    ELSE <<Older(gpus.max, cpu[1]), Newer(gpus.min, cpu[2])>>,
         patched |-> patched]

CheckCompatibility(report) == CheckDevices(report, GpuPass(report))
=============================================================================
