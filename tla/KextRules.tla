------------------------------ MODULE KextRules ------------------------------
(***************************************************************************)
(* KextMaestro.select_required_kexts on the real dataset: the kexts each   *)
(* part of the hardware brings, in the order the code names them, and the  *)
(* kexts that end up checked.  KextSelection has the single calls of       *)
(* check_kext and their interleaving with the user; here one call is one   *)
(* recursive function.                                                     *)
(*                                                                         *)
(* `machine` is a customized report: its devices are the kept ones.        *)
(* `answer` holds what the user answers: audio, navi and wifi are kexts    *)
(* ("none" when no kext is wanted) and rootPatch is the answer about       *)
(* iServices.                                                              *)
(***************************************************************************)
EXTENDS KextData, Smbios

\* check_kext: the kexts checked after it.  The kext with the index 0 is never checked
\* as a requirement.  The calls go no deeper than there are kexts, of which none is
\* checked while a call for it runs.
Checking(version, allow) ==
    LET check[depth \in 0 .. Len(KextList)] ==
            [k \in AllKexts |-> [before \in SUBSET AllKexts |->
                LET Needed == [all \in SUBSET AllKexts |-> [needed \in ToSet(KextInfo[k].requires) |->
                                  IF needed = FirstKext THEN all ELSE check[depth - 1][needed][all]]]
                IN  IF depth = 0 \/ k \in before \/ ~(allow \/ KextSupports(k, version)) THEN before
                    ELSE Folded(Needed, before \cup {k}, KextInfo[k].requires) \ KextRivals(k)]]
    IN  check

CheckKext(kext, checked, version, allow) == Checking(version, allow)[Len(KextList)][kext][checked]

CheckKexts(names, checked, version, allow) ==
    Folded([all \in SUBSET AllKexts |-> [kext \in ToSet(names) |-> CheckKext(kext, all, version, allow)]],
           checked, names)

-----------------------------------------------------------------------------
When(condition, names) == IF condition THEN names ELSE <<>>

\* The kexts a rule names for each of some devices.
Each(Rule(_), devices) == Joined([i \in 1 .. Len(devices) |-> Rule(devices[i])])

OnLaptop(machine) == machine.platform = "Laptop"

BoardKexts(machine) ==
    <<"UTBDefault">>
    \o When(machine.cpu.maker = "Intel", <<"SMCProcessor", "SMCSuperIO">>)
    \o When(OnLaptop(machine) /\ "SURFACE" \notin machine.board,
            <<"SMCBatteryManager">> \o When("DELL" \in machine.board, <<"SMCDellSensors">>)
            \o <<"SMCLightSensor">>)

CpuKexts(cpu, version) ==
    When(~(" Core" \in cpu.name /\ cpu.codename \in Intel(28, 77)) \/ version >= Darwin(23, 0, 0),
         <<"RestrictEvents">>)

UsesCodec(machine) == \E d \in ToSet(machine.sound) : d.id \in CodecIDs

\* The choice between AppleALC and VoodooHDA is asked from Tahoe on, for each codec.
AudioKexts(machine, version, answer) ==
    Each(LAMBDA d : When(d.id \in CodecIDs /\ (version < Darwin(25, 0, 0) \/ answer.audio = "AppleALC"),
                         <<"AppleALC">>), machine.sound)

\* Variant: AppleALC is selected on Tahoe as before it.
AudioWithoutOclp(machine, version, answer) == FALSE

\* AppleALC on Tahoe needs the root patch.
AudioNeedsOclp(machine, version, answer) ==
    UsesCodec(machine) /\ version >= Darwin(25, 0, 0) /\ answer.audio = "AppleALC"

ProcessorKexts(cpu, version) ==
    When(\/ cpu.maker = "AMD" /\ version >= Darwin(21, 4, 0)
         \/ cpu.count > 1 /\ version >= Darwin(19, 0, 0), <<"AppleMCEReporterDisabler">>)
    \o When(version >= Darwin(22, 0, 0) /\ "AVX2" \notin cpu.simd, <<"CryptexFixup">>)
    \o When(/\ cpu.codename \in Intel(0, 20) \ {"Lunar Lake", "Meteor Lake-H", "Meteor Lake-U"}
            /\ cpu.cores > 6, <<"CpuTopologyRebuild">>)

\* The cards in order; a Navi 22, and from Tahoe on any card but those of the choice,
\* ends the loop.
GpuKexts(machine, version, answer) ==
    LET intel == \E g \in ToSet(machine.gpus) : g.maker = "Intel"
        Chosen(gpu) == ~gpu.integrated /\ gpu.codename \in {"Navi 21", "Navi 23"}
        Ends(gpu) == /\ ~gpu.integrated /\ ~Chosen(gpu)
                     /\ gpu.codename = "Navi 22" \/ version >= Darwin(25, 0, 0)
        Of(gpu) ==
            CASE gpu.integrated -> IF gpu.maker = "AMD" THEN <<"NootedRed">> ELSE <<"WhateverGreen">>
              [] Chosen(gpu) -> When(~intel /\ answer.navi # "none", <<answer.navi>>)
              [] ~gpu.integrated /\ gpu.codename = "Navi 22" -> <<"NootRX">>
              [] OTHER -> When(~Ends(gpu), <<"WhateverGreen">>)
        Looked == {i \in 1 .. Len(machine.gpus) : \A j \in 1 .. i - 1 : ~Ends(machine.gpus[j])}
    IN  Each(LAMBDA gpu : Of(gpu), SubSeq(machine.gpus, 1, Cardinality(Looked)))

ClockKexts(machine, named) ==
    When(OnLaptop(machine) /\ ("ASUS" \in machine.board \/ "NootedRed" \in ToSet(named)),
         <<"ForgedInvariant">>)
    \o When(HedtCPU(machine.cpu), <<"CpuTscSync">>)

OclpKexts(oclp) == When(oclp, <<"AMFIPass", "RestrictEvents">>)

\* IOSkywalkFamily comes with AirportItlwm on Sequoia, and on Sonoma when the user says so.
IntelWiFiKexts(version, answer) ==
    <<answer.wifi>>
    \o When(/\ answer.wifi = "AirportItlwm"
            /\ \/ version >= Darwin(24, 0, 0)
               \/ version >= Darwin(23, 0, 0) /\ answer.rootPatch, <<"IOSkywalkFamily">>)

EthernetKext(id) ==
    CASE id \in IntelI22XIDs -> <<"AppleIGC">>
      [] id \in AtherosE2200IDs -> <<"AtherosE2200Ethernet">>
      [] id \in IntelMausiIDs -> <<"IntelMausiEthernet">>
      [] id \in RealtekRTL8125IDs -> <<"LucyRTL8125Ethernet">>
      [] id \in RealtekRTL8100IDs -> <<"RealtekRTL8100">>
      [] id \in RealtekRTL8111IDs -> <<"RealtekRTL8111">>
      [] id \in AppleIGBIDs -> <<"AppleIGB">>
      [] id \in BroadcomBCM57XXIDs -> <<"CatalinaBCM5701Ethernet">>
      [] id \in IntelX500IDs -> <<"IntelLucy">>
      [] OTHER -> <<>>

WirelessKexts(id, version, answer) ==
    When(id \in BroadcomWiFiIDs /\ version >= Darwin(23, 0, 0), <<"IOSkywalkFamily">>)
    \o When(/\ id[1] = "BroadcomWiFi"
            /\ \/ id[2] < 15
               \/ id[2] = 15 /\ version >= Darwin(19, 0, 0)
               \/ id[2] \in {16, 17} /\ version >= Darwin(20, 0, 0), <<"AirportBrcmFixup">>)
    \o When(id \in IntelWiFiIDs, IntelWiFiKexts(version, answer))
    \o When(id \in Before(AtherosWiFiIDs, 8),
            <<"corecaptureElCap">> \o When(version > Darwin(20, 99, 99), <<"AMFIPass">>))

NetworkKexts(machine, version, answer) ==
    Each(LAMBDA d : WirelessKexts(d.id, version, answer) \o EthernetKext(d.id), machine.network)
    \o When(\A d \in ToSet(machine.network) : d.bus = "USB", <<"NullEthernet">>)

BluetoothKexts(machine) ==
    Each(LAMBDA d :
           CASE d.id \in AtherosBluetoothIDs -> <<"Ath3kBT", "Ath3kBTInjector">>
             [] d.id \in BroadcomBluetoothIDs -> <<"BrcmFirmwareData">>
             [] d.id \in IntelBluetoothIDs -> <<"IntelBluetoothFirmware">>
             [] OTHER -> When(d.id = <<"Bluetooth", 55>>, <<"BlueToolFixup">>), machine.bluetooth)

\* A touchpad or keyboard: `at` is its position in InputIDs, 0 for none and for the first.
InputKexts(input) ==
    When("PS/2" \in input.types,
         <<"VoodooPS2Controller">>
         \o When(input.synaptics, <<"VoodooRMI">>)
         \o When(~input.synaptics /\ input.at \in 76 .. 78, <<"VoodooSMBus">>))
    \o When("I2C" \in input.types,
            <<"VoodooI2CHID">> \o When(input.at \in 1 .. 75, <<"AlpsHID">>)
            \o When(input.at > 78, <<"VoodooRMI">>))

LaptopKexts(machine) ==
    CASE ~OnLaptop(machine) -> <<>>
      [] OnLaptop(machine) /\ "SURFACE" \in machine.board -> <<"BigSurface">>
      [] OTHER -> When("ASUS" \in machine.board, <<"AsusSMC">>) \o <<"BrightnessKeys">>
                  \o Each(InputKexts, machine.inputs)

PlatformKexts(machine, acpiPatches) ==
    Each(LAMBDA hid : When(hid \in YogaHIDs, <<"YogaSMC">>), machine.system)
    \o When("BATP" \in acpiPatches, <<"ECEnabler">>)

StorageKexts(machine, version) ==
    Each(LAMBDA d : When(d.id \in RealtekCardReaderIDs,
                         IF d.id[2] >= 5 THEN <<"Sinetek-rtsx">> ELSE <<"RealtekCardReader">>), machine.sd)
    \o Each(LAMBDA d :
              CASE d.interface = "NVMe" -> <<"NVMeFix">>
                [] d.interface = "AHCI" /\ machine.cpu.maker # "AMD" -> <<>>
                [] OTHER -> When(d.id \in UnsupportedSATAControllerIDs,
                                 IF version >= Darwin(20, 0, 0) THEN <<"CtlnaAHCIPort">>
                                 ELSE When(d.id[2] >= 15, <<"SATA-unsupported">>)), machine.storage)

\* `listed`: the controller has a subsystem id the list names, or the list names none.
UsbKexts(machine) ==
    Each(LAMBDA d : When(d.id \in UnsupportedUSBControllerIDs /\ d.listed,
                         IF d.maker = "AMD" THEN When(OnLaptop(machine), <<"GenericUSBXHCI">>)
                         ELSE <<"XHCI-unsupported">>), machine.usb)

BridgeKexts(cpu) ==
    When(cpu.codename \in SandyBridge, <<"ASPP-Override">>)
    \o When(cpu.codename \in SandyBridge \cup IvyBridge,
            <<"AppleIntelCPUPowerManagement", "AppleIntelCPUPowerManagementClient">>)

\* What is named for the hardware, in the code's order.
NamedKexts(machine, version, oclp, acpiPatches, answer) ==
    LET graphics ==
          BoardKexts(machine) \o CpuKexts(machine.cpu, version)
          \o AudioKexts(machine, version, answer) \o ProcessorKexts(machine.cpu, version)
          \o GpuKexts(machine, version, answer)
    IN  graphics \o ClockKexts(machine, graphics)
        \o OclpKexts(oclp \/ AudioNeedsOclp(machine, version, answer))
        \o NetworkKexts(machine, version, answer) \o BluetoothKexts(machine)
        \o LaptopKexts(machine) \o PlatformKexts(machine, acpiPatches)
        \o StorageKexts(machine, version) \o UsbKexts(machine) \o BridgeKexts(machine.cpu)

\* What the user can answer, a question that is not asked having one answer: the codec's
\* kext, that of a Navi 21 or 23 without an Intel card, the Wi-Fi's and iServices.
Answers(machine, version) ==
    LET navi == \E g \in ToSet(machine.gpus) : ~g.integrated /\ g.codename \in {"Navi 21", "Navi 23"}
        wifi == \E d \in ToSet(machine.network) : d.id \in IntelWiFiIDs
        tahoe == version >= Darwin(25, 0, 0)
        sonoma == Major(version) = 23
    IN  [audio : {"AppleALC"} \cup (IF UsesCodec(machine) /\ tahoe THEN {"VoodooHDA"} ELSE {}),
         navi : CASE ~navi -> {"none"}
                  [] navi /\ tahoe -> {"NootRX", "WhateverGreen", "none"}
                  [] OTHER -> {"NootRX", "WhateverGreen"},
         wifi : {"itlwm"} \cup (IF wifi THEN {"AirportItlwm"} ELSE {}),
         rootPatch : {FALSE} \cup (IF wifi /\ sonoma THEN {TRUE} ELSE {})]

\* verify_kext_compatibility asks about the named kexts the version is outside of.
AsksToForce(named, version) == \E kext \in ToSet(named) : ~KextSupports(kext, version)

\* select_required_kexts: every kext is reset first.
SelectRequiredKexts(named, version, allow) == CheckKexts(named, RequiredKexts, version, allow)

-----------------------------------------------------------------------------
\* The kexts that are named for hardware or for a Mac model.
HardwareKexts ==
    {"UTBDefault", "SMCProcessor", "SMCSuperIO", "SMCBatteryManager", "SMCDellSensors",
     "SMCLightSensor", "RestrictEvents", "AppleALC", "AppleMCEReporterDisabler", "CryptexFixup",
     "CpuTopologyRebuild", "NootedRed", "WhateverGreen", "NootRX", "ForgedInvariant", "CpuTscSync",
     "AMFIPass", "itlwm", "AirportItlwm", "IOSkywalkFamily", "AppleIGC", "AtherosE2200Ethernet",
     "IntelMausiEthernet", "LucyRTL8125Ethernet", "RealtekRTL8100", "RealtekRTL8111", "AppleIGB",
     "CatalinaBCM5701Ethernet", "IntelLucy", "AirportBrcmFixup", "corecaptureElCap",
     "NullEthernet", "Ath3kBT", "Ath3kBTInjector", "BrcmFirmwareData", "IntelBluetoothFirmware",
     "BlueToolFixup", "VoodooPS2Controller", "VoodooRMI", "VoodooSMBus", "VoodooI2CHID",
     "AlpsHID", "BigSurface", "AsusSMC", "BrightnessKeys", "YogaSMC", "ECEnabler",
     "Sinetek-rtsx", "RealtekCardReader", "NVMeFix", "CtlnaAHCIPort", "SATA-unsupported",
     "GenericUSBXHCI", "XHCI-unsupported", "ASPP-Override", "AppleIntelCPUPowerManagement",
     "AppleIntelCPUPowerManagementClient", "NoTouchID"}

\* They are kexts of the dataset, and three of them are checked for no other kext.
ASSUME HardwareAssumption ==
    /\ HardwareKexts \subseteq AllKexts
    /\ {"NootRX", "AppleALC", "ECEnabler"} \cap RequiredKexts = {}
    /\ \A k \in AllKexts : {"NootRX", "AppleALC"} \cap ToSet(KextInfo[k].requires) = {}
=============================================================================
