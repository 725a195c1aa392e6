----------------------------- MODULE MCMainMenu -----------------------------
(* Machines on which the modules meet: a laptop whose audio, graphics and    *)
(* Wi-Fi ask for OpenCore Legacy Patcher, one with a graphics card to power  *)
(* off and one whose screen is on the first of two cards; desktops with an   *)
(* Intel and a Navi 22 card, with an AMD processor and a DSDT that needs     *)
(* pre-patches, with an APU listed before a card, and with an HEDT           *)
(* processor; a desktop and a laptop of the BIOS days, one without SSE4 and  *)
(* one without graphics cards.                                               *)
EXTENDS MainMenu

\* What a kext brings with it; no kext of the dataset needs more steps.
Needed(names) == names \cup UNION {ToSet(KextInfo[k].requires) : k \in names}
Brought(kext) == Needed(Needed(Needed({kext})))

\* The whole dataset is one that the assumptions of KextSelection describe.
ASSUME DatasetAssumption ==
    /\ \A k \in AllKexts :
          LET all == Brought(k)
          IN  Needed(all) = all /\ all \cap KextRivals(k) = {} /\ "ECEnabler" \notin all \ {k}
    /\ \A k \in RequiredKexts : KextRivals(k) = {} /\ Brought(k) \subseteq RequiredKexts
    /\ KextRivals("ECEnabler") = {} /\ Brought("ECEnabler") \subseteq RequiredKexts \cup {"ECEnabler"}
    /\ \A k \in RequiredKexts \cup {"ECEnabler"} :
          KextInfo[k].min = LowestDarwin /\ KextInfo[k].max = LatestDarwin

Gpu(name, maker, id, prefix, codename, integrated) ==
    [name |-> name, kind |-> "GPU", maker |-> maker, id |-> id, prefix |-> prefix,
     codename |-> codename, integrated |-> integrated, bus |-> "PCI", acpi |-> TRUE,
     parent |-> IF integrated THEN "GFX0" ELSE "PEG0", bar |-> FALSE]

Device(kind, name, id, acpi) ==
    [name |-> name, kind |-> kind, id |-> id, bus |-> "PCI", acpi |-> acpi, parent |-> name]

Sound(position, controller) ==
    [name |-> "Codec", kind |-> "Sound", id |-> <<"Codec", position>>, bus |-> "HDA", acpi |-> TRUE,
     parent |-> "HDAS", controller |-> controller]

Disk(interface) ==
    [name |-> "Disk", kind |-> "Storage", id |-> <<"Other", 0>>, bus |-> "PCI", acpi |-> TRUE,
     parent |-> "RP05", interface |-> interface]

Screen(type, gpu, size) == [type |-> type, gpu |-> gpu, size |-> size]
Cpu(maker, codename, name, cores) ==
    [maker |-> maker, codename |-> codename, name |-> name, simd |-> {"SSE4", "SSE4.2", "AVX2"},
     cores |-> cores, count |-> 1, lowEnd |-> FALSE]

Laptop ==
    [cpu |-> Cpu("Intel", "Haswell-ULT", {" Core"}, 2), board |-> {"ASUS"}, platform |-> "Laptop",
     chipset |-> "HM86", uefi |-> TRUE, patched |-> {},
     gpus |-> <<Gpu("HD 4400", "Intel", "0A16", "0A", "Haswell", TRUE)>>,
     monitors |-> <<Screen("Internal", "HD 4400", "1600x900")>>,
     sound |-> <<Sound(3, "with path")>>, biometric |-> <<>>,
     network |-> <<Device("Network", "Wi-Fi", <<"IntelWiFi", 5>>, FALSE),
                   Device("Network", "LAN", <<"RealtekRTL8111", 0>>, TRUE)>>,
     storage |-> <<Disk("AHCI")>>,
     bluetooth |-> <<Device("Bluetooth", "BT", <<"IntelBluetooth", 1>>, TRUE)>>,
     sd |-> <<Device("SD", "Card reader", <<"RealtekCardReader", 2>>, TRUE)>>,
     inputs |-> <<[types |-> {"PS/2"}, synaptics |-> TRUE, at |-> 0]>>,
     system |-> <<>>, heci |-> {}, usb |-> <<>>, prePatches |-> {},
     tables |-> <<{"EC", "EC._STA", "EC.complete", "EC._STA computed", "EC fields wide", "LPC",
                   "OSID", "ALSD", "ALSD._STA", "HPET", "HPET._CRS", "TMR IRQ", "NBCF Zero"},
                  {"Processor"}>>]

OptimusLaptop ==
    [Laptop EXCEPT
        !.cpu = Cpu("Intel", "Coffee Lake-H", {" Core"}, 6), !.board = {"DELL"}, !.chipset = "HM370",
        !.gpus = <<Gpu("UHD 630", "Intel", "3E9B", "3E", "Coffee Lake", TRUE),
                   Gpu("GTX 1650", "NVIDIA", "1F91", "1F", "Turing", FALSE)>>,
        !.monitors = <<Screen("Internal", "UHD 630", "3840x2160")>>,
        !.sound = <<Sound(7, "none")>>,
        !.network = <<Device("Network", "Wi-Fi", <<"BroadcomWiFi", 13>>, TRUE)>>,
        !.bluetooth = <<Device("Bluetooth", "BT", <<"BroadcomBluetooth", 4>>, TRUE)>>,
        !.sd = <<>>, !.storage = <<Disk("NVMe")>>,
        !.inputs = <<[types |-> {"I2C"}, synaptics |-> TRUE, at |-> 80]>>,
        !.tables = <<{"H_EC", "GPI0", "GPI0._STA", "AWAC", "AWAC._STA", "AWAC.STAS", "RTC", "RTC._STA",
                      "OSID", "OSIF", "GPRW"},
                     {"Processor", "GTX 1650._OFF"}>>]

Desktop ==
    [Laptop EXCEPT
        !.cpu = Cpu("Intel", "Coffee Lake-S", {" Core"}, 8), !.board = {"HP"}, !.platform = "Desktop",
        !.chipset = "Z390",
        !.gpus = <<Gpu("UHD 630", "Intel", "3E98", "3E", "Coffee Lake", TRUE),
                   Gpu("RX 6700", "AMD", "73DF", "73", "Navi 22", FALSE)>>,
        !.monitors = <<Screen("HDMI", "RX 6700", "small")>>, !.sound = <<Sound(9, "without path")>>,
        !.network = <<Device("Network", "LAN", <<"IntelI22X", 1>>, TRUE)>>,
        !.bluetooth = <<>>, !.sd = <<>>, !.inputs = <<>>,
        !.tables = <<{"EC", "EC._STA", "EC.complete", "AWAC", "AWAC._STA", "RTC", "RTC._CRS gap", "CMOS 005",
                      "RHUB"},
                     {"ACPI0007._UID"}>>]

AmdDesktop ==
    [Desktop EXCEPT
        !.cpu = Cpu("AMD", "Raphael", {}, 8), !.board = {}, !.chipset = "B650",
        !.gpus = <<Gpu("RX 6800", "AMD", "73BF", "73", "Navi 21", FALSE)>>,
        !.monitors = <<Screen("DP", "RX 6800", "3840x2160")>>, !.sound = <<>>,
        !.network = <<Device("Network", "LAN", <<"RealtekRTL8125", 0>>, TRUE)>>,
        !.prePatches = {<<"GPP7.UP00", "to UPXX">>},
        !.tables = <<{"LPC", "RTC", "RTC._STA", "GPRW", "UPRW", "URTH", "URTH._STA"}, {"ACPI0007._UID"}>>]

\* A machine of the BIOS days, with a card that is too old for Mojave and one that is
\* too new, so that Mojave is offered with no graphics card.
LegacyDesktop ==
    [Desktop EXCEPT
        !.cpu = Cpu("Intel", "Sandy Bridge", {" Core"}, 4), !.board = {}, !.chipset = "H67",
        !.uefi = FALSE,
        !.gpus = <<Gpu("HD 3000", "Intel", "0112", "01", "Sandy Bridge", TRUE),
                   Gpu("RX 5700", "AMD", "731F", "73", "Navi 10", FALSE)>>,
        !.monitors = <<Screen("DVI", "RX 5700", "small")>>, !.sound = <<Sound(20, "none")>>,
        !.network = <<Device("Network", "LAN", <<"BroadcomBCM57XX", 3>>, TRUE)>>,
        !.heci = {"8086-1E3A"},
        !.tables = <<{"LPC._ADR", "HPET", "RTC"}, {"Processor", "CpuPm", "Cpu0Ist"}>>]

LegacyLaptop == [LegacyDesktop EXCEPT !.platform = "Laptop", !.uefi = TRUE]

Workstation ==
    [Desktop EXCEPT
        !.cpu = Cpu("Intel", "Skylake-X", {" Core"}, 10), !.board = {"NUC"}, !.chipset = "X299",
        !.gpus = <<Gpu("RX 5700", "AMD", "731F", "73", "Navi 10", FALSE)>>,
        !.monitors = <<>>, !.sound = <<>>,
        !.network = <<Device("Network", "LAN", <<"AquantiaAqtion", 1>>, FALSE)>>,
        !.tables = <<{"LPC", "RTC", "RTC._STA", "UNC0"}, {"Processor", "APIC"}>>]

NoSSE4 == [LegacyDesktop EXCEPT !.cpu.simd = {}]

\* The screen is on the first card, so the second one is unset after it was counted.
SecondCard ==
    [Laptop EXCEPT
        !.cpu = Cpu("Intel", "Haswell-H", {" Core"}, 4),
        !.gpus = <<Gpu("HD 4600", "Intel", "0416", "04", "Haswell", TRUE),
                   Gpu("GT 750M", "NVIDIA", "0FE4", "0F", "Kepler", FALSE)>>,
        !.monitors = <<Screen("Internal", "HD 4600", "1600x900")>>]

\* An AMD processor with graphics of its own, listed before the card in a slot.
ApuDesktop ==
    [AmdDesktop EXCEPT
        !.cpu = Cpu("AMD", "Renoir", {}, 8),
        !.gpus = <<Gpu("Radeon Graphics", "AMD", "1636", "16", "Renoir", TRUE),
                   Gpu("RX 6800", "AMD", "73BF", "73", "Navi 21", FALSE)>>]

\* A report whose section of graphics cards is empty.
NoCard == [LegacyLaptop EXCEPT !.gpus = <<>>, !.monitors = <<>>]

MCReports ==
    "Laptop" :> Laptop @@ "Optimus laptop" :> OptimusLaptop @@ "Desktop" :> Desktop
    @@ "AMD desktop" :> AmdDesktop @@ "Legacy desktop" :> LegacyDesktop
    @@ "Legacy laptop" :> LegacyLaptop @@ "Workstation" :> Workstation
    @@ "No SSE4" :> NoSSE4 @@ "Second card" :> SecondCard
    @@ "APU desktop" :> ApuDesktop @@ "No card" :> NoCard

\* The report of the run about DisabledCardsOff.
MCOptimusReport == "Optimus laptop" :> OptimusLaptop

MCRefusable == {<<"SSDT-RTCAWAC">>, <<"SSDT-Disable", "GPU", "PEG0">>}

MCVersions == {Darwin(18, 7, 0), Darwin(22, 99, 99), Darwin(25, 99, 99)}

-----------------------------------------------------------------------------
(* What the downloads hold: a bundle for each kext, and the plug-ins and     *)
(* releases that the code treats specially.                                  *)
Bundle(path, name, kext, directory, identifier, libraries) ==
    [path |-> path, name |-> name, kext |-> kext, directory |-> directory, release |-> 0,
     identifier |-> identifier, libraries |-> libraries]

Plugin(kext, name, libraries) ==
    Bundle(kext \o "/" \o name, name, kext, kext, name, libraries)

Linked(kext) ==
    CASE kext \in {"VoodooI2CHID", "AlpsHID"} -> <<"VoodooI2C", "VoodooInput">>
      [] kext = "VoodooRMI" -> <<"VoodooInput">>
      [] kext = "VoodooSMBus" -> <<>>
      [] OTHER -> SelectSeq(KextInfo[kext].requires, LAMBDA k : k \in {"Lilu", "VirtualSMC"})

PlainBundles ==
    [i \in 1 .. Len(KextList) |->
        Bundle(KextList[i].name, KextList[i].name, KextList[i].name,
               IF KextList[i].name \in {VirtualSMCPluginsList[j].name : j \in 1 .. Len(VirtualSMCPluginsList)}
               THEN "VirtualSMC" ELSE KextList[i].name,
               KextList[i].name, Linked(KextList[i].name))]

Itlwm(release, path) ==
    [Bundle(path, "AirportItlwm", "AirportItlwm", "AirportItlwm", "AirportItlwm", <<>>)
        EXCEPT !.release = release]

\* In the reverse order of the list, in which nothing is where it has to be.
MCBundles ==
    SelectSeq(Reverse(PlainBundles), LAMBDA b : b.name # "AirportItlwm")
    \o <<Itlwm(220000, "AirportItlwm_Ventura"), Itlwm(230000, "AirportItlwm_Sonoma14.0"),
         Itlwm(230400, "AirportItlwm_Sonoma14.4"), Itlwm(190000, "AirportItlwm_Catalina"),
         Plugin("AirportBrcmFixup", "AirPortBrcm4360_Injector", <<>>),
         Plugin("VoodooI2C", "VoodooInput", <<>>),
         Plugin("VoodooPS2Controller", "VoodooPS2Keyboard", <<"VoodooPS2Controller">>),
         Plugin("VoodooPS2Controller", "VoodooPS2Trackpad", <<"VoodooPS2Controller", "VoodooInput">>),
         Plugin("VoodooPS2Controller", "VoodooPS2Mouse", <<"VoodooPS2Controller">>),
         Plugin("VoodooPS2Controller", "VoodooInput", <<>>),
         Plugin("VoodooRMI", "RMISMBus", <<"VoodooSMBus", "VoodooRMI">>),
         Plugin("VoodooRMI", "RMII2C", <<"VoodooI2C", "VoodooRMI">>),
         Plugin("VoodooRMI", "VoodooInput", <<>>)>>
=============================================================================
