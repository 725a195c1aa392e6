------------------------------- MODULE Smbios -------------------------------
(***************************************************************************)
(* SMBIOS: the Mac model an EFI pretends to be, by default and as the user *)
(* customizes it, and the ACPI patch and kexts a model brings with it.     *)
(***************************************************************************)
EXTENDS HardwareCustomization

SandyBridge == Intel(64, 66)
IvyBridge == Intel(62, 64)
Haswell == Intel(55, 62)
Broadwell == Intel(50, 55)
Skylake == Intel(48, 50)
KabyLake == Intel(40, 44)
AmberLake == Intel(44, 45)
CannonToComet == Intel(30, 40)
CometLake == Intel(30, 34)
IceLake == Intel(28, 30)

\* is_intel_hedt_cpu: the names among the generations 45 to 65 that end in -X, -P, -W,
\* -E, -EP or -EX, and the Xeons among the older ones.
HedtCPU(cpu) ==
    \/ cpu.codename \in {"Cascade Lake-X", "Cascade Lake-P", "Cascade Lake-W", "Skylake-X",
                         "Broadwell-E", "Haswell-E", "Haswell-EP", "Haswell-EX",
                         "Ivy Bridge-E", "Sandy Bridge-E"}
    \/ cpu.codename \in Intel(66, 77) /\ "Xeon" \in cpu.name

Platform(machine) == IF "NUC" \in machine.board THEN "NUC" ELSE machine.platform

\* The model of a machine that does not use integrated graphics.
HighEndModel(machine, version) ==
    LET code == machine.cpu.codename
        old == version < Darwin(19, 0, 0)
        iMac11 == code \in {"Lynnfield", "Clarkdale"} /\ "Xeon" \notin machine.cpu.name /\ old
    IN  CASE iMac11 -> IF code = "Lynnfield" THEN "iMac11,1" ELSE "iMac11,2"
          [] ~iMac11 /\ code \in Intel(66, 71) \cup {"Lynnfield", "Jasper Forest", "Gainestown", "Bloomfield"} ->
               IF old THEN "MacPro5,1" ELSE "MacPro6,1"
          [] code \in SandyBridge \cup IvyBridge /\ version < Darwin(22, 0, 0) -> "MacPro6,1"
          [] OTHER -> CASE Platform(machine) = "Laptop" -> "MacBookPro16,2"
                        [] Platform(machine) # "Laptop" /\ version < Darwin(25, 0, 0) -> "iMacPro1,1"
                        [] OTHER -> "MacPro7,1"

\* A model for each platform.
By(platform, desktop, nuc, laptop) ==
    CASE platform = "Desktop" -> desktop [] platform = "NUC" -> nuc [] OTHER -> laptop

\* The model whose generation of integrated graphics the machine has.
IntegratedModel(machine, version) ==
    LET code == machine.cpu.codename
        By3(desktop, nuc, laptop) == By(Platform(machine), desktop, nuc, laptop)
        Cores(bound, few, many) == IF machine.cpu.cores < bound THEN few ELSE many
        Igpu(only, not) == IF Head(machine.gpus).integrated THEN only ELSE not
    IN  CASE code \in {"Arrandale", "Clarksfield"} -> "MacBookPro6,1"
          [] code \in SandyBridge ->
               By3("iMac12,2", Cores(4, "Macmini5,1", "Macmini5,3"), Cores(4, "MacBookPro8,1", "MacBookPro8,2"))
          [] code \in IvyBridge ->
               By3(Igpu("iMac13,1", "iMac13,2"), Cores(4, "Macmini6,1", "Macmini6,2"),
                   Cores(4, "MacBookPro10,2", "MacBookPro10,1"))
          [] code \in Haswell ->
               By3(Igpu("iMac14,4", "iMac15,1"), "Macmini7,1", Cores(4, "MacBookPro11,1", "MacBookPro11,5"))
          [] code \in Broadwell ->
               By3(Igpu("iMac16,2", "iMac17,1"), "iMac16,1", Cores(4, "MacBookPro12,1", "MacBookPro11,5"))
          [] code \in Skylake ->
               By3("iMac17,1", "iMac17,1", Cores(4, "MacBookPro13,1", "MacBookPro13,3"))
          [] code \in AmberLake \cup KabyLake ->
               By3(Igpu("iMac18,1", "iMac18,3"), Igpu("iMac18,1", "iMac18,3"),
                   Cores(4, "MacBookPro14,1", "MacBookPro14,3"))
          [] code \in CannonToComet ->
               By3(CASE code \in CometLake -> Cores(10, "iMac20,1", "iMac20,2")
                     [] code \notin CometLake /\ version < Darwin(18, 0, 0) -> "iMac18,3"
                     [] OTHER -> "iMac19,1",
                   "Macmini8,1",
                   IF "-8" \in machine.cpu.name THEN Cores(6, "MacBookPro15,2", "MacBookPro15,3")
                                               ELSE Cores(6, "MacBookPro16,3", "MacBookPro16,1"))
          [] code \in IceLake -> "MacBookAir9,1"
          [] OTHER -> HighEndModel(machine, version)

\* select_smbios_model raises when it looks at the first or the last graphics card that
\* is kept and there is none; on a laptop only two generations look at it.
SelectRaises(machine) ==
    /\ machine.gpus = <<>>
    /\ Platform(machine) = "Laptop" => machine.cpu.codename \in AmberLake \cup KabyLake

SelectSmbiosModel(machine, version) ==
    IF Platform(machine) # "Laptop" /\ ~ Last(machine.gpus).integrated
    THEN HighEndModel(machine, version)
    ELSE IntegratedModel(machine, version)

\* The models that are selected; each is one there is.
SelectableModels ==
    {"iMac11,1", "iMac11,2", "MacPro5,1", "MacPro6,1", "MacBookPro16,2", "iMacPro1,1", "MacPro7,1",
     "MacBookPro6,1", "iMac12,2", "Macmini5,1", "Macmini5,3", "MacBookPro8,1", "MacBookPro8,2",
     "iMac13,1", "iMac13,2", "Macmini6,1", "Macmini6,2", "MacBookPro10,2", "MacBookPro10,1",
     "iMac14,4", "iMac15,1", "Macmini7,1", "MacBookPro11,1", "MacBookPro11,5", "iMac16,2",
     "iMac17,1", "iMac16,1", "MacBookPro12,1", "MacBookPro13,1", "MacBookPro13,3", "iMac18,1",
     "iMac18,3", "MacBookPro14,1", "MacBookPro14,3", "iMac20,1", "iMac20,2", "iMac19,1",
     "Macmini8,1", "MacBookPro15,2", "MacBookPro15,3", "MacBookPro16,3", "MacBookPro16,1",
     "MacBookAir9,1"}

ASSUME ModelAssumption == SelectableModels \subseteq MacModels

\* smbios_specific_options.
NeedsMchc(machine, model) == machine.cpu.maker = "Intel" /\ model \notin MacPros

TouchIDModels == MacModelSlice(31, 34) \cup MacModelSlice(48, 50) \cup MacModelSlice(51, 61)

SmbiosKexts(model) ==
    (IF model = "MacPro7,1" THEN <<"RestrictEvents">> ELSE <<>>) \o
    (IF model \in TouchIDModels THEN <<"NoTouchID">> ELSE <<>>)
=============================================================================
