------------------------------ MODULE KextData ------------------------------
(***************************************************************************)
(* Scripts/datasets/kext_data.py: of each kext, the Darwin versions it     *)
(* supports, the kexts it requires and the conflict group it is in, in the *)
(* order of the list.                                                      *)
(***************************************************************************)
EXTENDS Datasets, Folding, TLC

NoGroup == "None"

\* KextInfo with everything spelled out, or the versions and the group by default.
Rival(name, group, min, max, requires) ==
    [name |-> name, min |-> min, max |-> max, requires |-> requires, group |-> group]
Within(name, min, max, requires) ==
    [name |-> name, min |-> min, max |-> max, requires |-> requires, group |-> NoGroup]

\* A run of kexts that every version supports and that require the same.
Plain(names, requires) ==
    [i \in DOMAIN names |->
        [name |-> names[i], min |-> LowestDarwin, max |-> LatestDarwin,
         requires |-> requires, group |-> NoGroup]]

RequiredList ==
    Plain(<<"Lilu">>, <<>>)
    \o Plain(<<"VirtualSMC">>, <<"Lilu">>)

VirtualSMCPluginsList ==
    Plain(<<"SMCBatteryManager", "SMCDellSensors", "SMCLightSensor", "SMCProcessor">>,
           <<"Lilu", "VirtualSMC">>)
    \o <<Within("SMCRadeonSensors", 180000, LatestDarwin, <<"Lilu", "VirtualSMC">>)>>
    \o Plain(<<"SMCSuperIO">>, <<"Lilu", "VirtualSMC">>)

GraphicsList ==
    <<Rival("NootRX", "GPU", 200500, LatestDarwin, <<"Lilu">>),
       Rival("NootedRed", "GPU", 190000, LatestDarwin, <<"Lilu">>),
       Rival("WhateverGreen", "GPU", LowestDarwin, LatestDarwin, <<"Lilu">>)>>

AudioList ==
    Plain(<<"AppleALC">>, <<"Lilu">>)

WiFiList ==
    Plain(<<"AirportBrcmFixup">>, <<"Lilu">>)
    \o <<Rival("AirportItlwm", "IntelWiFi", LowestDarwin, LatestDarwin, <<>>),
       Within("corecaptureElCap", 180000, 249999, <<"IO80211ElCap">>),
       Within("IO80211ElCap", 180000, 249999, <<"corecaptureElCap">>),
       Within("IO80211FamilyLegacy", 230000, LatestDarwin,
           <<"AMFIPass", "IOSkywalkFamily">>),
       Within("IOSkywalkFamily", 230000, LatestDarwin,
           <<"AMFIPass", "IO80211FamilyLegacy">>),
       Rival("itlwm", "IntelWiFi", LowestDarwin, LatestDarwin, <<>>)>>

BluetoothList ==
    <<Within("Ath3kBT", LowestDarwin, 209999, <<"Ath3kBTInjector">>),
       Within("Ath3kBTInjector", LowestDarwin, 209999, <<"Ath3kBT">>),
       Within("BlueToolFixup", 210000, LatestDarwin, <<"Lilu">>),
       Within("BrcmBluetoothInjector", LowestDarwin, 209999,
              <<"BrcmBluetoothInjector", "BrcmFirmwareData", "BrcmPatchRAM2", "BrcmPatchRAM3">>)>>
    \o Plain(<<"BrcmFirmwareData">>,
           <<"BlueToolFixup", "BrcmBluetoothInjector", "BrcmPatchRAM2", "BrcmPatchRAM3">>)
    \o <<Within("BrcmPatchRAM2", LowestDarwin, 189999,
              <<"BlueToolFixup", "BrcmBluetoothInjector", "BrcmFirmwareData", "BrcmPatchRAM3">>),
       Within("BrcmPatchRAM3", 190000, LatestDarwin,
              <<"BlueToolFixup", "BrcmBluetoothInjector", "BrcmFirmwareData", "BrcmPatchRAM2">>)>>
    \o Plain(<<"IntelBluetoothFirmware">>,
           <<"BlueToolFixup", "IntelBTPatcher", "IntelBluetoothInjector">>)
    \o Plain(<<"IntelBTPatcher">>,
           <<"Lilu", "BlueToolFixup", "IntelBluetoothFirmware", "IntelBluetoothInjector">>)
    \o <<Within("IntelBluetoothInjector", LowestDarwin, 209999,
              <<"BlueToolFixup", "IntelBluetoothFirmware", "IntelBTPatcher">>)>>

EthernetList ==
    Plain(<<"AppleIGB", "AppleIGC", "AtherosE2200Ethernet">>, <<>>)
    \o <<Within("CatalinaBCM5701Ethernet", 200000, LatestDarwin, <<>>)>>
    \o Plain(<<"HoRNDIS", "IntelLucy", "IntelMausiEthernet", "LucyRTL8125Ethernet",
           "NullEthernet", "RealtekRTL8100", "RealtekRTL8111">>, <<>>)

USBList ==
    Plain(<<"GenericUSBXHCI", "USBToolBox">>, <<>>)
    \o Plain(<<"UTBDefault">>, <<"USBToolBox">>)
    \o Plain(<<"XHCI-unsupported">>, <<>>)

InputList ==
    Plain(<<"AlpsHID">>, <<"VoodooI2C">>)
    \o Plain(<<"VoodooInput", "VoodooPS2Controller", "VoodooRMI">>, <<>>)
    \o <<Within("VoodooSMBus", 180000, LatestDarwin, <<>>)>>
    \o Plain(<<"VoodooI2C">>, <<>>)
    \o Plain(<<"VoodooI2CAtmelMXT", "VoodooI2CELAN", "VoodooI2CFTE", "VoodooI2CHID",
           "VoodooI2CSynaptics">>, <<"VoodooI2C">>)

BrandSpecificList ==
    <<Within("AsusSMC", LowestDarwin, 239999, <<"Lilu">>)>>
    \o Plain(<<"BigSurface">>, <<"Lilu">>)
    \o Plain(<<"YogaSMC">>, <<"Lilu", "VirtualSMC">>)

StorageList ==
    <<Rival("CtlnaAHCIPort", "SATA", 200000, LatestDarwin, <<>>),
       Rival("SATA-unsupported", "SATA", LowestDarwin, 199999, <<>>),
       Within("NVMeFix", 180000, LatestDarwin, <<"Lilu">>)>>

CardReaderList ==
    <<Rival("RealtekCardReader", "RealtekCardReader", 180000, 239999,
              <<"RealtekCardReaderFriend">>),
       Within("RealtekCardReaderFriend", 180000, 229999, <<"Lilu", "RealtekCardReader">>),
       Rival("Sinetek-rtsx", "RealtekCardReader", LowestDarwin, LatestDarwin, <<>>)>>

TSCSynchronizationList ==
    <<Rival("AmdTscSync", "TSC", LowestDarwin, LatestDarwin, <<>>),
       Rival("VoodooTSCSync", "TSC", LowestDarwin, LatestDarwin, <<>>),
       Rival("CpuTscSync", "TSC", LowestDarwin, LatestDarwin, <<"Lilu">>),
       Rival("ForgedInvariant", "TSC", LowestDarwin, LatestDarwin, <<"Lilu">>)>>

ExtrasList ==
    <<Within("AMFIPass", 200000, LatestDarwin, <<"Lilu">>),
       Within("ASPP-Override", 210400, LatestDarwin, <<>>),
       Within("AppleIntelCPUPowerManagement", 220000, LatestDarwin, <<>>),
       Within("AppleIntelCPUPowerManagementClient", 220000, LatestDarwin, <<>>)>>
    \o Plain(<<"AppleMCEReporterDisabler">>, <<>>)
    \o Plain(<<"BrightnessKeys", "CPUFriend", "CpuTopologyRebuild">>, <<"Lilu">>)
    \o <<Within("CryptexFixup", 220000, LatestDarwin, <<"Lilu">>)>>
    \o Plain(<<"ECEnabler", "FeatureUnlock", "HibernationFixup">>, <<"Lilu">>)
    \o <<Within("NoTouchID", 170500, 190600, <<"Lilu">>)>>
    \o Plain(<<"RestrictEvents", "RTCMemoryFixup">>, <<"Lilu">>)

KextList ==
    RequiredList \o VirtualSMCPluginsList \o GraphicsList \o AudioList \o WiFiList \o
    BluetoothList \o EthernetList \o USBList \o InputList \o BrandSpecificList \o
    StorageList \o CardReaderList \o TSCSynchronizationList \o ExtrasList

\* kext_index_by_name, from names to kexts; the name with the index 0, which is false.
KextInfo == FoldLeft(LAMBDA info, kext : info @@ (kext.name :> kext), <<>>, KextList)
FirstKext == RequiredList[1].name

AllKexts == DOMAIN KextInfo
RequiredKexts == {RequiredList[i].name : i \in 1 .. Len(RequiredList)}

KextSupports(kext, version) == version \in KextInfo[kext].min .. KextInfo[kext].max

\* The other kexts of a kext's conflict group.
KextRivals(kext) ==
    {k.name : k \in {x \in ToSet(KextList) : x.group # NoGroup /\ x.name # kext /\ x.group = KextInfo[kext].group}}

\* The kexts of the dataset require kexts of the dataset, and no kext rules out one that
\* is always there.
ASSUME KextListAssumption ==
    /\ Len(KextList) \in Nat /\ RequiredKexts \cup {FirstKext} \subseteq AllKexts
    /\ \A k \in AllKexts :
          KextInfo[k].requires \in Seq(AllKexts) /\ KextRivals(k) \cap RequiredKexts = {}
=============================================================================
