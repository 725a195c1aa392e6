------------------------------ MODULE Datasets ------------------------------
(***************************************************************************)
(* The lists of Scripts/datasets that the command-line program looks       *)
(* devices, processors, chipsets and Mac models up in.  A PCI or USB id is *)
(* the list it is in and its position there, from 0, as the slices of the  *)
(* code count.                                                             *)
(***************************************************************************)
EXTENDS Naturals, Sequences, FiniteSets

\* A Darwin version major.minor.patch, and no version at all.
Darwin(major, minor, patch) == 10000 * major + 100 * minor + patch
NoVersion == 0
Major(version) == version \div 10000

\* os_data: High Sierra to Tahoe, all of them released.
LowestDarwin == 170000
LatestDarwin == 259999

\* The positions from..to-1 of a list, as the slice [from:to] takes them.
Slice(list, from, to) == {list[i + 1] : i \in from .. to - 1}

Ids(list, length) == {list} \X (0 .. length - 1)

\* The ids of a list from a position on, or before it.
From(ids, first) == {id \in ids : id[2] >= first}
Before(ids, end) == {id \in ids : id[2] < end}

AtherosBluetoothIDs == Ids("AtherosBluetooth", 52)
BroadcomBluetoothIDs == Ids("BroadcomBluetooth", 99)
IntelBluetoothIDs == Ids("IntelBluetooth", 14)
BluetoothIDs ==
    AtherosBluetoothIDs \cup BroadcomBluetoothIDs \cup IntelBluetoothIDs \cup Ids("Bluetooth", 56)

InputIDs == Ids("Input", 99)

AtherosWiFiIDs == Ids("AtherosWiFi", 13)
BroadcomWiFiIDs == Ids("BroadcomWiFi", 21)
IntelWiFiIDs == Ids("IntelWiFi", 87)
WirelessCardIDs == AtherosWiFiIDs \cup BroadcomWiFiIDs \cup IntelWiFiIDs

AppleIGBIDs == Ids("AppleIGB", 38)
AquantiaAqtionIDs == Ids("AquantiaAqtion", 17)
AtherosE2200IDs == Ids("AtherosE2200", 7)
BroadcomBCM57XXIDs == Ids("BroadcomBCM57XX", 34)
IntelI22XIDs == Ids("IntelI22X", 7)
IntelMausiIDs == Ids("IntelMausi", 59)
IntelX500IDs == Ids("IntelX500", 46)
RealtekRTL8100IDs == Ids("RealtekRTL8100", 1)
RealtekRTL8111IDs == Ids("RealtekRTL8111", 4)
RealtekRTL8125IDs == Ids("RealtekRTL8125", 3)
EthernetIDs ==
    AppleIGBIDs \cup AquantiaAqtionIDs \cup AtherosE2200IDs \cup BroadcomBCM57XXIDs \cup
    IntelI22XIDs \cup IntelMausiIDs \cup IntelX500IDs \cup RealtekRTL8100IDs \cup
    RealtekRTL8111IDs \cup RealtekRTL8125IDs

WirelessUSBIDs == Ids("WirelessUSB", 496)
RealtekCardReaderIDs == Ids("RealtekCardReader", 14)
UnsupportedUSBControllerIDs == Ids("UnsupportedUSBController", 17)
UnsupportedSATAControllerIDs == Ids("UnsupportedSATAController", 27)
IntelVMDIDs == Ids("IntelVMD", 2)
UnsupportedNVMeSSDIDs == Ids("UnsupportedNVMeSSD", 10)
ChromebookIDs == Ids("Chromebook", 13)
ThinkPadTWX30IDs == Ids("ThinkPadTWX30", 2)

\* The AMD graphics cards that are given the id of another one.
SpoofGPUIDs ==
    {"6611", "6613", "6617", "6649", "665C", "679A", "67B1", "6811", "6819", "682B",
     "683F", "6930", "6939", "699F", "6995", "73EF", "73E1", "73AF", "73A5"}

AMDCodenames ==
    {"Hainan", "Oland", "Cape Verde", "Pitcairn", "Tahiti", "Bonaire", "Hawaii", "Tonga",
     "Fiji"}

YogaHIDs == Ids("Yoga", 6)

\* The codecs AppleALC has layouts for.
CodecIDs == Ids("Codec", 108)

IntelChipsets ==
    <<"X58", "NM10", "P55", "PM55", "H55", "QM57", "H57", "HM55", "Q57", "HM57", "QS57",
      "Cougar Point", "Z68", "P67", "UM67", "HM65", "H67", "HM67", "Q65", "QS67", "Q67",
      "QM67", "B65", "C202", "C204", "C206", "H61", "C600/X79", "Panther Point", "Z77",
      "Z75", "Q77", "Q75", "B75", "H77", "C216", "QM77", "QS77", "HM77", "UM77", "HM76",
      "HM75", "HM70", "NM70", "Lynx Point", "Z87", "Z85", "HM86", "H87", "HM87", "Q85",
      "Q87", "QM87", "B85", "C222", "C224", "C226", "H81", "HM97", "Z97", "QM97", "H97",
      "C610/X99", "Wellsburg", "Wildcat Point-LP", "Sunrise Point-LP", "Sunrise Point",
      "Sunrise Point-H", "H110", "H170", "Z170", "Q170", "Q150", "B150", "C236", "C232",
      "QM170", "HM170", "CM236", "QMS180", "HM175", "QM175", "CM238", "QMU185", "H270",
      "Z270", "Q270", "Q250", "B250", "B365", "C422", "C621", "C622", "C624", "C625",
      "C626", "C627", "C628", "X299", "Lewisburg", "Cannon Point-LP", "C246", "B360",
      "C242", "QM370", "HM370", "CM246", "H310", "H370", "Z390", "Q370", "Z370",
      "Comet Lake", "HM470", "H310D", "H470", "Z490", "Q470", "QM480", "WM490", "W480",
      "H420E", "Ice Lake-LP", "Ice Lake", "B460", "H410", "QM580E", "Rocket Lake", "Q570",
      "Z590", "H570", "B560", "H510", "WM590", "QM580", "HM570", "C252", "C256", "W580",
      "RM590E", "R580E", "Tiger Lake-LP", "Gemini Lake", "Elkhart Lake", "Jasper Lake",
      "Alder Lake", "Alder Lake-N", "Q670", "Z690", "H670", "B660", "H610", "W680", "HM670",
      "WM690", "R680E", "Q670E", "H610E", "Raptor Lake-P", "Raptor Lake-PX", "Z790", "H770",
      "B760", "HM770", "WM790", "C266", "C262", "W790", "Meteor Lake-P", "Lunar Lake-M",
      "Q870", "Z890", "B860", "H810", "W880", "HM870", "WM880">>

AMDChipsets ==
    <<"AMD", "AM1", "A68H", "A75", "A78", "A85X", "A88X", "A320", "B350", "X370", "X399",
      "B450", "X470", "A520", "B550", "X570", "TRX40", "TRX50", "A620", "B650", "X670",
      "X870", "X870E">>

IntelCPUGenerations ==
    <<"Arrow Lake-S", "Arrow Lake-H", "Arrow Lake-HX", "Arrow Lake-U", "Lunar Lake",
      "Meteor Lake-H", "Meteor Lake-U", "Raptor Lake-S", "Raptor Lake-E", "Raptor Lake-HX",
      "Raptor Lake-H", "Raptor Lake-PX", "Raptor Lake-P", "Raptor Lake-U", "Alder Lake-S",
      "Alder Lake-HX", "Alder Lake-H", "Alder Lake-P", "Alder Lake-U", "Alder Lake-N",
      "Lakefield", "Rocket Lake-S", "Rocket Lake-E", "Tiger Lake-H", "Tiger Lake-B",
      "Tiger Lake-UP3", "Tiger Lake-H35", "Tiger Lake-UP4", "Ice Lake-U", "Ice Lake-SP",
      "Comet Lake-S", "Comet Lake-W", "Comet Lake-H", "Comet Lake-U", "Coffee Lake-S",
      "Coffee Lake-E", "Coffee Lake-H", "Coffee Lake-U", "Cannon Lake-U", "Whiskey Lake-U",
      "Kaby Lake", "Kaby Lake-H", "Kaby Lake-X", "Kaby Lake-G", "Amber Lake-Y",
      "Cascade Lake-X", "Cascade Lake-P", "Cascade Lake-W", "Skylake", "Skylake-X",
      "Broadwell", "Broadwell-H", "Broadwell-U", "Broadwell-Y", "Broadwell-E", "Haswell",
      "Haswell-ULT", "Haswell-ULX", "Haswell-H", "Haswell-E", "Haswell-EP", "Haswell-EX",
      "Ivy Bridge", "Ivy Bridge-E", "Sandy Bridge", "Sandy Bridge-E", "Beckton",
      "Westmere-EX", "Gulftown", "Westmere-EP", "Clarkdale", "Arrandale", "Lynnfield",
      "Jasper Forest", "Clarksfield", "Gainestown", "Bloomfield">>

\* The processors of the slice [from:to].
Intel(from, to) == Slice(IntelCPUGenerations, from, to)

\* Mac models with the first and the last version each runs, in the list's order.
MacDevices ==
    <<<<"iMac11,1", 100200, 179999>>, <<"iMac11,2", 100300, 179999>>,
      <<"iMac11,3", 100300, 179999>>, <<"iMac12,1", 100600, 179999>>,
      <<"iMac12,2", 100600, 179999>>, <<"iMac13,1", 120200, 199999>>,
      <<"iMac13,2", 120200, 199999>>, <<"iMac13,3", 120200, 199999>>,
      <<"iMac14,1", 120400, 199999>>, <<"iMac14,2", 120400, 199999>>,
      <<"iMac14,3", 120400, 199999>>, <<"iMac14,4", 130200, 209999>>,
      <<"iMac15,1", 140000, 209999>>, <<"iMac16,1", 150000, 219999>>,
      <<"iMac16,2", 150000, 219999>>, <<"iMac17,1", 150000, 219999>>,
      <<"iMac18,1", 160500, 229999>>, <<"iMac18,2", 160500, 229999>>,
      <<"iMac18,3", 160500, 229999>>, <<"iMac19,1", 180500, 249999>>,
      <<"iMac19,2", 180500, 249999>>, <<"iMac20,1", 190600, 259999>>,
      <<"iMac20,2", 190600, 259999>>, <<"MacBook8,1", 140100, 209999>>,
      <<"MacBook9,1", 150400, 219999>>, <<"MacBook10,1", 160600, 229999>>,
      <<"MacBookAir4,1", 110000, 179999>>, <<"MacBookAir4,2", 110000, 179999>>,
      <<"MacBookAir5,1", 110400, 199999>>, <<"MacBookAir5,2", 120200, 199999>>,
      <<"MacBookAir6,1", 120400, 209999>>, <<"MacBookAir6,2", 120400, 209999>>,
      <<"MacBookAir7,1", 140100, 219999>>, <<"MacBookAir7,2", 140100, 219999>>,
      <<"MacBookAir8,1", 180200, 249999>>, <<"MacBookAir8,2", 180600, 249999>>,
      <<"MacBookAir9,1", 190400, 249999>>, <<"MacBookPro6,1", 100300, 179999>>,
      <<"MacBookPro6,2", 100300, 179999>>, <<"MacBookPro8,1", 100600, 179999>>,
      <<"MacBookPro8,2", 100600, 179999>>, <<"MacBookPro8,3", 100600, 179999>>,
      <<"MacBookPro9,1", 110300, 199999>>, <<"MacBookPro9,2", 110300, 199999>>,
      <<"MacBookPro10,1", 110400, 199999>>, <<"MacBookPro10,2", 120200, 199999>>,
      <<"MacBookPro11,1", 130000, 209999>>, <<"MacBookPro11,2", 130000, 209999>>,
      <<"MacBookPro11,3", 130000, 209999>>, <<"MacBookPro11,4", 140300, 219999>>,
      <<"MacBookPro11,5", 140300, 219999>>, <<"MacBookPro12,1", 140100, 219999>>,
      <<"MacBookPro13,1", 160000, 219999>>, <<"MacBookPro13,2", 160100, 219999>>,
      <<"MacBookPro13,3", 160100, 219999>>, <<"MacBookPro14,1", 160600, 229999>>,
      <<"MacBookPro14,2", 160600, 229999>>, <<"MacBookPro14,3", 160600, 229999>>,
      <<"MacBookPro15,1", 179999, 249999>>, <<"MacBookPro15,2", 179999, 249999>>,
      <<"MacBookPro15,3", 180200, 249999>>, <<"MacBookPro15,4", 180600, 249999>>,
      <<"MacBookPro16,1", 190000, 259999>>, <<"MacBookPro16,2", 190400, 259999>>,
      <<"MacBookPro16,3", 190400, 249999>>, <<"MacBookPro16,4", 190000, 259999>>,
      <<"Macmini5,1", 110000, 179999>>, <<"Macmini5,2", 110000, 179999>>,
      <<"Macmini5,3", 110000, 179999>>, <<"Macmini6,1", 100801, 199999>>,
      <<"Macmini6,2", 100801, 199999>>, <<"Macmini7,1", 140000, 219999>>,
      <<"Macmini8,1", 180000, 249999>>, <<"iMacPro1,1", 170300, 249999>>,
      <<"MacPro5,1", 100400, 189999>>, <<"MacPro6,1", 130000, 219999>>,
      <<"MacPro7,1", 190000, 259999>>>>

MacModels == {MacDevices[i][1] : i \in 1 .. Len(MacDevices)}
MacModelSlice(from, to) == {device[1] : device \in Slice(MacDevices, from, to)}
MacPros == {"MacPro5,1", "MacPro6,1", "MacPro7,1"}

InitialSupport(model) == (CHOOSE d \in Slice(MacDevices, 0, Len(MacDevices)) : d[1] = model)[2]
LastSupported(model) == (CHOOSE d \in Slice(MacDevices, 0, Len(MacDevices)) : d[1] = model)[3]

RunsOn(model, version) == InitialSupport(model) <= version /\ version <= LastSupported(model)
=============================================================================
