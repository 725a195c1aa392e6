----------------------------- MODULE KextLoading -----------------------------
(***************************************************************************)
(* KextMaestro from the checked kexts to Kernel -> Add of config.plist:    *)
(* which bundles are copied into the EFI, which of them are left out or    *)
(* disabled, and the order and kernel versions of the others.              *)
(*                                                                         *)
(* Bundles is what the downloads hold, which is not in the repository: the *)
(* bundles in the order of their paths, each with the kext it comes with   *)
(* (itself or the one it is a plug-in of), the directory of the download,  *)
(* its CFBundleIdentifier and its OSBundleLibraries.                       *)
(***************************************************************************)
EXTENDS KextRules, TLC

CONSTANTS
    Bundles,  \* what the downloads hold
    MaxLinks  \* bound on how many bundles link one to the next

LinksTo(bundle, other) == other.identifier \in ToSet(bundle.libraries)

\* The bundles all of whose links end within a number of steps.
Settled ==
    LET settled[n \in 0 .. MaxLinks] ==
            IF n = 0 THEN {}
            ELSE LET before == settled[n - 1]
                 IN  {b \in ToSet(Bundles) :
                         \A other \in ToSet(Bundles) : LinksTo(b, other) => other \in before}
    IN  settled

\* The release of AirportItlwm that is looked for in the paths.
ItlwmRelease(checked, version) ==
    CASE {"IOSkywalkFamily", "IO80211FamilyLegacy"} \subseteq checked \/ version >= Darwin(24, 0, 0) -> 220000
      [] OTHER -> CASE version >= Darwin(23, 4, 0) -> 230400
                    [] version < Darwin(23, 4, 0) /\ version >= Darwin(23, 0, 0) -> 230000
                    [] OTHER -> 10000 * Major(version)

\* install_kexts_to_efi: a kext is looked for in the directories of kexts that are
\* checked and of downloads that are not kexts; Lilu, at index 0, counts as the latter.
InstallKexts(checked, version) ==
    LET Found(b) == IF b.kext = "AirportItlwm" THEN b.release = ItlwmRelease(checked, version)
                    ELSE b.directory \in AllKexts \ {FirstKext} => b.directory \in checked
    IN  Those(Bundles, {b \in ToSet(Bundles) : b.kext \in checked /\ Found(b)})

\* The bundles of which another one takes the place.
Unloaded(checked) ==
    CASE "IO80211ElCap" \in checked -> {"AirPortBrcm4331", "AppleAirPortBrcm43224"}
      [] "IO80211ElCap" \notin checked /\ "VoodooSMBus" \in checked -> {"VoodooPS2Mouse"}
      [] {"IO80211ElCap", "VoodooSMBus"} \cap checked = {} /\ "VoodooRMI" \in checked ->
           IF "VoodooI2C" \in checked THEN {"VoodooSMBus", "RMISMBus", "VoodooI2CHID"} ELSE {"RMII2C"}
      [] OTHER -> {}

\* The kexts that Unloaded looks at.
Replacing == {"IO80211ElCap", "VoodooSMBus", "VoodooRMI", "VoodooI2C"}

\* No bundle has the path of another one, none links to itself, however many steps the
\* links take, and what links to an unloaded bundle is unloaded with it.
ASSUME BundleAssumption ==
    /\ MaxLinks \in Nat /\ Bundles \in Seq(ToSet(Bundles)) /\ Settled[MaxLinks] = ToSet(Bundles)
    /\ \A i \in 1 .. Len(Bundles) :
          /\ Bundles[i].kext \in AllKexts /\ Bundles[i].libraries \in Seq(STRING)
          /\ \A j \in 1 .. Len(Bundles) : Bundles[i].path = Bundles[j].path => i = j
    /\ \A checked \in SUBSET Replacing : \A b, other \in ToSet(Bundles) :
          LinksTo(b, other) /\ other.name \in Unloaded(checked) => b.name \in Unloaded(checked)

\* Of the bundles with one identifier, bundle_dict has the last.
Provider(installed, identifier) ==
    LET with == {i \in 1 .. Len(installed) : installed[i].identifier = identifier}
    IN  CHOOSE i \in with : \A j \in with : j <= i

Dependencies(bundle, installed) == Those(bundle.libraries, {b.identifier : b \in ToSet(installed)})

\* A plug-in that is not a kext of the dataset, and Lilu at index 0, run everywhere.
DataRange(name) ==
    IF name \in AllKexts \ {FirstKext} THEN <<KextInfo[name].min, KextInfo[name].max>>
    ELSE <<LowestDarwin, LatestDarwin>>

InMajor(version, major) == 10000 * major + (version % 10000)

\* What the loop leaves two bundles that are bound to the kernel of one macOS version.
Bound(name, range, version) ==
    CASE name = "AirPortBrcm4360_Injector" -> <<range[1], Darwin(19, 99, 99)>>
      [] name = "AirportItlwm" ->
           <<InMajor(range[1], Major(version)), InMajor(range[2], Major(version))>>
      [] OTHER -> range

\* Variant: the bundles are listed as they are found.
LoadOrderAsFound(installed, unloaded) == [i \in 1 .. Len(installed) |-> i]

\* visit: the order of the bundles, in which what one depends on comes before it.  The
\* calls of visit go no deeper than the links.
Visit(installed, unloaded) ==
    LET places == 1 .. Len(installed)
        visit[depth \in 0 .. MaxLinks] ==
            [b \in places |-> [sorted \in Seq(places) |->
                LET needs == Dependencies(installed[b], installed)
                    Needed == [before \in Seq(places) |-> [id \in ToSet(needs) |->
                                  visit[depth - 1][Provider(installed, id)][before]]]
                IN  IF depth = 0 \/ installed[b].name \in unloaded \/ b \in ToSet(sorted) THEN sorted
                    ELSE Append(Folded(Needed, sorted, needs), b)]]
    IN  visit

LoadOrder(installed, unloaded) ==
    LET places == 1 .. Len(installed)
    IN  Folded([sorted \in Seq(places) |-> [b \in places |->
                   Visit(installed, unloaded)[MaxLinks][b][sorted]]],
               <<>>, [b \in places |-> b])

\* load_kexts: Kernel -> Add.  Of two bundles with one identifier the second is disabled.
LoadKexts(checked, version) ==
    LET installed == InstallKexts(checked, version)
        order == LoadOrder(installed, Unloaded(checked))
        Libraries(i) == Dependencies(installed[order[i]], installed)
        range[i \in 1 .. Len(order)] ==
            LET name == installed[order[i]].name
                needed == {Provider(installed, id) : id \in ToSet(Libraries(i))}
                ranges == {DataRange(name)} \cup {range[j] : j \in {k \in 1 .. i - 1 : order[k] \in needed}}
            IN  Bound(name, <<Max({r[1] : r \in ranges}), Min({r[2] : r \in ranges})>>, version)
    IN  [i \in 1 .. Len(order) |->
            LET bundle == installed[order[i]]
            IN  [at |-> order[i], name |-> bundle.name, identifier |-> bundle.identifier,
                 libraries |-> Libraries(i), range |-> range[i],
                 enabled |-> \A j \in 1 .. i - 1 : installed[order[j]].identifier # bundle.identifier]]
=============================================================================
