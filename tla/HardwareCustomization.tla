------------------------ MODULE HardwareCustomization ------------------------
(***************************************************************************)
(* HardwareCustomizer: which devices of a report an EFI for one macOS      *)
(* version keeps, which are disabled, and what the user chooses between.   *)
(***************************************************************************)
EXTENDS Compatibility

\* What happens to a device before the user chooses.  parse_darwin_version(None)
\* raises for an unsupported one, and only that disables it: a device that another
\* version would support is dropped, neither kept nor disabled.
Fate(device, check, version) ==
    LET compat == check.compat[device]
        oclp == check.oclp[device]
    IN  CASE oclp # Absent /\ InRange(version, oclp) -> "patched"
          [] ~(oclp # Absent /\ InRange(version, oclp)) ->
             CASE compat = Unsupported -> "disabled"
               [] compat = Absent \/ (compat # Unsupported /\ InRange(version, compat)) -> "kept"
               [] OTHER -> "dropped"

\* _get_compatible_devices: what is left of one kind, wireless cards only.
CompatibleDevices(devices, check, version) ==
    Those(devices, {d \in ToSet(devices) : /\ Fate(d.name, check, version) \in {"kept", "patched"}
                                           /\ d.kind = "Network" => d.id \in WirelessCardIDs})

\* Variant: the cards are offered together.
AllGpusTogether(cards) == {1 .. Len(cards)}

\* Variant: Intel cards are in no group.
GpusWithoutIntel(cards) == {{i \in 1 .. Len(cards) : cards[i].maker # "Intel"}}

\* The groups of _handle_device_selection, by position.  `if _apu_index` is false of
\* the position 0 too, so an APU listed first is in no group.
GpuGroups(cards) ==
    LET amd == {i \in 1 .. Len(cards) : cards[i].maker = "AMD"}
        apu == {i \in amd : cards[i].integrated}
        navi == {i \in amd \ apu : cards[i].codename \in Navi1 \cup Navi2}
        navi22 == {i \in navi : cards[i].codename = "Navi 22"}
        intel == {i \in 1 .. Len(cards) : cards[i].maker = "Intel"}
        others == (1 .. Len(cards)) \ (apu \cup navi \cup intel)
    IN  {group \in {IF apu \ {1} = {} THEN {} ELSE (apu \ {1}) \cup others,
                    IF navi22 = {} THEN {} ELSE navi22 \cup others,
                    (navi \ navi22) \cup intel \cup others} : group # {}}

\* _select_device: a card that needs OCLP is offered alone only.
GpuCombinations(cards, check, version) ==
    {combo \in UNION {SUBSET group : group \in GpuGroups(cards)} :
        /\ combo # {}
        /\ Cardinality(combo) > 1 =>
             \A i \in combo : Fate(cards[i].name, check, version) # "patched"}

NamesAt(devices, positions) == {devices[i].name : i \in positions}

\* What the user can select of one kind; one device needs no selection.
Selections(kind, devices, check, version) ==
    LET compatible == CompatibleDevices(devices, check, version)
    IN  CASE Len(compatible) <= 1 -> {NamesAt(compatible, 1 .. Len(compatible))}
          [] Len(compatible) > 1 /\ kind = "GPU" ->
               {NamesAt(compatible, combo) : combo \in GpuCombinations(compatible, check, version)}
          [] OTHER -> {{compatible[i].name} : i \in 1 .. Len(compatible)}

\* hardware_customization: every outcome the user can choose, and the firmware to
\* build for, which is asked unless it is UEFI already.  needs_oclp looks at what was
\* patched before the selection.
Customizations(report, check, version) ==
    LET Left(devices) == NamesAt(CompatibleDevices(devices, check, version),
                                 1 .. Len(CompatibleDevices(devices, check, version)))
        choosable == Left(report.gpus) \cup Left(report.network) \cup Left(report.bluetooth)
        With(fate) == {n \in Devices(report) : Fate(n, check, version) = fate}
        staying == (With("kept") \cup With("patched")) \ choosable
        Kept(chosen) == staying \cup chosen.gpu \cup chosen.wifi \cup chosen.bluetooth
    IN  {[kept |-> Kept(chosen),
          disabled |-> With("disabled") \cup (choosable \ Kept(chosen)),
          patched |-> With("patched") \cap Kept(chosen),
          oclp |-> With("patched") # {},
          uefi |-> chosen.uefi] :
            chosen \in [gpu : Selections("GPU", report.gpus, check, version),
                        wifi : Selections("WiFi", report.network, check, version),
                        bluetooth : Selections("Bluetooth", report.bluetooth, check, version),
                        uefi : IF report.uefi THEN {TRUE} ELSE BOOLEAN]}

\* The customized report, "the machine" of the modules that go on from it: the kept
\* devices, the firmware to build for and which devices keep their OCLP compatibility.
Customized(report, choice) ==
    LET Kept(devices) == Those(devices, {d \in ToSet(devices) : d.name \in choice.kept})
    IN  [report EXCEPT !.gpus = Kept(@), !.sound = Kept(@), !.biometric = Kept(@),
                       !.network = Kept(@), !.storage = Kept(@), !.bluetooth = Kept(@),
                       !.sd = Kept(@), !.uefi = choice.uefi, !.patched = choice.patched]

DisabledDevices(report, choice) ==
    {d \in ToSet(report.gpus \o Sections(report)) : d.name \in choice.disabled}
=============================================================================
