------------------------------ MODULE EfiProofs ------------------------------
(***************************************************************************)
(* Lemmas about what the parts of an EFI are made of: the properties and   *)
(* boot arguments of config.plist.                                         *)
(***************************************************************************)
EXTENDS MainMenu, FoldingProofs, FiniteSetTheorems

-----------------------------------------------------------------------------
(* The keys that deviceproperties writes itself: no property of a card or  *)
(* of a device on the network has one of them.                             *)

OwnKeys == {"layout-id", "disable-gpu"}

Lacks(own, properties) == own \notin DOMAIN properties

LEMMA LacksKey ==
    ASSUME NEW own, NEW key, NEW value, key # own
    PROVE  Lacks(own, Key(key, value))
  BY DEF Lacks, Key

LEMMA LacksMerged ==
    ASSUME NEW own, NEW f, NEW g, Lacks(own, f), Lacks(own, g)
    PROVE  Lacks(own, f ++ g)
  BY DEF Lacks, ++

LEMMA LacksOn ==
    ASSUME NEW own, NEW keys, own \notin keys
    PROVE  Lacks(own, On(keys))
  BY DEF Lacks, On

LEMMA LacksEmpty == \A own : Lacks(own, <<>>)
  BY DEF Lacks

LEMMA LacksBy ==
    ASSUME NEW own, NEW p, NEW f, NEW g, NEW h, Lacks(own, f), Lacks(own, g), Lacks(own, h)
    PROVE  Lacks(own, By(p, f, g, h))
  BY DEF By

LEMMA LacksBlocks ==
    ASSUME NEW own \in OwnKeys
    PROVE  /\ \A id : Lacks(own, Platformed(id))
           /\ Lacks(own, StolenMemory) /\ Lacks(own, Memory) /\ Lacks(own, CursorMemory)
           /\ \A gpu, family : Lacks(own, DeviceId(gpu, family))
           /\ \A gpu, family, machine : Lacks(own, Headless(gpu, family, machine))
  <1>1. \A id : Lacks(own, Platformed(id))
    BY LacksKey DEF Platformed, OwnKeys
  <1>2. Lacks(own, StolenMemory) /\ Lacks(own, CursorMemory)
    BY LacksKey DEF StolenMemory, CursorMemory, OwnKeys
  <1>3. Lacks(own, Memory)
    BY <1>2, LacksKey, LacksMerged DEF Memory, OwnKeys
  <1>4. \A gpu, family : Lacks(own, DeviceId(gpu, family))
    BY LacksKey, LacksEmpty DEF DeviceId, OwnKeys
  <1>5. \A gpu, family, machine : Lacks(own, Headless(gpu, family, machine))
    BY <1>1, LacksEmpty DEF Headless
  <1>6. QED BY <1>1, <1>2, <1>3, <1>4, <1>5

LEMMA LacksFamily ==
    ASSUME NEW own \in OwnKeys, NEW gpu, NEW family, NEW machine, NEW version
    PROVE  Lacks(own, FamilyProperties(gpu, family, machine, version))
  <1>1. Lacks(own, SandyBridgeProperties(gpu, machine))
    BY LacksKey, LacksMerged, LacksOn, LacksEmpty, LacksBy DEF SandyBridgeProperties, OwnKeys
  <1>2. Lacks(own, IvyBridgeProperties(machine))
    <2>1. Lacks(own, [k \in {"framebuffer-memorycount", "framebuffer-pipecount"} |-> "02000000"])
      BY DEF Lacks, OwnKeys
    <2>2. QED
      BY <2>1, LacksKey, LacksMerged, LacksOn, LacksBlocks, LacksBy
      DEF IvyBridgeProperties, OwnKeys
  <1>3. Lacks(own, KabyLakeLaptop(gpu))
    BY LacksMerged, LacksOn, LacksBlocks DEF KabyLakeLaptop, OwnKeys
  <1>4. QED
    BY <1>1, <1>2, <1>3, LacksMerged, LacksOn, LacksEmpty, LacksBlocks, LacksBy
    DEF FamilyProperties, OwnKeys

LEMMA LacksIgpu ==
    ASSUME NEW own \in OwnKeys, NEW gpu, NEW machine, NEW version
    PROVE  Lacks(own, IgpuProperties(gpu, machine, version))
  <1>1. \A f, keys : Lacks(own, f) => Lacks(own, Without(f, keys))
    BY DEF Lacks, Without
  <1>2. QED
    BY <1>1, LacksFamily, LacksMerged, LacksOn, LacksEmpty, LacksBlocks
    DEF IgpuProperties, OwnKeys

\* The triples of DeviceProperties -> Add.
LacksIn(own, triples) == \A p \in triples : p[2] # own

LEMMA LacksTriples ==
    ASSUME NEW own
    PROVE  /\ LacksIn(own, {})
           /\ \A d, k, v : k # own => LacksIn(own, {<<d, k, v>>})
           /\ \A d, k, v, e, l, w : k # own /\ l # own => LacksIn(own, {<<d, k, v>>, <<e, l, w>>})
           /\ \A S, T : LacksIn(own, S) /\ LacksIn(own, T) => LacksIn(own, S \cup T)
           /\ \A d, f : Lacks(own, f) => LacksIn(own, Triples(d, f))
  BY DEF LacksIn, Lacks, Triples

LEMMA LacksDevices ==
    ASSUME NEW own \in OwnKeys, NEW device, NEW machine, NEW version, NEW checked
    PROVE  /\ LacksIn(own, GraphicsProperties(device, machine, version))
           /\ LacksIn(own, NetworkProperties(device, version, checked))
           /\ LacksIn(own, BuiltIn(device))
  <1>0. own \notin {"device-id", "model", "IOName", "built-in"}
    BY DEF OwnKeys
  <1>1. LacksIn(own, Triples(device.name, IgpuProperties(device, machine, version)))
    BY LacksIgpu, LacksTriples
  <1>2. LacksIn(own, GraphicsProperties(device, machine, version))
    <2>1. /\ LacksIn(own, {<<"IMEI", "device-id", "3A1C0000">>})
          /\ LacksIn(own, {<<"IMEI", "device-id", "3A1E0000">>})
          /\ LacksIn(own, {<<device.name, "device-id", "spoofed">>, <<device.name, "model", device.name>>})
      BY <1>0, LacksTriples
    <2>2. QED BY <1>1, <2>1, LacksTriples DEF GraphicsProperties
  <1>3. LacksIn(own, NetworkProperties(device, version, checked))
    <2>1. /\ \A name, id : LacksIn(own, {<<device.name, "IOName", name>>, <<device.name, "device-id", id>>})
          /\ \A name : LacksIn(own, {<<device.name, "IOName", name>>})
      BY <1>0, LacksTriples
    <2>2. QED BY <2>1, LacksTriples DEF NetworkProperties
  <1>4. LacksIn(own, BuiltIn(device))
    BY <1>0, LacksTriples DEF BuiltIn
  <1>5. QED BY <1>2, <1>3, <1>4

\* What is left: the layout of the audio controller and the cards without an SSDT.
LayoutTriples(machine, checked) ==
    IF /\ "AppleALC" \in checked /\ AsksLayout(machine, {}, TRUE)
       /\ LayoutDevice(machine).controller = "with path"
    THEN {<<"Audio controller", "layout-id", "chosen">>} ELSE {}

OffTriples(disabled, flagged) ==
    {<<d.name, "disable-gpu", "TRUE">> :
        d \in {x \in disabled : x.kind = "GPU" /\ x.bus = "PCI" /\ x.name \notin flagged}}

LEMMA OwnTriples ==
    ASSUME NEW machine, NEW disabled, NEW flagged, NEW version, NEW checked, NEW p, p[2] \in OwnKeys
    PROVE  p \in DeviceProperties(machine, disabled, flagged, version, checked)
             <=> p \in LayoutTriples(machine, checked) \cup OffTriples(disabled, flagged)
  <1> DEFINE graphics == IF "WhateverGreen" \notin checked THEN {}
                         ELSE UNION {GraphicsProperties(g, machine, version) : g \in ToSet(machine.gpus)}
             network == UNION {NetworkProperties(d, version, checked) \cup BuiltIn(d) :
                                 d \in {x \in ToSet(machine.network) : x.bus = "PCI"}}
             storage == UNION {BuiltIn(d) : d \in {x \in ToSet(machine.storage) : x.bus = "PCI"}}
  <1>1. DeviceProperties(machine, disabled, flagged, version, checked)
          = graphics \cup LayoutTriples(machine, checked) \cup network \cup storage
            \cup OffTriples(disabled, flagged)
    BY DEF DeviceProperties, LayoutTriples, OffTriples
  <1>2. \A own \in OwnKeys : LacksIn(own, graphics) /\ LacksIn(own, network) /\ LacksIn(own, storage)
    <2> SUFFICES ASSUME NEW own \in OwnKeys
                 PROVE  LacksIn(own, graphics) /\ LacksIn(own, network) /\ LacksIn(own, storage)
      OBVIOUS
    <2>1. \A g : LacksIn(own, GraphicsProperties(g, machine, version))
      BY LacksDevices
    <2>2. \A d : LacksIn(own, NetworkProperties(d, version, checked) \cup BuiltIn(d))
      BY LacksDevices, LacksTriples
    <2>3. \A d : LacksIn(own, BuiltIn(d))
      BY LacksDevices
    <2>4. QED BY <2>1, <2>2, <2>3 DEF LacksIn
  <1> HIDE DEF graphics, network, storage
  <1>3. QED BY <1>1, <1>2 DEF LacksIn

\* The property is written exactly when the controller of the codec is on a PCI path.
LEMMA LayoutProperty ==
    ASSUME NEW machine, NEW disabled, NEW flagged, NEW version, NEW checked
    PROVE  (\E p \in DeviceProperties(machine, disabled, flagged, version, checked) : p[2] = "layout-id")
             <=> /\ "AppleALC" \in checked /\ UsesCodec(machine)
                 /\ LayoutDevice(machine).controller = "with path"
  <1>1. \A p : p[2] = "layout-id" =>
          (p \in DeviceProperties(machine, disabled, flagged, version, checked)
             <=> p \in LayoutTriples(machine, checked) \cup OffTriples(disabled, flagged))
    BY OwnTriples DEF OwnKeys
  <1>2. \A p \in OffTriples(disabled, flagged) : p[2] # "layout-id"
    BY DEF OffTriples
  <1>3. (\E p \in LayoutTriples(machine, checked) : p[2] = "layout-id")
          <=> /\ "AppleALC" \in checked /\ UsesCodec(machine)
              /\ LayoutDevice(machine).controller = "with path"
    BY DEF LayoutTriples, AsksLayout
  <1>4. QED BY <1>1, <1>2, <1>3

\* A disabled card gets the property unless it is marked.
LEMMA OffProperty ==
    ASSUME NEW machine, NEW disabled, NEW flagged, NEW version, NEW checked,
           NEW d \in disabled, d.kind = "GPU", d.bus = "PCI"
    PROVE  <<d.name, "disable-gpu", "TRUE">> \in DeviceProperties(machine, disabled, flagged, version, checked)
             <=> d.name \notin flagged
  <1> DEFINE p == <<d.name, "disable-gpu", "TRUE">>
  <1>1. p[1] = d.name /\ p[2] = "disable-gpu"
    OBVIOUS
  <1>2. p \notin LayoutTriples(machine, checked)
    BY <1>1 DEF LayoutTriples
  <1>3. p \in OffTriples(disabled, flagged) <=> d.name \notin flagged
    <2>1. ASSUME NEW x, p = <<x.name, "disable-gpu", "TRUE">>
          PROVE  x.name = d.name
      BY <2>1
    <2>2. QED BY <2>1 DEF OffTriples
  <1> HIDE DEF p
  <1>4. p \in DeviceProperties(machine, disabled, flagged, version, checked)
          <=> p \in LayoutTriples(machine, checked) \cup OffTriples(disabled, flagged)
    BY <1>1, OwnTriples DEF OwnKeys
  <1>5. QED BY <1>2, <1>3, <1>4 DEF p

LEMMA LayoutArgument ==
    ASSUME NEW machine, NEW version, NEW oclp, NEW checked, NEW properties
    PROVE  "alcid" \in BootArgs(machine, version, oclp, checked, properties)
             <=> /\ "AppleALC" \in checked /\ UsesCodec(machine)
                 /\ ~\E p \in properties : p[2] = "layout-id"
  <1>1. \A gpu : "alcid" \notin IntegratedArgs(gpu, machine, version)
    BY DEF IntegratedArgs
  <1>2. \A gpu : "alcid" \notin DiscreteArgs(gpu, machine, version)
    BY DEF DiscreteArgs
  <1>3. "alcid" \notin GraphicsArgs(machine, version)
    BY <1>1, <1>2 DEF GraphicsArgs
  <1>4. QED
    BY <1>3 DEF BootArgs, AsksLayout

-----------------------------------------------------------------------------
(* The order of the renames.                                               *)

\* Each number up to the size of a set is the rank of a member, and of one only.
LEMMA Ranked ==
    ASSUME NEW S \in SUBSET Nat, IsFiniteSet(S)
    PROVE  /\ Cardinality(S) \in Nat
           /\ \A i, k \in S : i < k => Cardinality({j \in S : j <= i}) < Cardinality({j \in S : j <= k})
           /\ \A n \in 1 .. Cardinality(S) : \E i \in S : Cardinality({j \in S : j <= i}) = n
           /\ \A i \in S : Cardinality({j \in S : j <= i}) \in 1 .. Cardinality(S)
  <1> DEFINE Below(i) == {j \in S : j <= i}
             rank == [i \in S |-> Cardinality(Below(i))]
  <1>1. Cardinality(S) \in Nat
    BY FS_CardinalityType
  <1>2. \A i : IsFiniteSet(Below(i)) /\ Cardinality(Below(i)) \in Nat /\ Cardinality(Below(i)) <= Cardinality(S)
    <2>1. \A i : Below(i) \in SUBSET S
      OBVIOUS
    <2>2. \A i : IsFiniteSet(Below(i)) /\ Cardinality(Below(i)) <= Cardinality(S)
      BY <2>1, FS_Subset
    <2>3. QED BY <2>2, FS_CardinalityType
  <1>3. \A i \in S : Cardinality(Below(i)) # 0
    <2>1. \A i \in S : i \in Below(i)
      OBVIOUS
    <2>2. QED BY <1>2, <2>1, FS_EmptySet
  <1>4. ASSUME NEW i \in S, NEW k \in S, i < k
        PROVE  Cardinality(Below(i)) < Cardinality(Below(k))
    <2>1. Below(i) \in SUBSET Below(k) /\ k \in Below(k) /\ k \notin Below(i)
      <3>1. i \in Nat /\ k \in Nat /\ S \subseteq Nat
        OBVIOUS
      <3>2. \A j \in S : j <= i => j <= k
        BY <3>1, <1>4
      <3>3. k <= k /\ ~(k <= i)
        BY <3>1, <1>4
      <3>4. QED BY <3>2, <3>3
    <2>2. Cardinality(Below(i)) <= Cardinality(Below(k)) /\ Cardinality(Below(i)) # Cardinality(Below(k))
      <3> HIDE DEF Below
      <3>1. QED BY <2>1, <1>2, FS_Subset
    <2>3. QED BY <2>2, <1>2
  <1> HIDE DEF Below
  <1>5. rank \in [S -> 1 .. Cardinality(S)]
    BY <1>1, <1>2, <1>3
  <1>6. rank \in Injection(S, 1 .. Cardinality(S))
    <2>1. \A i, k \in S : i # k => rank[i] # rank[k]
      <3> SUFFICES ASSUME NEW i \in S, NEW k \in S, i # k
                   PROVE  rank[i] # rank[k]
        OBVIOUS
      <3>1. i < k \/ k < i
        OBVIOUS
      <3>2. QED BY <3>1, <1>4, <1>2
    <2>2. QED BY <1>5, <2>1 DEF Injection, IsInjective
  <1>7. IsFiniteSet(1 .. Cardinality(S)) /\ Cardinality(1 .. Cardinality(S)) = Cardinality(S)
    BY <1>1, FS_Interval
  <1>8. rank \in Surjection(S, 1 .. Cardinality(S))
    BY <1>6, <1>7, FS_Injection
  <1>9. \A n \in 1 .. Cardinality(S) : \E i \in S : Cardinality(Below(i)) = n
    BY <1>8 DEF Surjection
  <1>10. \A i \in S : Cardinality(Below(i)) \in 1 .. Cardinality(S)
    BY <1>5
  <1>11. QED BY <1>1, <1>4, <1>9, <1>10 DEF Below

LEMMA PositionsFinite ==
    ASSUME NEW renames
    PROVE  Positions(renames) \in SUBSET Nat /\ IsFiniteSet(Positions(renames))
  <1>1. Len(CommentOrder) \in Int
    BY DEF CommentOrder
  <1>2. IsFiniteSet(1 .. Len(CommentOrder))
    BY <1>1, FS_Interval
  <1>3. QED BY <1>2, FS_Subset DEF Positions

\* The renames are applied as they come in CommentOrder, each once.
LEMMA RenamesInOrder ==
    ASSUME NEW renames
    PROVE  LET applied == ApplyAcpiPatches(renames)
           IN  /\ DOMAIN applied = 1 .. Cardinality(Positions(renames))
               /\ Len(applied) = Cardinality(Positions(renames)) /\ Len(applied) \in Nat
               /\ \A n \in DOMAIN applied :
                     \E i \in Positions(renames) :
                        applied[n] = CommentOrder[i] /\ Cardinality({j \in Positions(renames) : j <= i}) = n
  <1> DEFINE S == Positions(renames)
             first(n) == CHOOSE i \in S : Cardinality({j \in S : j <= i}) = n
  <1>1. S \in SUBSET Nat /\ IsFiniteSet(S)
    BY PositionsFinite
  <1> HIDE DEF S
  <1>2. /\ Cardinality(S) \in Nat
        /\ \A n \in 1 .. Cardinality(S) : \E i \in S : Cardinality({j \in S : j <= i}) = n
    BY <1>1, Ranked
  <1>3. ApplyAcpiPatches(renames) = [n \in 1 .. Cardinality(S) |-> CommentOrder[first(n)]]
    BY DEF ApplyAcpiPatches, S
  <1>4. \A n \in 1 .. Cardinality(S) : first(n) \in S /\ Cardinality({j \in S : j <= first(n)}) = n
    BY <1>2
  <1> HIDE DEF first
  <1>5. Len(ApplyAcpiPatches(renames)) = Cardinality(S)
    BY <1>2, <1>3
  <1>6. QED BY <1>2, <1>3, <1>4, <1>5 DEF S

\* The place of a rename among the comments is its own.
LEMMA OsiPositions ==
    ASSUME NEW i \in 1 .. Len(CommentOrder)
    PROVE  /\ CommentOrder[i] = OsiRename => i = 32
           /\ CommentOrder[i] \in {OsiFirst("OSID"), OsiFirst("OSIF")} => i < 32
  <1>1. i \in Int /\ 1 <= i /\ i <= 32
    BY DEF CommentOrder
  <1>2. CommentOrder[32] = OsiRename
    BY DEF CommentOrder
  <1>3. OsiRename # OsiFirst("OSID") /\ OsiRename # OsiFirst("OSIF")
    BY DEF OsiRename, OsiFirst
  <1>4. i # 32 => CommentOrder[i] # OsiRename
    <2>1. i # 32 => CommentOrder[i][1] # "_OSI"
      <3>1. /\ CommentOrder[1][1] # "_OSI" /\ CommentOrder[2][1] # "_OSI" /\ CommentOrder[3][1] # "_OSI"
            /\ CommentOrder[4][1] # "_OSI" /\ CommentOrder[5][1] # "_OSI" /\ CommentOrder[6][1] # "_OSI"
            /\ CommentOrder[7][1] # "_OSI" /\ CommentOrder[8][1] # "_OSI" /\ CommentOrder[9][1] # "_OSI"
            /\ CommentOrder[10][1] # "_OSI" /\ CommentOrder[11][1] # "_OSI"
        BY DEF CommentOrder, OsiFirst, StaRename, CrsRename, EcFirst
      <3>2. /\ CommentOrder[12][1] # "_OSI" /\ CommentOrder[13][1] # "_OSI" /\ CommentOrder[14][1] # "_OSI"
            /\ CommentOrder[15][1] # "_OSI" /\ CommentOrder[16][1] # "_OSI" /\ CommentOrder[17][1] # "_OSI"
            /\ CommentOrder[18][1] # "_OSI" /\ CommentOrder[19][1] # "_OSI" /\ CommentOrder[20][1] # "_OSI"
            /\ CommentOrder[21][1] # "_OSI"
        BY DEF CommentOrder, OsiFirst, StaRename, CrsRename, EcFirst
      <3>3. /\ CommentOrder[22][1] # "_OSI" /\ CommentOrder[23][1] # "_OSI" /\ CommentOrder[24][1] # "_OSI"
            /\ CommentOrder[25][1] # "_OSI" /\ CommentOrder[26][1] # "_OSI" /\ CommentOrder[27][1] # "_OSI"
            /\ CommentOrder[28][1] # "_OSI" /\ CommentOrder[29][1] # "_OSI" /\ CommentOrder[30][1] # "_OSI"
            /\ CommentOrder[31][1] # "_OSI"
        BY DEF CommentOrder, OsiFirst, StaRename, CrsRename, EcFirst
      <3>4. i # 32 => i \in {1, 2, 3, 4, 5, 6, 7, 8, 9, 10, 11, 12, 13, 14, 15, 16,
                               17, 18, 19, 20, 21, 22, 23, 24, 25, 26, 27, 28, 29, 30, 31}
        BY <1>1
      <3>5. QED BY <3>1, <3>2, <3>3, <3>4
    <2>2. OsiRename[1] = "_OSI"
      BY DEF OsiRename
    <2>3. QED BY <2>1, <2>2
  <1>5. QED BY <1>1, <1>2, <1>3, <1>4

\* A rename of another method that holds the name of _OSI is applied before that of _OSI.
LEMMA OsiLast ==
    ASSUME NEW renames, NEW first \in {OsiFirst("OSID"), OsiFirst("OSIF")},
           NEW p \in DOMAIN ApplyAcpiPatches(renames), NEW q \in DOMAIN ApplyAcpiPatches(renames),
           ApplyAcpiPatches(renames)[p] = first, ApplyAcpiPatches(renames)[q] = OsiRename
    PROVE  p < q
  <1> DEFINE S == Positions(renames)
  <1>1. S \in SUBSET Nat /\ IsFiniteSet(S) /\ S \subseteq 1 .. Len(CommentOrder)
    BY PositionsFinite DEF Positions
  <1> HIDE DEF S
  <1>0. \A n \in DOMAIN ApplyAcpiPatches(renames) :
           \E i \in S : ApplyAcpiPatches(renames)[n] = CommentOrder[i] /\ Cardinality({j \in S : j <= i}) = n
    BY RenamesInOrder DEF S
  <1>2. PICK i \in S : first = CommentOrder[i] /\ Cardinality({j \in S : j <= i}) = p
    BY <1>0
  <1>3. PICK k \in S : OsiRename = CommentOrder[k] /\ Cardinality({j \in S : j <= k}) = q
    BY <1>0
  <1>4. i < k
    BY <1>1, <1>2, <1>3, OsiPositions
  <1>5. \A m, n \in S : m < n => Cardinality({j \in S : j <= m}) < Cardinality({j \in S : j <= n})
    BY <1>1, Ranked
  <1>6. QED BY <1>2, <1>3, <1>4, <1>5

-----------------------------------------------------------------------------
(* The renames of the clocks are those of one patch.                       *)

\* The renames are of other devices than the clocks.
Elsewhere(renames) == \A r \in renames : r[1] \notin {"AWAC", "RTC"}

LEMMA ElsewhereRenames ==
    /\ Elsewhere({})
    /\ \A d, what : d \notin {"AWAC", "RTC"} => Elsewhere({<<d, what>>})
    /\ \A d, table : d \notin {"AWAC", "RTC"} => Elsewhere(StaRenames(d, table))
    /\ \A S, T : Elsewhere(S) /\ Elsewhere(T) => Elsewhere(S \cup T)
    /\ \A S : (\A T \in S : Elsewhere(T)) => Elsewhere(UNION S)
    /\ \A S : (\A r \in S : Elsewhere({r})) => Elsewhere(S)
    /\ Elsewhere(PrePatches)
  <1>1. ASSUME NEW d, NEW what, d \notin {"AWAC", "RTC"}
        PROVE  Elsewhere({<<d, what>>})
    <2>1. <<d, what>>[1] = d
      OBVIOUS
    <2>2. QED BY <1>1, <2>1 DEF Elsewhere
  <1>2. \A d, table : d \notin {"AWAC", "RTC"} => Elsewhere(StaRenames(d, table))
    <2>1. Elsewhere({})
      BY DEF Elsewhere
    <2>2. QED BY <1>1, <2>1 DEF StaRenames, StaRename
  <1>3. Elsewhere(PrePatches)
    <2>1. /\ <<"GPP7._PRW", "to XPRW">>[1] = "GPP7._PRW" /\ <<"GPP7.UP00", "to UPXX">>[1] = "GPP7.UP00"
          /\ <<"GPP6._PRW", "to XPRW">>[1] = "GPP6._PRW" /\ <<"GPP1.PTXH", "to XTXH">>[1] = "GPP1.PTXH"
      OBVIOUS
    <2>2. QED BY <2>1 DEF Elsewhere, PrePatches
  <1>4. Elsewhere({}) /\ \A S, T : Elsewhere(S) /\ Elsewhere(T) => Elsewhere(S \cup T)
    BY DEF Elsewhere
  <1>5. /\ \A S : (\A T \in S : Elsewhere(T)) => Elsewhere(UNION S)
        /\ \A S : (\A r \in S : Elsewhere({r})) => Elsewhere(S)
    BY DEF Elsewhere
  <1>6. QED BY <1>1, <1>2, <1>3, <1>4, <1>5

\* What an SSDT with renames returns is a record with these renames.
LEMMA ElsewhereResults ==
    /\ Elsewhere(None.patch)
    /\ \A name, renames, guru : Elsewhere(renames) => Elsewhere(Add(name, renames, guru).patch)
    /\ \A add, renames, delete : Elsewhere(renames) => Elsewhere(Result(add, renames, delete).patch)
  BY ElsewhereRenames DEF None, Add, Result

\* The patches that rename nothing, or methods.
LEMMA ElsewhereMethods ==
    ASSUME NEW guru
    PROVE  /\ Elsewhere(FixApicProcessorId(guru).patch)
           /\ Elsewhere(AddSystemManagementBusDevice(guru).patch)
           /\ Elsewhere(DisableUnsupportedDevice(guru).patch)
           /\ Elsewhere(RemoveConditionalScope(guru).patch)
           /\ Elsewhere(FixHp005PostError(guru).patch)
           /\ Elsewhere(AddIntelManagementEngine(guru).patch)
           /\ Elsewhere(AddMemoryControllerDevice(guru).patch)
           /\ Elsewhere(EnableNvramSupport(guru).patch)
           /\ Elsewhere(DropCpuTables(guru).patch)
           /\ Elsewhere(EnableCpuPowerManagement(guru).patch)
           /\ Elsewhere(AddNullEthernetDevice(guru).patch)
           /\ Elsewhere(InstantWakeFix(guru).patch)
           /\ Elsewhere(SurfaceLaptopSpecialPatch(guru).patch)
           /\ Elsewhere(FixUncoreBridge(guru).patch)
           /\ Elsewhere(AddUsbPowerProperties(guru).patch)
           /\ Elsewhere(ReturnThermalZone(guru).patch)
           /\ Elsewhere(OperatingSystemPatch(guru).patch)
  <1>1. Elsewhere(DisableUnsupportedDevice(guru).patch) /\ Elsewhere(DropCpuTables(guru).patch)
    BY ElsewhereRenames, ElsewhereResults DEF DisableUnsupportedDevice, DropCpuTables
  <1>2. /\ Elsewhere(RemoveConditionalScope(guru).patch)
        /\ Elsewhere(FixHp005PostError(guru).patch)
    <2>1. Elsewhere({<<"Remove", "conditional scope">>}) /\ Elsewhere({<<"Fix HP", "005 post error">>})
      BY ElsewhereRenames
    <2>2. QED BY <2>1, ElsewhereRenames, ElsewhereResults DEF RemoveConditionalScope, FixHp005PostError
  <1>3. /\ Elsewhere(FixApicProcessorId(guru).patch)
        /\ Elsewhere(AddSystemManagementBusDevice(guru).patch)
        /\ Elsewhere(AddIntelManagementEngine(guru).patch)
        /\ Elsewhere(AddMemoryControllerDevice(guru).patch)
        /\ Elsewhere(EnableNvramSupport(guru).patch)
        /\ Elsewhere(EnableCpuPowerManagement(guru).patch)
        /\ Elsewhere(AddNullEthernetDevice(guru).patch)
        /\ Elsewhere(SurfaceLaptopSpecialPatch(guru).patch)
        /\ Elsewhere(FixUncoreBridge(guru).patch)
        /\ Elsewhere(AddUsbPowerProperties(guru).patch)
    BY ElsewhereRenames, ElsewhereResults
    DEF FixApicProcessorId, AddSystemManagementBusDevice, AddIntelManagementEngine,
        AddMemoryControllerDevice, EnableNvramSupport, EnableCpuPowerManagement, AddNullEthernetDevice,
        SurfaceLaptopSpecialPatch, FixUncoreBridge, AddUsbPowerProperties
  <1>4. Elsewhere(InstantWakeFix(guru).patch)
    <2>1. Elsewhere({<<"GPRW", "to XPRW">>}) /\ Elsewhere({<<"UPRW", "to XPRW">>})
      BY ElsewhereRenames
    <2>2. ASSUME NEW found
          PROVE  Elsewhere({<<m, "to XPRW">> : m \in found \cap {"GPRW", "UPRW"}})
      BY <2>1, ElsewhereRenames
    <2>3. QED BY <2>2, ElsewhereResults DEF InstantWakeFix
  <1>5. Elsewhere(ReturnThermalZone(guru).patch)
    <2>1. Elsewhere({<<"WQBI", "to XQBI">>})
      BY ElsewhereRenames
    <2>2. QED BY <2>1, ElsewhereResults DEF ReturnThermalZone
  <1>6. Elsewhere(OperatingSystemPatch(guru).patch)
    <2>1. Elsewhere({OsiRename}) /\ Elsewhere({OsiFirst("OSID")}) /\ Elsewhere({OsiFirst("OSIF")})
      BY ElsewhereRenames DEF OsiRename, OsiFirst
    <2>2. QED BY <2>1, ElsewhereRenames, ElsewhereResults DEF OperatingSystemPatch
  <1>7. QED BY <1>1, <1>2, <1>3, <1>4, <1>5, <1>6

\* The patches that rename the objects of devices of their own.
LEMMA ElsewhereDevices ==
    ASSUME NEW guru
    PROVE  /\ Elsewhere(AmbientLightSensor(guru).patch)
           /\ Elsewhere(EnableGpioDevice(guru).patch)
           /\ Elsewhere(FixIrqConflicts(guru).patch)
           /\ Elsewhere(FixSystemClockHedt(guru).patch)
           /\ Elsewhere(FakeEmbeddedController(guru).patch)
           /\ Elsewhere(EnableBacklightControls(guru).patch)
           /\ Elsewhere(DisableUsbHubDevices(guru).patch)
  <1>1. Elsewhere(AmbientLightSensor(guru).patch) /\ Elsewhere(EnableGpioDevice(guru).patch)
    <2>1. \A table : Elsewhere(StaRenames("ALSD", table)) /\ Elsewhere(StaRenames("GPI0", table))
      BY ElsewhereRenames
    <2>2. QED BY <2>1, ElsewhereRenames, ElsewhereResults DEF AmbientLightSensor, EnableGpioDevice
  <1>2. Elsewhere(FixIrqConflicts(guru).patch)
    <2>1. Elsewhere({<<"TMR", "IRQ 0">>}) /\ Elsewhere({<<"Generic", "IRQ">>})
      BY ElsewhereRenames
    <2>2. \A table : Elsewhere(IrqRenames(table))
      BY <2>1, ElsewhereRenames DEF IrqRenames
    <2>3. Elsewhere({CrsRename("HPET")}) /\ \A table : Elsewhere(StaRenames("HPET", table))
      BY ElsewhereRenames DEF CrsRename
    <2>4. QED BY Zenon, <2>2, <2>3, ElsewhereRenames, ElsewhereResults DEF FixIrqConflicts
  <1>3. Elsewhere(FixSystemClockHedt(guru).patch)
    <2>1. Elsewhere({StaRename("RTC_")})
      BY ElsewhereRenames DEF StaRename
    <2>2. QED BY <2>1, ElsewhereRenames, ElsewhereResults DEF FixSystemClockHedt
  <1>4. Elsewhere(FakeEmbeddedController(guru).patch)
    <2>1. Elsewhere({StaRename("EC")}) /\ Elsewhere({StaRename("H_EC")})
      BY ElsewhereRenames DEF StaRename
    <2>2. Elsewhere({<<"EC", "to EC0">>}) /\ Elsewhere({EcFirst})
      BY ElsewhereRenames DEF EcFirst
    <2>3. Elsewhere(EcRenames(guru))
      BY <2>1, ElsewhereRenames DEF EcRenames, ECNames
    <2>4. QED BY <2>2, <2>3, ElsewhereRenames, ElsewhereResults DEF FakeEmbeddedController
  <1>5. Elsewhere(EnableBacklightControls(guru).patch)
    <2>1. /\ Elsewhere({<<"PNLF", "to XNLF">>}) /\ Elsewhere({<<"NBCF", "0x00 to 0x01">>})
          /\ Elsewhere({<<"NBCF", "Zero to One">>})
      BY ElsewhereRenames
    <2>2. QED BY Zenon, <2>1, ElsewhereRenames, ElsewhereResults DEF EnableBacklightControls
  <1>6. Elsewhere(DisableUsbHubDevices(guru).patch)
    <2>1. \A hub \in UsbHubs : \A table : Elsewhere(StaRenames(hub, table))
      BY ElsewhereRenames DEF UsbHubs
    <2>2. ASSUME NEW table, NEW hubs, hubs \subseteq UsbHubs
          PROVE  Elsewhere(UNION {StaRenames(h, table) : h \in hubs})
      <3>1. \A renames \in {StaRenames(h, table) : h \in hubs} : Elsewhere(renames)
        BY <2>1, <2>2
      <3>2. QED BY <3>1, ElsewhereRenames
    <2>3. Elsewhere(UNION {StaRenames(h, Dsdt(guru)) : h \in UsbHubs \cap Dsdt(guru)})
      BY <2>2
    <2>4. QED BY Zenon, <2>3, ElsewhereResults DEF DisableUsbHubDevices
  <1>7. QED BY <1>1, <1>2, <1>3, <1>4, <1>5, <1>6

\* Only RTCAWAC renames a clock, and with its SSDT.
LEMMA ClockPatch ==
    ASSUME NEW guru, NEW patch \in AllPatches, ~Elsewhere(Apply(patch, guru).patch)
    PROVE  [path |-> <<"SSDT-RTCAWAC">>, enabled |-> TRUE] \in Apply(patch, guru).add
  <1>1. patch = "RTCAWAC"
    BY Zenon, ElsewhereMethods, ElsewhereDevices, ElsewhereResults, ElsewhereRenames DEF Apply, AllPatches
  <1>2. Apply(patch, guru) = FixSystemClockAwac(guru)
    BY Zenon, <1>1 DEF Apply
  <1>3. /\ <<"SSDT-RTCAWAC">> \notin guru.refused
        /\ FixSystemClockAwac(guru) = Add("SSDT-RTCAWAC", ClockRenames(Dsdt(guru)), guru)
    BY <1>2, ElsewhereRenames, ElsewhereResults DEF FixSystemClockAwac
  <1>4. WriteSsdt(<<"SSDT-RTCAWAC">>, guru) = [path |-> <<"SSDT-RTCAWAC">>, enabled |-> TRUE]
    BY <1>3 DEF WriteSsdt
  <1>5. QED BY <1>2, <1>3, <1>4 DEF Add, Result

\* The clocks are not renamed by an ACPI section without that SSDT.
LEMMA ClockSection ==
    ASSUME NEW guru, NEW checked \in SUBSET AllPatches, ~Elsewhere(AcpiSection(guru, checked).renames)
    PROVE  [path |-> <<"SSDT-RTCAWAC">>, enabled |-> TRUE] \in AcpiSection(guru, checked).ssdts
  <1> DEFINE results == {Apply(patch, guru) : patch \in checked}
  <1>1. /\ AcpiSection(guru, checked).renames = UNION {r.patch : r \in results}
        /\ AcpiSection(guru, checked).ssdts = UNION {r.add : r \in results}
    BY DEF AcpiSection
  <1>2. PICK patch \in checked : ~Elsewhere(Apply(patch, guru).patch)
    BY <1>1 DEF Elsewhere
  <1>3. [path |-> <<"SSDT-RTCAWAC">>, enabled |-> TRUE] \in Apply(patch, guru).add
    BY <1>2, ClockPatch
  <1>4. QED BY <1>1, <1>3

LEMMA AppliedRename ==
    ASSUME NEW renames, NEW r \in ToSet(ApplyAcpiPatches(renames))
    PROVE  r \in renames
  <1>1. PICK n \in DOMAIN ApplyAcpiPatches(renames) : r = ApplyAcpiPatches(renames)[n]
    BY DEF ToSet
  <1>2. PICK i \in Positions(renames) : r = CommentOrder[i]
    BY <1>1, RenamesInOrder
  <1>3. QED BY <1>2 DEF Positions

-----------------------------------------------------------------------------
(* The SSDTs that switch off a device are those of one patch.              *)

NoneDisables(ssdts) == \A s \in ssdts : \A kind, parent : s.path # <<"SSDT-Disable", kind, parent>>

LEMMA NamedSsdts ==
    /\ NoneDisables(None.add)
    /\ \A name, renames, guru : NoneDisables(Add(name, renames, guru).add)
    /\ \A name, guru, renames, deletes : NoneDisables(Result({WriteSsdt(<<name>>, guru)}, renames, deletes).add)
    /\ \A renames, deletes : NoneDisables(Result({}, renames, deletes).add)
  <1>1. \A name, kind, parent : <<name>> # <<"SSDT-Disable", kind, parent>>
    OBVIOUS
  <1>2. \A name, guru : NoneDisables({WriteSsdt(<<name>>, guru)})
    BY <1>1 DEF NoneDisables, WriteSsdt
  <1>3. NoneDisables({})
    BY DEF NoneDisables
  <1>4. QED BY <1>2, <1>3 DEF None, Add, Result

LEMMA OtherSsdts ==
    ASSUME NEW guru, NEW patch \in AllPatches, patch # "Disable Devices"
    PROVE  NoneDisables(Apply(patch, guru).add)
  <1>1. /\ NoneDisables(AmbientLightSensor(guru).add) /\ NoneDisables(FixApicProcessorId(guru).add)
        /\ NoneDisables(AddSystemManagementBusDevice(guru).add)
        /\ NoneDisables(FakeEmbeddedController(guru).add)
        /\ NoneDisables(RemoveConditionalScope(guru).add) /\ NoneDisables(FixHp005PostError(guru).add)
    BY NamedSsdts DEF AmbientLightSensor, FixApicProcessorId, AddSystemManagementBusDevice,
                      FakeEmbeddedController, RemoveConditionalScope, FixHp005PostError
  <1>2. /\ NoneDisables(EnableGpioDevice(guru).add) /\ NoneDisables(AddIntelManagementEngine(guru).add)
        /\ NoneDisables(AddMemoryControllerDevice(guru).add) /\ NoneDisables(EnableNvramSupport(guru).add)
        /\ NoneDisables(DropCpuTables(guru).add) /\ NoneDisables(EnableCpuPowerManagement(guru).add)
    BY NamedSsdts DEF EnableGpioDevice, AddIntelManagementEngine, AddMemoryControllerDevice,
                      EnableNvramSupport, DropCpuTables, EnableCpuPowerManagement
  <1>3. /\ NoneDisables(AddNullEthernetDevice(guru).add) /\ NoneDisables(FixSystemClockHedt(guru).add)
        /\ NoneDisables(FixSystemClockAwac(guru).add) /\ NoneDisables(InstantWakeFix(guru).add)
        /\ NoneDisables(SurfaceLaptopSpecialPatch(guru).add) /\ NoneDisables(FixUncoreBridge(guru).add)
    BY NamedSsdts DEF AddNullEthernetDevice, FixSystemClockHedt, FixSystemClockAwac, InstantWakeFix,
                      SurfaceLaptopSpecialPatch, FixUncoreBridge
  <1>4. /\ NoneDisables(DisableUsbHubDevices(guru).add) /\ NoneDisables(AddUsbPowerProperties(guru).add)
        /\ NoneDisables(ReturnThermalZone(guru).add) /\ NoneDisables(OperatingSystemPatch(guru).add)
    BY NamedSsdts DEF DisableUsbHubDevices, AddUsbPowerProperties, ReturnThermalZone, OperatingSystemPatch
  <1>5. NoneDisables(FixIrqConflicts(guru).add) /\ NoneDisables(EnableBacklightControls(guru).add)
    BY Zenon, NamedSsdts DEF FixIrqConflicts, EnableBacklightControls
  <1>6. QED
    BY Zenon, <1>1, <1>2, <1>3, <1>4, <1>5, NamedSsdts DEF Apply, AllPatches

\* The SSDTs that switch off the card behind a port, and whether there is one to switch off.
SwitchesOff(ssdts, parent) == \E s \in ssdts : s.path = <<"SSDT-Disable", "GPU", parent>>
CardBehind(devices, parent) == \E d \in devices : d.kind = "GPU" /\ d.parent = parent

\* Such an SSDT is there exactly for the patch and a card, and enabled unless it is refused.
LEMMA DisablingSsdts ==
    ASSUME NEW guru, NEW checked \in SUBSET AllPatches, NEW parent
    PROVE  LET ssdts == AcpiSection(guru, checked).ssdts
               path == <<"SSDT-Disable", "GPU", parent>>
           IN  /\ SwitchesOff(ssdts, parent)
                    <=> "Disable Devices" \in checked /\ CardBehind(DisabledBySsdt(guru), parent)
               /\ \A s \in ssdts : s.path = path => s = [path |-> path, enabled |-> path \notin guru.refused]
  <1> DEFINE path == <<"SSDT-Disable", "GPU", parent>>
             own == {WriteSsdt(<<"SSDT-Disable", d.kind, d.parent>>, guru) : d \in DisabledBySsdt(guru)}
             ssdts == AcpiSection(guru, checked).ssdts
             entry == [path |-> path, enabled |-> path \notin guru.refused]
  <1>1. ssdts = UNION {r.add : r \in {Apply(patch, guru) : patch \in checked}}
    BY DEF AcpiSection
  <1>2. Apply("Disable Devices", guru).add = own
    <2>1. Apply("Disable Devices", guru) = DisableUnsupportedDevice(guru)
      BY Zenon DEF Apply
    <2>2. DisableUnsupportedDevice(guru) = Result(own, {}, {})
      BY DEF DisableUnsupportedDevice
    <2> HIDE DEF own
    <2>3. Result(own, {}, {}).add = own
      BY DEF Result
    <2>4. QED BY <2>1, <2>2, <2>3
  <1>3. \A patch \in checked \ {"Disable Devices"} : \A s \in Apply(patch, guru).add : s.path # path
    BY OtherSsdts DEF NoneDisables
  <1>4. \A d : WriteSsdt(<<"SSDT-Disable", d.kind, d.parent>>, guru).path = <<"SSDT-Disable", d.kind, d.parent>>
    BY DEF WriteSsdt
  <1>5. \A d : <<"SSDT-Disable", d.kind, d.parent>> = path <=> d.kind = "GPU" /\ d.parent = parent
    OBVIOUS
  <1>6. (\E s \in own : s.path = path)
          <=> \E d \in DisabledBySsdt(guru) : d.kind = "GPU" /\ d.parent = parent
    BY <1>4, <1>5
  <1>7. \A s \in own : s.path = path => s = entry
    <2>1. \A name : WriteSsdt(name, guru) = [path |-> name, enabled |-> name \notin guru.refused]
      BY DEF WriteSsdt
    <2>2. QED BY <1>4, <2>1
  <1> HIDE DEF own, ssdts, entry, path
  <1>8. \A s \in ssdts : s.path = path => "Disable Devices" \in checked /\ s \in own
    BY <1>1, <1>2, <1>3
  <1>9. "Disable Devices" \in checked => own \subseteq ssdts
    BY <1>1, <1>2
  <1>10. (\E s \in ssdts : s.path = path)
           <=> "Disable Devices" \in checked /\ \E d \in DisabledBySsdt(guru) : d.kind = "GPU" /\ d.parent = parent
    BY <1>6, <1>8, <1>9
  <1>11. \A s \in ssdts : s.path = path => s = entry
    BY <1>7, <1>8
  <1>12. QED BY <1>10, <1>11 DEF SwitchesOff, CardBehind, path, ssdts, entry

\* Which devices they are depends on the tables and the disabled devices alone.
LEMMA SameDisabled ==
    ASSUME NEW guru, NEW other, guru.tables = other.tables, guru.disabled = other.disabled
    PROVE  DisabledBySsdt(guru) = DisabledBySsdt(other)
  <1>1. \A feature : InAny(feature, guru) = InAny(feature, other)
    BY DEF InAny
  <1>2. \A d : CanPowerOff(d, guru) = CanPowerOff(d, other)
    BY <1>1 DEF CanPowerOff
  <1>3. QED BY <1>2 DEF DisabledBySsdt

-----------------------------------------------------------------------------
(* Kernel -> Add: the bundles and what they link to.                         *)


LEMMA UnloadedBy == \A checked : Unloaded(checked) = Unloaded(checked \cap Replacing)
  <1> TAKE checked
  <1>1. \A k \in Replacing : k \in checked <=> k \in checked \cap Replacing
    OBVIOUS
  <1>2. /\ {"IO80211ElCap", "VoodooSMBus"} \cap checked = {} <=>
              "IO80211ElCap" \notin checked /\ "VoodooSMBus" \notin checked
        /\ {"IO80211ElCap", "VoodooSMBus"} \cap (checked \cap Replacing) = {} <=>
              "IO80211ElCap" \notin checked /\ "VoodooSMBus" \notin checked
    BY DEF Replacing
  <1>3. /\ "IO80211ElCap" \in checked <=> "IO80211ElCap" \in checked \cap Replacing
        /\ "VoodooSMBus" \in checked <=> "VoodooSMBus" \in checked \cap Replacing
        /\ "VoodooRMI" \in checked <=> "VoodooRMI" \in checked \cap Replacing
        /\ "VoodooI2C" \in checked <=> "VoodooI2C" \in checked \cap Replacing
    BY <1>1 DEF Replacing
  <1> DEFINE fewer == checked \cap Replacing
  <1> HIDE DEF fewer
  <1>4. Unloaded(checked) = Unloaded(fewer)
    BY <1>2, <1>3, Zenon DEF Unloaded, fewer
  <1>5. QED BY <1>4 DEF fewer

Places(installed) == 1 .. Len(installed)

LEMMA InstalledBundles == \A checked, version : InstallKexts(checked, version) \in Seq(ToSet(Bundles))
  BY BundleAssumption, ThoseElements DEF InstallKexts

LEMMA InstalledFacts ==
    ASSUME NEW installed \in Seq(ToSet(Bundles))
    PROVE  /\ Len(installed) \in Nat /\ DOMAIN installed = Places(installed)
           /\ \A b \in Places(installed) : /\ installed[b] \in ToSet(Bundles)
                                           /\ installed[b].libraries \in Seq(STRING)
  <1>1. \A c \in ToSet(Bundles) : c.libraries \in Seq(STRING)
    BY BundleAssumption DEF ToSet
  <1>2. QED BY <1>1 DEF Places

LEMMA ProviderInstalled ==
    ASSUME NEW installed \in Seq(ToSet(Bundles)), NEW c \in Places(installed)
    PROVE  /\ Provider(installed, installed[c].identifier) \in Places(installed)
           /\ installed[Provider(installed, installed[c].identifier)].identifier = installed[c].identifier
  <1> DEFINE with == {i \in 1 .. Len(installed) : installed[i].identifier = installed[c].identifier}
  <1>1. Len(installed) \in Nat /\ with \in SUBSET (1 .. Len(installed)) /\ with # {}
    BY InstalledFacts DEF Places
  <1>2. \E i \in with : \A j \in with : j <= i
    <2> HIDE DEF with
    <2> QED BY <1>1, LastPlace
  <1>3. Provider(installed, installed[c].identifier) = CHOOSE i \in with : \A j \in with : j <= i
    BY DEF Provider
  <1>4. Provider(installed, installed[c].identifier) \in with
    <2> HIDE DEF with
    <2> QED BY <1>2, <1>3
  <1>5. QED BY <1>4 DEF Places

LEMMA ProvidedIdentifier ==
    ASSUME NEW installed \in Seq(ToSet(Bundles)), NEW b \in Places(installed),
           NEW id \in ToSet(Dependencies(installed[b], installed))
    PROVE  installed[Provider(installed, id)].identifier = id
  <1> DEFINE identifiers == {c.identifier : c \in ToSet(installed)}
  <1>1. installed[b].libraries \in Seq(STRING)
    BY InstalledFacts
  <1>2. Dependencies(installed[b], installed) = Those(installed[b].libraries, identifiers)
    BY DEF Dependencies
  <1>3. id \in identifiers
    <2> HIDE DEF identifiers
    <2> QED BY <1>1, <1>2, ThoseElements
  <1>4. PICK c \in Places(installed) : installed[c].identifier = id
    BY <1>3, InstalledFacts DEF ToSet
  <1>5. QED BY <1>4, ProviderInstalled

LEMMA Needs ==
    ASSUME NEW installed \in Seq(ToSet(Bundles)), NEW b \in Places(installed)
    PROVE  LET needs == Dependencies(installed[b], installed)
           IN  /\ Len(needs) \in Nat
               /\ \A n \in 1 .. Len(needs) : needs[n] \in ToSet(needs)
               /\ \A id \in ToSet(needs) :
                     /\ \E n \in 1 .. Len(needs) : needs[n] = id
                     /\ Provider(installed, id) \in Places(installed)
                     /\ LinksTo(installed[b], installed[Provider(installed, id)])
  <1> DEFINE needs == Dependencies(installed[b], installed)
             identifiers == {c.identifier : c \in ToSet(installed)}
  <1>1. installed[b].libraries \in Seq(STRING)
    BY InstalledFacts
  <1>2. needs \in Seq(STRING) /\ ToSet(needs) = ToSet(installed[b].libraries) \cap identifiers
    <2> HIDE DEF identifiers
    <2>1. Those(installed[b].libraries, identifiers) \in Seq(STRING)
          /\ ToSet(Those(installed[b].libraries, identifiers)) = ToSet(installed[b].libraries) \cap identifiers
      BY <1>1, ThoseElements
    <2>2. QED BY <2>1 DEF Dependencies, identifiers
  <1>3. ASSUME NEW id \in ToSet(needs)
        PROVE  /\ Provider(installed, id) \in Places(installed)
               /\ LinksTo(installed[b], installed[Provider(installed, id)])
    <2>1. id \in ToSet(installed[b].libraries) /\ id \in identifiers
      BY <1>2
    <2>2. PICK c \in Places(installed) : installed[c].identifier = id
      BY <2>1, InstalledFacts DEF ToSet
    <2>3. /\ Provider(installed, id) \in Places(installed)
          /\ installed[Provider(installed, id)].identifier = id
      BY <2>2, ProviderInstalled
    <2>4. QED BY <2>1, <2>3 DEF LinksTo
  <1> HIDE DEF needs
  <1>4. Len(needs) \in Nat /\ DOMAIN needs = 1 .. Len(needs)
    BY <1>2
  <1>5. \A n \in 1 .. Len(needs) : needs[n] \in ToSet(needs)
    BY <1>4 DEF ToSet
  <1>6. \A id \in ToSet(needs) : \E n \in 1 .. Len(needs) : needs[n] = id
    BY <1>4 DEF ToSet
  <1>7. QED BY <1>3, <1>4, <1>5, <1>6 DEF needs

-----------------------------------------------------------------------------
(* The recursive functions are what their definitions say.                 *)

SettledAfter(before) ==
    {b \in ToSet(Bundles) : \A other \in ToSet(Bundles) : LinksTo(b, other) => other \in before}

LEMMA SettledSteps ==
    /\ Settled[0] = {}
    /\ \A n \in 1 .. MaxLinks : Settled[n] = SettledAfter(Settled[n - 1])
  <1> DEFINE S == SUBSET ToSet(Bundles)
             Equation(f) == f = [n \in 0 .. MaxLinks |-> IF n = 0 THEN {} ELSE SettledAfter(f[n - 1])]
             step == [n \in 1 .. MaxLinks |-> [x \in S |-> SettledAfter(x)]]
  <1>1. MaxLinks \in Nat
    BY BundleAssumption
  <1>2. PICK g : Unfolds(g, MaxLinks, S, {}, step)
    <2>1. \A n \in 1 .. MaxLinks : \A x \in S : step[n][x] \in S
      BY DEF SettledAfter
    <2> HIDE DEF S, step
    <2>2. {} \in S
      BY DEF S
    <2>3. QED BY <1>1, <2>1, <2>2, RecursionExists
  <1>3. \A n \in 1 .. MaxLinks : g[n] = SettledAfter(g[n - 1])
    <2> TAKE n \in 1 .. MaxLinks
    <2>1. n - 1 \in 0 .. MaxLinks
      BY <1>1
    <2>2. g[n - 1] \in S
      BY <2>1, <1>2 DEF Unfolds
    <2>3. QED BY <1>2, <2>2 DEF Unfolds
  <1>4. Equation(g)
    BY <1>1, <1>2, <1>3 DEF Unfolds
  <1>5. Equation(CHOOSE f : Equation(f))
    BY <1>4, Zenon
  <1>6. Settled = CHOOSE f : Equation(f)
    BY DEF Settled, SettledAfter
  <1>7. Settled = [n \in 0 .. MaxLinks |-> IF n = 0 THEN {} ELSE SettledAfter(Settled[n - 1])]
    BY <1>5, <1>6
  <1>8. ASSUME NEW n \in 0 .. MaxLinks
        PROVE  Settled[n] = IF n = 0 THEN {} ELSE SettledAfter(Settled[n - 1])
    <2> DEFINE body == [m \in 0 .. MaxLinks |-> IF m = 0 THEN {} ELSE SettledAfter(Settled[m - 1])]
    <2>1. body[n] = IF n = 0 THEN {} ELSE SettledAfter(Settled[n - 1])
      OBVIOUS
    <2>2. Settled = body
      BY <1>7
    <2> HIDE DEF body
    <2>3. QED BY <2>1, <2>2
  <1>9. Settled[0] = {}
    BY <1>1, <1>8
  <1>10. ASSUME NEW n \in 1 .. MaxLinks PROVE Settled[n] = SettledAfter(Settled[n - 1])
    <2>1. n \in 0 .. MaxLinks /\ n # 0
      BY <1>1
    <2>2. QED BY <1>8, <2>1
  <1>11. QED BY <1>9, <1>10

\* What the calls of visit for the needs of a bundle do.
Reached(visit, b, installed) ==
    [before \in Seq(Places(installed)) |-> [id \in ToSet(Dependencies(installed[b], installed)) |->
        visit[Provider(installed, id)][before]]]

Visited(visit, b, sorted, installed, unloaded) ==
    IF installed[b].name \in unloaded \/ b \in ToSet(sorted) THEN sorted
    ELSE Append(Folded(Reached(visit, b, installed), sorted, Dependencies(installed[b], installed)), b)

Visits(installed) == [Places(installed) -> [Seq(Places(installed)) -> Seq(Places(installed))]]

LEMMA ReachedType ==
    ASSUME NEW installed \in Seq(ToSet(Bundles)), NEW visit \in Visits(installed),
           NEW b \in Places(installed)
    PROVE  /\ \A before \in Seq(Places(installed)) :
                \A id \in ToSet(Dependencies(installed[b], installed)) :
                   Reached(visit, b, installed)[before][id] = visit[Provider(installed, id)][before]
           /\ StepOn(Reached(visit, b, installed), Seq(Places(installed)), Dependencies(installed[b], installed))
  <1> DEFINE needs == Dependencies(installed[b], installed)
  <1>1. /\ \A n \in 1 .. Len(needs) : needs[n] \in ToSet(needs)
        /\ \A id \in ToSet(needs) : Provider(installed, id) \in Places(installed)
    BY Needs
  <1>2. \A before \in Seq(Places(installed)) : \A id \in ToSet(needs) :
           Reached(visit, b, installed)[before][id] = visit[Provider(installed, id)][before]
    BY DEF Reached
  <1> HIDE DEF needs
  <1>3. StepOn(Reached(visit, b, installed), Seq(Places(installed)), needs)
    BY <1>1, <1>2 DEF StepOn, Visits
  <1>4. QED BY <1>2, <1>3 DEF needs

LEMMA VisitedType ==
    ASSUME NEW installed \in Seq(ToSet(Bundles)), NEW unloaded, NEW visit \in Visits(installed),
           NEW b \in Places(installed), NEW sorted \in Seq(Places(installed))
    PROVE  Visited(visit, b, sorted, installed, unloaded) \in Seq(Places(installed))
  <1> DEFINE needs == Dependencies(installed[b], installed)
             S == Seq(Places(installed))
             all == Folded(Reached(visit, b, installed), sorted, needs)
  <1>1. StepOn(Reached(visit, b, installed), S, needs)
    BY ReachedType
  <1>2. Len(needs) \in Nat
    BY Needs
  <1>3. all \in S
    <2> HIDE DEF needs, S
    <2>1. sorted \in S
      BY DEF S
    <2>2. QED BY <1>1, <1>2, <2>1, FoldedType
  <1>4. Append(all, b) \in S
    <2> HIDE DEF all
    <2> QED BY <1>3
  <1>5. QED BY <1>4 DEF Visited

LEMMA VisitSteps ==
    ASSUME NEW installed \in Seq(ToSet(Bundles)), NEW unloaded
    PROVE  /\ \A d \in 0 .. MaxLinks : Visit(installed, unloaded)[d] \in Visits(installed)
           /\ \A d \in 1 .. MaxLinks : \A b \in Places(installed) : \A s \in Seq(Places(installed)) :
                 Visit(installed, unloaded)[d][b][s]
                    = Visited(Visit(installed, unloaded)[d - 1], b, s, installed, unloaded)
  <1> DEFINE S == Visits(installed)
             Rest == [b \in Places(installed) |-> [s \in Seq(Places(installed)) |-> s]]
             After(v) == [b \in Places(installed) |-> [s \in Seq(Places(installed)) |->
                             Visited(v, b, s, installed, unloaded)]]
             Body(f) == [d \in 0 .. MaxLinks |-> [b \in Places(installed) |->
                           [s \in Seq(Places(installed)) |->
                              IF d = 0 \/ installed[b].name \in unloaded \/ b \in ToSet(s) THEN s
                              ELSE Append(Folded(Reached(f[d - 1], b, installed), s,
                                                 Dependencies(installed[b], installed)), b)]]]
             Rebuilt(f) == [d \in 0 .. MaxLinks |-> IF d = 0 THEN Rest ELSE After(f[d - 1])]
             step == [d \in 1 .. MaxLinks |-> [v \in S |-> After(v)]]
  <1>1. MaxLinks \in Nat
    BY BundleAssumption
  <1>2. \A f : Body(f) = Rebuilt(f)
    <2> TAKE f
    <2>1. ASSUME NEW d \in 0 .. MaxLinks
          PROVE  Body(f)[d] = IF d = 0 THEN Rest ELSE After(f[d - 1])
      BY DEF Visited
    <2>2. QED BY <2>1
  <1>3. \A v \in S : After(v) \in S
    BY VisitedType DEF Visits
  <1>4. Rest \in S
    BY DEF Visits
  <1>5. PICK g : Unfolds(g, MaxLinks, S, Rest, step)
    <2>1. \A d \in 1 .. MaxLinks : \A x \in S : step[d][x] \in S
      <3> HIDE DEF S, After
      <3> QED BY <1>3
    <2> HIDE DEF S, step, Rest
    <2>2. QED BY <1>1, <1>4, <2>1, RecursionExists
  <1>6. \A d \in 1 .. MaxLinks : g[d] = After(g[d - 1])
    <2> TAKE d \in 1 .. MaxLinks
    <2>1. d - 1 \in 0 .. MaxLinks
      BY <1>1
    <2>2. g[d - 1] \in S
      BY <2>1, <1>5 DEF Unfolds
    <2> HIDE DEF S, After
    <2>3. QED BY <1>5, <2>2 DEF Unfolds
  <1>7. g = Rebuilt(g)
    <2> HIDE DEF S, After, Rest
    <2> QED BY <1>1, <1>5, <1>6 DEF Unfolds
  <1>8. g = Body(g)
    <2> HIDE DEF Body, Rebuilt
    <2> QED BY <1>2, <1>7
  <1> DEFINE visit == Visit(installed, unloaded)
  <1>9. visit = CHOOSE f : f = Body(f)
    BY DEF Visit, Reached, Places
  <1>10. visit = Body(visit)
    <2> HIDE DEF Body, visit
    <2> QED BY <1>8, <1>9, Zenon
  <1>11. visit = Rebuilt(visit)
    <2> HIDE DEF Body, visit, Rebuilt
    <2> QED BY <1>2, <1>10
  <1>12. visit[0] = Rest /\ \A d \in 1 .. MaxLinks : visit[d] = After(visit[d - 1])
    <2> HIDE DEF Rest, After, visit
    <2>1. \A d \in 0 .. MaxLinks : Rebuilt(visit)[d] = IF d = 0 THEN Rest ELSE After(visit[d - 1])
      OBVIOUS
    <2> HIDE DEF Rebuilt
    <2>2. QED BY <1>1, <1>11, <2>1
  <1> HIDE DEF visit
  <1>13. \A d \in 0 .. MaxLinks : visit[d] \in S
    <2> DEFINE T == {d \in 0 .. MaxLinks : visit[d] \in S}
    <2>1. 0 \in T
      <3> HIDE DEF S, Rest
      <3> QED BY <1>1, <1>4, <1>12
    <2>2. ASSUME NEW d \in 1 .. MaxLinks, d - 1 \in T PROVE d \in T
      <3> HIDE DEF S, After
      <3> QED BY <2>2, <1>3, <1>12
    <2> HIDE DEF T
    <2>3. 0 .. MaxLinks \subseteq T
      BY <1>1, <2>1, <2>2, RangeInduction
    <2>4. QED BY <2>3 DEF T
  <1>14. \A d \in 1 .. MaxLinks : \A b \in Places(installed) : \A s \in Seq(Places(installed)) :
            visit[d][b][s] = Visited(visit[d - 1], b, s, installed, unloaded)
    <2> SUFFICES ASSUME NEW d \in 1 .. MaxLinks, NEW b \in Places(installed),
                        NEW s \in Seq(Places(installed))
                 PROVE  visit[d][b][s] = Visited(visit[d - 1], b, s, installed, unloaded)
      OBVIOUS
    <2>1. After(visit[d - 1])[b][s] = Visited(visit[d - 1], b, s, installed, unloaded)
      OBVIOUS
    <2> HIDE DEF After
    <2>2. QED BY <1>12, <2>1
  <1>15. QED BY <1>13, <1>14 DEF visit

-----------------------------------------------------------------------------
(* The order of the bundles.                                               *)

\* Each place comes after those of what it needs.
InOrder(s, installed) ==
    \A p \in 1 .. Len(s) : \A id \in ToSet(Dependencies(installed[s[p]], installed)) :
        \E q \in 1 .. p - 1 : s[q] = Provider(installed, id)

Orders(installed) == {s \in Seq(Places(installed)) : InOrder(s, installed)}

LEMMA AppendInOrder ==
    ASSUME NEW installed \in Seq(ToSet(Bundles)), NEW s \in Orders(installed), NEW b \in Places(installed),
           \A id \in ToSet(Dependencies(installed[b], installed)) : Provider(installed, id) \in ToSet(s)
    PROVE  Append(s, b) \in Orders(installed) /\ ToSet(Append(s, b)) = ToSet(s) \cup {b}
  <1> DEFINE t == Append(s, b)
  <1>1. s \in Seq(Places(installed)) /\ InOrder(s, installed)
    BY DEF Orders
  <1>2. t \in Seq(Places(installed)) /\ ToSet(t) = ToSet(s) \cup {b}
    BY <1>1, Appended
  <1>3. /\ Len(t) = Len(s) + 1 /\ Len(s) \in Nat /\ DOMAIN s = 1 .. Len(s)
        /\ \A i \in 1 .. Len(s) : t[i] = s[i]
        /\ t[Len(s) + 1] = b
    BY <1>1
  <1> HIDE DEF t
  <1>4. ASSUME NEW p \in 1 .. Len(t), NEW id \in ToSet(Dependencies(installed[t[p]], installed))
        PROVE  \E q \in 1 .. p - 1 : t[q] = Provider(installed, id)
    <2>1. CASE p \in 1 .. Len(s)
      <3>1. id \in ToSet(Dependencies(installed[s[p]], installed))
        BY <1>3, <2>1
      <3>2. PICK q \in 1 .. p - 1 : s[q] = Provider(installed, id)
        BY <1>1, <2>1, <3>1 DEF InOrder
      <3>3. q \in 1 .. Len(s)
        BY <1>3, <2>1
      <3>4. QED BY <1>3, <3>2, <3>3
    <2>2. CASE p = Len(s) + 1
      <3>1. Provider(installed, id) \in ToSet(s)
        BY <1>3, <2>2
      <3>2. PICK q \in 1 .. Len(s) : s[q] = Provider(installed, id)
        BY <1>3, <3>1 DEF ToSet
      <3>3. QED BY <1>3, <2>2, <3>2
    <2>3. QED BY <1>3, <2>1, <2>2
  <1>5. t \in Orders(installed)
    BY <1>2, <1>4 DEF Orders, InOrder
  <1>6. QED BY <1>2, <1>5 DEF t

\* What links to an unloaded bundle is unloaded with it.
UnloadedTogether(installed, unloaded) ==
    \A b, c \in Places(installed) :
        LinksTo(installed[b], installed[c]) /\ installed[c].name \in unloaded => installed[b].name \in unloaded

\* What visit makes of an order, at a depth that is enough for the bundle.
Placed(t, s, b, installed, unloaded) ==
    /\ t \in Orders(installed) /\ ToSet(s) \subseteq ToSet(t)
    /\ installed[b].name \notin unloaded => b \in ToSet(t)

PlacesAll(visit, settled, installed, unloaded) ==
    \A b \in Places(installed) : \A s \in Orders(installed) :
        installed[b] \in settled => Placed(visit[b][s], s, b, installed, unloaded)

\* One call of visit, when the calls it makes do what they should.
LEMMA VisitedPlaces ==
    ASSUME NEW installed \in Seq(ToSet(Bundles)), NEW unloaded, UnloadedTogether(installed, unloaded),
           NEW visit \in Visits(installed), NEW settled, PlacesAll(visit, settled, installed, unloaded),
           NEW b \in Places(installed), NEW s \in Orders(installed), installed[b] \in SettledAfter(settled)
    PROVE  Placed(Visited(visit, b, s, installed, unloaded), s, b, installed, unloaded)
  <1> DEFINE needs == Dependencies(installed[b], installed)
             S == Seq(Places(installed))
             step == Reached(visit, b, installed)
             Have(n) == {t \in Orders(installed) :
                            /\ ToSet(s) \subseteq ToSet(t)
                            /\ \A m \in 1 .. n : Provider(installed, needs[m]) \in ToSet(t)}
             Inv == [n \in 0 .. Len(needs) |-> Have(n)]
  <1>1. CASE installed[b].name \in unloaded \/ b \in ToSet(s)
    BY <1>1 DEF Visited, Placed
  <1>2. CASE ~(installed[b].name \in unloaded \/ b \in ToSet(s))
    <2>1. /\ Len(needs) \in Nat /\ \A n \in 1 .. Len(needs) : needs[n] \in ToSet(needs)
          /\ \A id \in ToSet(needs) : /\ \E n \in 1 .. Len(needs) : needs[n] = id
                                      /\ Provider(installed, id) \in Places(installed)
                                      /\ LinksTo(installed[b], installed[Provider(installed, id)])
      BY Needs
    <2>2. ASSUME NEW id \in ToSet(needs), NEW t \in Orders(installed)
          PROVE  /\ step[t][id] = visit[Provider(installed, id)][t]
                 /\ step[t][id] \in Orders(installed) /\ ToSet(t) \subseteq ToSet(step[t][id])
                 /\ Provider(installed, id) \in ToSet(step[t][id])
      <3> DEFINE c == Provider(installed, id)
      <3>1. c \in Places(installed) /\ LinksTo(installed[b], installed[c])
        BY <2>1
      <3>2. installed[c] \in settled
        BY <3>1, InstalledFacts DEF SettledAfter
      <3>3. installed[c].name \notin unloaded
        BY <1>2, <3>1 DEF UnloadedTogether
      <3>4. step[t][id] = visit[c][t]
        BY ReachedType DEF Orders
      <3>5. Placed(visit[c][t], t, c, installed, unloaded)
        BY <3>1, <3>2 DEF PlacesAll
      <3>6. QED BY <3>3, <3>4, <3>5 DEF Placed
    <2>3. StepOn(step, S, needs)
      BY ReachedType
    <2>4. Inv \in [0 .. Len(needs) -> SUBSET S]
      BY DEF Orders
    <2>5. s \in Inv[0]
      BY <2>1
    <2>6. Keeps(Inv, step, needs)
      <3> SUFFICES ASSUME NEW n \in 1 .. Len(needs), NEW t \in Inv[n - 1]
                   PROVE  step[t][needs[n]] \in Inv[n]
        BY DEF Keeps
      <3>1. n - 1 \in 0 .. Len(needs) /\ n \in 0 .. Len(needs)
        BY <2>1
      <3>2. t \in Have(n - 1)
        BY <3>1
      <3>3. /\ step[t][needs[n]] \in Orders(installed) /\ ToSet(t) \subseteq ToSet(step[t][needs[n]])
            /\ Provider(installed, needs[n]) \in ToSet(step[t][needs[n]])
        BY <2>1, <2>2, <3>2
      <3> HIDE DEF needs, step
      <3>4. \A m \in 1 .. n : m = n \/ m \in 1 .. n - 1
        BY <2>1
      <3>5. step[t][needs[n]] \in Have(n)
        BY <3>2, <3>3, <3>4
      <3>6. QED BY <3>1, <3>5
    <2>7. Folded(step, s, needs) \in Inv[Len(needs)]
      <3> HIDE DEF Inv, step, needs, S
      <3> QED BY <2>1, <2>3, <2>4, <2>5, <2>6, FoldedKeeps
    <2> DEFINE t == Folded(step, s, needs)
    <2>8. t \in Have(Len(needs))
      <3> HIDE DEF Have, needs, step
      <3> QED BY <2>1, <2>7
    <2>9. \A id \in ToSet(needs) : Provider(installed, id) \in ToSet(t)
      <3> HIDE DEF needs, step, t
      <3> QED BY <2>1, <2>8
    <2>10. Visited(visit, b, s, installed, unloaded) = Append(t, b)
      BY <1>2 DEF Visited
    <2> HIDE DEF t
    <2>11. Append(t, b) \in Orders(installed) /\ ToSet(Append(t, b)) = ToSet(t) \cup {b}
      BY <2>8, <2>9, AppendInOrder
    <2>12. QED BY <2>8, <2>10, <2>11 DEF Placed
  <1>3. QED BY <1>1, <1>2

\* Every call of visit that is deep enough for its bundle.
LEMMA VisitPlaces ==
    ASSUME NEW installed \in Seq(ToSet(Bundles)), NEW unloaded, UnloadedTogether(installed, unloaded)
    PROVE  \A b \in Places(installed) : \A s \in Orders(installed) :
              Placed(Visit(installed, unloaded)[MaxLinks][b][s], s, b, installed, unloaded)
  <1> DEFINE visit == Visit(installed, unloaded)
             T == {d \in 0 .. MaxLinks : PlacesAll(visit[d], Settled[d], installed, unloaded)}
  <1>1. MaxLinks \in Nat /\ Settled[MaxLinks] = ToSet(Bundles)
    BY BundleAssumption
  <1>2. 0 \in T
    BY <1>1, SettledSteps DEF PlacesAll
  <1>3. ASSUME NEW d \in 1 .. MaxLinks, d - 1 \in T PROVE d \in T
    <2>1. d \in 0 .. MaxLinks /\ d - 1 \in 0 .. MaxLinks
      BY <1>1
    <2>2. visit[d - 1] \in Visits(installed)
      BY <2>1, VisitSteps
    <2>3. Settled[d] = SettledAfter(Settled[d - 1])
      BY SettledSteps
    <2>4. ASSUME NEW b \in Places(installed), NEW s \in Orders(installed), installed[b] \in Settled[d]
          PROVE  Placed(visit[d][b][s], s, b, installed, unloaded)
      <3>1. visit[d][b][s] = Visited(visit[d - 1], b, s, installed, unloaded)
        BY VisitSteps DEF Orders
      <3>2. PlacesAll(visit[d - 1], Settled[d - 1], installed, unloaded)
        BY <1>3
      <3>3. installed[b] \in SettledAfter(Settled[d - 1])
        BY <2>3, <2>4
      <3> HIDE DEF visit
      <3>4. Placed(Visited(visit[d - 1], b, s, installed, unloaded), s, b, installed, unloaded)
        BY <2>2, <3>2, <3>3, VisitedPlaces
      <3>5. QED BY <3>1, <3>4
    <2>5. PlacesAll(visit[d], Settled[d], installed, unloaded)
      BY <2>4 DEF PlacesAll
    <2>6. QED BY <2>1, <2>5
  <1>4. MaxLinks \in T
    <2> HIDE DEF T
    <2>1. 0 .. MaxLinks \subseteq T
      BY <1>1, <1>2, <1>3, RangeInduction
    <2>2. QED BY <1>1, <2>1
  <1>5. QED BY <1>1, <1>4, InstalledFacts DEF PlacesAll

LEMMA LoadOrderInOrder ==
    ASSUME NEW installed \in Seq(ToSet(Bundles)), NEW unloaded, UnloadedTogether(installed, unloaded)
    PROVE  LoadOrder(installed, unloaded) \in Orders(installed)
  <1> DEFINE visit == Visit(installed, unloaded)[MaxLinks]
             S == Seq(Places(installed))
             step == [sorted \in S |-> [b \in Places(installed) |-> visit[b][sorted]]]
             all == [b \in Places(installed) |-> b]
             Inv == [n \in 0 .. Len(all) |-> Orders(installed)]
  <1>1. MaxLinks \in Nat /\ Len(installed) \in Nat
    BY BundleAssumption, InstalledFacts
  <1>2. Len(all) = Len(installed) /\ \A n \in 1 .. Len(all) : all[n] = n
    BY <1>1 DEF Places
  <1>3. visit \in Visits(installed)
    BY <1>1, VisitSteps
  <1>4. ASSUME NEW sorted \in S, NEW n \in 1 .. Len(all)
        PROVE  step[sorted][all[n]] = visit[n][sorted] /\ n \in Places(installed)
    BY <1>2 DEF Places
  <1>5. StepOn(step, S, all)
    <2> SUFFICES ASSUME NEW sorted \in S, NEW n \in 1 .. Len(all)
                 PROVE  step[sorted][all[n]] \in S
      BY DEF StepOn
    <2>1. visit[n][sorted] \in S
      BY <1>3, <1>4 DEF Visits
    <2>2. QED BY <1>4, <2>1
  <1>6. Inv \in [0 .. Len(all) -> SUBSET S]
    BY DEF Orders
  <1>7. <<>> \in Inv[0]
    <2>1. <<>> \in Orders(installed)
      BY DEF Orders, InOrder
    <2>2. QED BY <1>1, <1>2, <2>1
  <1>8. Keeps(Inv, step, all)
    <2> SUFFICES ASSUME NEW n \in 1 .. Len(all), NEW sorted \in Inv[n - 1]
                 PROVE  step[sorted][all[n]] \in Inv[n]
      BY DEF Keeps
    <2>1. n \in 0 .. Len(all) /\ n - 1 \in 0 .. Len(all)
      BY <1>1, <1>2
    <2>2. sorted \in Orders(installed)
      BY <2>1
    <2>3. Placed(visit[n][sorted], sorted, n, installed, unloaded)
      BY <1>4, <2>2, VisitPlaces DEF Orders
    <2>4. step[sorted][all[n]] \in Orders(installed)
      BY <1>4, <2>2, <2>3 DEF Placed, Orders
    <2>5. QED BY <2>1, <2>4
  <1>9. Folded(step, <<>>, all) \in Inv[Len(all)]
    <2> HIDE DEF Inv, step, all, S
    <2> QED BY <1>1, <1>2, <1>5, <1>6, <1>7, <1>8, FoldedKeeps
  <1>10. LoadOrder(installed, unloaded) = Folded(step, <<>>, all)
    BY DEF LoadOrder, Places
  <1>11. QED BY <1>1, <1>2, <1>9, <1>10

LEMMA KernelOfOrder ==
    ASSUME NEW checked, NEW version
    PROVE  KernelInOrder(LoadKexts(checked, version))
  <1> DEFINE installed == InstallKexts(checked, version)
             order == LoadOrder(installed, Unloaded(checked))
             identifier == [i \in 1 .. Len(order) |-> installed[order[i]].identifier]
             libraries == [i \in 1 .. Len(order) |-> Dependencies(installed[order[i]], installed)]
             kernel == LoadKexts(checked, version)
  <1>1. installed \in Seq(ToSet(Bundles))
    BY InstalledBundles
  <1>2. UnloadedTogether(installed, Unloaded(checked))
    <2>1. \A b, other \in ToSet(Bundles) :
             LinksTo(b, other) /\ other.name \in Unloaded(checked \cap Replacing)
                => b.name \in Unloaded(checked \cap Replacing)
      BY BundleAssumption
    <2>2. Unloaded(checked) = Unloaded(checked \cap Replacing)
      BY UnloadedBy
    <2> HIDE DEF installed
    <2>3. \A b \in Places(installed) : installed[b] \in ToSet(Bundles)
      BY <1>1, InstalledFacts
    <2>4. QED BY <2>1, <2>2, <2>3 DEF UnloadedTogether
  <1>3. order \in Seq(Places(installed)) /\ InOrder(order, installed)
    <2> HIDE DEF installed
    <2> QED BY <1>1, <1>2, LoadOrderInOrder DEF Orders
  <1>4. /\ Len(kernel) = Len(order) /\ Len(order) \in Nat
        /\ \A i \in 1 .. Len(order) :
              /\ kernel[i].identifier = identifier[i] /\ kernel[i].libraries = libraries[i]
              /\ kernel[i].enabled <=> (\A j \in 1 .. i - 1 : identifier[j] # identifier[i])
    <2>1. PICK range : kernel =
             [i \in 1 .. Len(order) |->
                 [at |-> order[i], name |-> installed[order[i]].name,
                  identifier |-> installed[order[i]].identifier,
                  libraries |-> Dependencies(installed[order[i]], installed), range |-> range[i],
                  enabled |-> \A j \in 1 .. i - 1 :
                                 installed[order[j]].identifier # installed[order[i]].identifier]]
      BY Zenon DEF LoadKexts
    <2> HIDE DEF kernel, order, installed
    <2>2. Len(order) \in Nat
      BY <1>3
    <2>3. ASSUME NEW i \in 1 .. Len(order)
          PROVE  /\ kernel[i].identifier = identifier[i] /\ kernel[i].libraries = libraries[i]
                 /\ kernel[i].enabled <=> (\A j \in 1 .. i - 1 : identifier[j] # identifier[i])
      <3>1. \A j \in 1 .. i - 1 : j \in 1 .. Len(order)
        BY <2>2
      <3>2. \A j \in 1 .. i - 1 : identifier[j] = installed[order[j]].identifier
        BY <3>1
      <3>3. QED BY <2>1, <3>2
    <2>4. Len(kernel) = Len(order)
      BY <2>1, <2>2
    <2>5. QED BY <2>2, <2>3, <2>4
  <1> HIDE DEF kernel
  <1>5. ASSUME NEW i \in 1 .. Len(order), NEW id \in ToSet(libraries[i])
        PROVE  \E j \in 1 .. i - 1 : identifier[j] = id
    <2> HIDE DEF installed, order
    <2>1. PICK q \in 1 .. i - 1 : order[q] = Provider(installed, id)
      BY <1>3, <1>5 DEF InOrder
    <2>2. order[i] \in Places(installed) /\ q \in 1 .. Len(order)
      BY <1>3, <1>4
    <2>3. id \in ToSet(Dependencies(installed[order[i]], installed))
      BY <1>5
    <2>4. installed[Provider(installed, id)].identifier = id
      BY <1>1, <2>2, <2>3, ProvidedIdentifier
    <2>5. identifier[q] = id
      BY <2>1, <2>2, <2>4
    <2>6. QED BY <2>5
  <1> HIDE DEF installed, order, identifier, libraries
  \* The first bundle with an identifier is the enabled one.
  <1>6. ASSUME NEW i \in 1 .. Len(order), NEW id, \E j \in 1 .. i - 1 : identifier[j] = id
        PROVE  \E j \in 1 .. i - 1 : kernel[j].enabled /\ kernel[j].identifier = id
    <2> DEFINE T == {j \in 1 .. i - 1 : identifier[j] = id}
    <2>1. T \in SUBSET Nat /\ T # {}
      BY <1>4, <1>6
    <2>2. PICK j \in T : \A k \in T : j <= k
      <3> HIDE DEF T
      <3> QED BY <2>1, LeastNatural
    <2>3. j \in 1 .. Len(order) /\ j \in 1 .. i - 1 /\ identifier[j] = id
      BY <1>4
    <2>4. ASSUME NEW k \in 1 .. j - 1 PROVE identifier[k] # identifier[j]
      <3>1. k \in 1 .. i - 1 /\ ~(j <= k)
        BY <1>4, <2>3
      <3>2. k \notin T
        BY <2>2, <3>1
      <3>3. QED BY <2>3, <3>1, <3>2
    <2>5. QED BY <1>4, <2>3, <2>4
  <1>7. SUFFICES ASSUME NEW i \in 1 .. Len(kernel), kernel[i].enabled
                 PROVE  /\ \A id \in ToSet(kernel[i].libraries) :
                              \E j \in 1 .. i - 1 : kernel[j].enabled /\ kernel[j].identifier = id
                        /\ \A j \in 1 .. i - 1 :
                              kernel[j].enabled => kernel[j].identifier # kernel[i].identifier
    BY DEF kernel, KernelInOrder
  <1>8. i \in 1 .. Len(order) /\ \A j \in 1 .. i - 1 : j \in 1 .. Len(order)
    BY <1>4
  <1>9. ASSUME NEW id \in ToSet(kernel[i].libraries)
        PROVE  \E j \in 1 .. i - 1 : kernel[j].enabled /\ kernel[j].identifier = id
    <2>1. id \in ToSet(libraries[i])
      BY <1>4, <1>8
    <2>2. \E j \in 1 .. i - 1 : identifier[j] = id
      BY <1>5, <1>8, <2>1
    <2>3. QED BY <1>6, <1>8, <2>2
  <1>10. ASSUME NEW j \in 1 .. i - 1
         PROVE  kernel[j].identifier # kernel[i].identifier
    <2>1. identifier[j] # identifier[i]
      BY <1>4, <1>7, <1>8
    <2>2. QED BY <1>4, <1>8, <2>1
  <1>11. QED BY <1>9, <1>10
=============================================================================
