--------------------------- MODULE Startup_proofs ---------------------------
(***************************************************************************)
(* Proofs about Startup: its types, and what is true of every plugin that  *)
(* gets as far as running.                                                 *)
(***************************************************************************)
EXTENDS Startup, Labels_proofs, FiniteSetTheorems, TLAPS

-----------------------------------------------------------------------------
(* The labels.                                                             *)

\* What a source offers is well formed, and so is the lack of an answer.
LEMMA FoundWellFormed ==
  ASSUME LabelsInv, NEW failed
  PROVE  WellFormed(Found(offer, failed))
<1>1. WellFormed(Unlabelled)
  BY DEF WellFormed, Unlabelled, LabelSets, AtMostOne, None
<1>2. ASSUME FirstSource(offer, failed) # {}
      PROVE  WellFormed(Found(offer, failed))
  <2>1. Value(FirstSource(offer, failed)) \in FirstSource(offer, failed)
    BY <1>2 DEF Value
  <2>2. PICK i \in DOMAIN Sources :
          i = Value(FirstSource(offer, failed)) /\ offer[i] # None
    <3>1. DOMAIN offer = DOMAIN Sources
      BY DEF LabelsInv
    <3> QED
      BY <2>1, <3>1 DEF FirstSource, Knows
  <2>3. PICK l \in Offers : offer[i] = Some(l)
    BY <2>2 DEF LabelsInv
  <2>4. Value(offer[i]) = l
    BY <2>3 DEF Value, Some
  <2> QED
    BY <1>2, <2>2, <2>4, SourcesAssumption DEF Found
<1> QED
  BY <1>1, <1>2 DEF Found

\* Completion keeps labels well formed.
LEMMA CompletedWellFormed ==
  ASSUME NEW l, WellFormed(l), NEW hw, hw.chipCount \in Nat
  PROVE  WellFormed(CompleteLabels(l, hw)) /\ CompleteLabels(l, hw).count # None
<1> DEFINE done == CompleteLabels(l, hw)
<1>1. /\ SingleHostTopology(hw.chipCount) \in SUBSET Seq(Int)
      /\ AtMostOne(SingleHostTopology(hw.chipCount))
  <2>1. CASE hw.chipCount \in DOMAIN ChipsPerHost
    <3>1. ChipsPerHost[hw.chipCount] \in
            {<<1, 1, 1>>, <<1, 2, 1>>, <<2, 2, 1>>, <<2, 4, 1>>}
      BY <2>1 DEF ChipsPerHost
    <3>2. SubSeq(ChipsPerHost[hw.chipCount], 1, 2) \in Seq(Int)
      BY <3>1
    <3> QED
      BY <2>1, <3>2 DEF SingleHostTopology, AtMostOne, Some
  <2>2. CASE hw.chipCount \notin DOMAIN ChipsPerHost
    BY <2>2 DEF SingleHostTopology, AtMostOne, None
  <2> QED
    BY <2>1, <2>2
<1>2. /\ done \in LabelSets
      /\ done.accelerator = l.accelerator
      /\ done.count = IF l.count = None THEN Some(hw.chipCount) ELSE l.count
      /\ done.topology =
           IF l.topology = None THEN SingleHostTopology(hw.chipCount)
                                ELSE l.topology
  <2>1. l \in LabelSets
    BY DEF WellFormed
  <2>2. Some(hw.chipCount) \in SUBSET Int
    BY DEF Some
  <2>3. PICK n \in SUBSET Int, t \in SUBSET Seq(Int) :
          /\ n = IF l.count = None THEN Some(hw.chipCount) ELSE l.count
          /\ t = IF l.topology = None THEN SingleHostTopology(hw.chipCount)
                                      ELSE l.topology
    BY <1>1, <2>1, <2>2 DEF LabelSets
  <2>4. done = [l EXCEPT !.count = n, !.topology = t]
    BY <2>3 DEF CompleteLabels
  <2> QED
    BY <2>1, <2>3, <2>4 DEF LabelSets
<1> QED
  BY <1>1, <1>2 DEF WellFormed, AtMostOne, Some, None

-----------------------------------------------------------------------------
(* The inductive invariant.                                                *)

\* A probe that finds something finds at least one chip.
LEMMA ProbeFindsChips ==
  ASSUME TypeOK, NEW unread, ProbeTPUHardware(unread) # None
  PROVE  /\ \A hw \in ProbeTPUHardware(unread) :
              hw.devDirectory \in {"/dev", "/dev/vfio"} /\ hw.chipCount \in Nat \ {0}
<1>1. /\ IsFiniteSet(AccelDevices) /\ IsFiniteSet(VfioTpuDevices)
      /\ IsFiniteSet(VfioTpuDevices \ unread)
  <2>1. /\ AccelDevices \subseteq Accels /\ VfioTpuDevices \subseteq Groups
        /\ VfioTpuDevices \ unread \subseteq Groups
    BY DEF AccelDevices, VfioTpuDevices
  <2> QED
    BY <2>1, HostAssumption, FS_Subset
<1>2. ASSUME NEW S, IsFiniteSet(S), S # {} PROVE Cardinality(S) \in Nat \ {0}
  BY <1>2, FS_CardinalityType, FS_EmptySet
<1> QED
  BY <1>1, <1>2 DEF ProbeTPUHardware, Hardware, Some, None

\* It holds of a plugin that has not begun.
LEMMA InitStartInv == Init => StartInv
<1> SUFFICES ASSUME Init PROVE StartInv
  OBVIOUS
<1>1. WellFormed(Unlabelled)
  BY DEF WellFormed, Unlabelled, LabelSets, AtMostOne, None
<1>2. TypeOK
  <2>1. told \in BOOLEAN /\ sigc \in BOOLEAN /\ gate \in BOOLEAN
    BY Zenon DEF Init
  <2> QED
    BY <2>1, SourcesAssumption DEF Init, TypeOK, None
<1>3. LabelsInv
  BY <1>1 DEF Init, LabelsInv
<1> QED
  BY <1>2, <1>3 DEF Init, StartInv, ProgressInv

\* A probe leaves the invariant intact, whatever it could not read.
LEMMA ProbeStartInv ==
  ASSUME StartInv, NEW unread, Probe(unread) \/ NoTPU(unread)
  PROVE  StartInv'
<1> USE DEF StartInv, signals, driver
<1>0. changes' \in 0..MaxChanges
  BY SourcesAssumption DEF Probe, NoTPU, Reads, Change, TypeOK
<1>1. CASE Probe(unread)
  <2>1. TypeOK'
    BY <1>0, <1>1, ProbeFindsChips DEF Probe, TypeOK
  <2> QED
    BY <1>1, <2>1 DEF Probe, LabelsInv, ProgressInv
<1>2. CASE NoTPU(unread)
  BY <1>0, <1>2 DEF NoTPU, TypeOK, LabelsInv, ProgressInv
<1> QED
  BY <1>1, <1>2

\* Each step of NewDriver establishes its own part.
LEMMA DriverStartInv ==
  ASSUME StartInv, StartPlugin
  PROVE  StartInv'
<1> USE DEF StartInv, host, signals, driver
<1>1. CASE Probe({}) \/ NoTPU({})
  BY <1>1, ProbeStartInv
<1>2. CASE Refuse \/ RetryTimer
  BY <1>2 DEF Refuse, RetryTimer, TypeOK, LabelsInv, ProgressInv
<1>3. ASSUME NEW failed \in SUBSET Remote, ReadLabels(failed) PROVE StartInv'
  <2>1. hardware # None /\ Value(hardware) \in hardware
    BY <1>3 DEF ReadLabels, TypeOK, Value, None
  <2>2. Value(hardware).chipCount \in Nat
    BY <1>3, <2>1 DEF ReadLabels, TypeOK
  <2>3. WellFormed(given') /\ WellFormed(labels') /\ labels'.count # None
    BY <1>3, <2>2, FoundWellFormed, CompletedWellFormed DEF ReadLabels
  <2>4. TypeOK'
    BY <1>3, <2>3 DEF ReadLabels, TypeOK
  <2>5. LabelsInv'
    BY <1>3, <2>3 DEF ReadLabels, LabelsInv
  <2>6. ProgressInv'
    BY <1>3 DEF ReadLabels, ProgressInv
  <2> QED
    BY <2>4, <2>5, <2>6
<1>4. CASE Configure
  <2>1. TypeOK'
    BY <1>4 DEF Configure, TypeOK, ResolveShares
  <2> QED
    BY <1>4, <2>1 DEF Configure, LabelsInv, ProgressInv
<1>5. CASE Enumerate
  <2>1. TypeOK'
    BY <1>5 DEF Enumerate, TypeOK, Enumerated
  <2> QED
    BY <1>5, <2>1 DEF Enumerate, LabelsInv, ProgressInv
<1>6. CASE ValidateFlag \/ PrepareHost
  BY <1>6 DEF ValidateFlag, PrepareHost, TypeOK, LabelsInv, ProgressInv
<1> QED
  BY <1>1, <1>2, <1>3, <1>4, <1>5, <1>6 DEF StartPlugin

\* The invariant holds in every reachable state.
THEOREM StartInvHolds == Spec => []StartInv
<1>1. StartInv /\ [Next]_vars => StartInv'
  <2> SUFFICES ASSUME StartInv, [Next]_vars PROVE StartInv'
    OBVIOUS
  <2> USE DEF StartInv, host, signals, driver
  <2>1. CASE UNCHANGED vars
    BY <2>1 DEF vars, TypeOK, LabelsInv, ProgressInv
  <2>2. ASSUME NEW f \in Accels \cup Groups, FileChanges(f) PROVE StartInv'
    BY <2>2, SourcesAssumption DEF FileChanges, Change, TypeOK, LabelsInv, ProgressInv
  <2>3. CASE StartPlugin
    BY <2>3, DriverStartInv
  <2>4. CASE SignalArrives
    BY <2>4 DEF SignalArrives, TypeOK, LabelsInv, ProgressInv
  <2>5. CASE TakeSignal
    BY <2>5 DEF TakeSignal, TypeOK, LabelsInv, ProgressInv
  <2>6. CASE Restart
    <3>1. WellFormed(Unlabelled)
      BY DEF WellFormed, Unlabelled, LabelSets, AtMostOne, None
    <3> QED
      BY <2>6, <3>1 DEF Restart, TypeOK, LabelsInv, ProgressInv
  <2>7. CASE SignalKills
    BY <2>7 DEF SignalKills, TypeOK, LabelsInv, ProgressInv
  <2>8. CASE HostFails \/ StateFails
    BY <2>8, SourcesAssumption
       DEF HostFails, StateFails, Change, TypeOK, LabelsInv, ProgressInv
  <2>9. ASSUME NEW unread \in SUBSET Listed, Misread(unread) PROVE StartInv'
    BY <2>9, ProbeStartInv DEF Misread
  <2> QED
    BY <2>1, <2>2, <2>3, <2>4, <2>5, <2>6, <2>7, <2>8, <2>9 DEF Next
<1> QED
  BY <1>1, InitStartInv, PTL DEF Spec

\* Every reachable state is well typed.
THEOREM TypeCorrect == Spec => []TypeOK
<1>1. StartInv => TypeOK
  BY DEF StartInv
<1> QED
  BY <1>1, StartInvHolds, PTL

-----------------------------------------------------------------------------
(* What is true of a running plugin.                                       *)

\* A count or a topology that a source states is the one that holds, and the
\* node has that many devices.
THEOREM GivenLabelsStand == Spec => []GivenLabelsHold
<1>1. StartInv => GivenLabelsHold
  <2> SUFFICES ASSUME StartInv, phase = "running" PROVE GivenLabelsHold
    BY DEF GivenLabelsHold
  <2>1. /\ given.count # None => labels.count = given.count
        /\ given.topology # None => labels.topology = given.topology
    BY DEF StartInv, ProgressInv, CompleteLabels, LabelsInv, WellFormed, LabelSets
  <2>2. Cardinality(allocatable) \in labels.count
    BY DEF StartInv, ProgressInv, ChipCount
  <2>3. given.count # None => given.count = {Cardinality(allocatable)}
    BY <2>1, <2>2 DEF StartInv, LabelsInv, WellFormed, AtMostOne
  <2> QED
    BY <2>1, <2>3 DEF GivenLabelsHold, Some
<1> QED
  BY <1>1, StartInvHolds, PTL

\* Chips of a podslice are shared only when they are all the chips of its slice.
THEOREM SharingStaysInSlice == Spec => []SharedNodeIsWholeSlice
<1>1. StartInv => SharedNodeIsWholeSlice
  <2> SUFFICES ASSUME StartInv, phase = "running", policy # None,
                      OnPodslice(labels)
               PROVE  \E dims \in Dims(labels) :
                        Cardinality(allocatable) = SliceChips(dims)
    BY DEF SharedNodeIsWholeSlice
  <2>1. IsSingleHostNode(labels)
    BY DEF StartInv, ProgressInv, ResolveShares
  <2>2. PICK n \in ChipCount(labels), dims \in Dims(labels) :
          TRUE \in IsSingleHost(n, dims)
    BY <2>1 DEF IsSingleHostNode
  <2>3. PICK t \in labels.topology : dims \in TopologyDims(t)
    BY <2>2 DEF Dims
  <2>4. t \in Seq(Int)
    BY <2>3 DEF StartInv, LabelsInv, WellFormed, LabelSets
  <2>5. n \in TotalChips(dims)
    BY <2>2 DEF IsSingleHost
  <2>6. n = SliceChips(dims)
    BY <2>3, <2>4, <2>5, ThreeDims, TotalChipsExact
  <2>7. n = Cardinality(allocatable)
    BY <2>2 DEF StartInv, ProgressInv, LabelsInv, WellFormed, AtMostOne, ChipCount
  <2> QED
    BY <2>2, <2>6, <2>7
<1> QED
  BY <1>1, StartInvHolds, PTL

\* A flag that validateConsumableShares accepts is one that
\* resolveConsumableShares understands.
LEMMA ValidFlagIsRequested ==
  ASSUME NEW g, NEW f, ValidShares(g, f)
  PROVE  (RequestedShares(g, f) # None) = (f.says # "disabled")
<1>1. CASE f.says = "disabled"
  BY <1>1 DEF RequestedShares
<1>2. CASE g /\ f.says = "unlimited"
  BY <1>2 DEF RequestedShares, Some, None
<1>3. CASE g /\ f.says = "number" /\ f.n > 0
  BY <1>3 DEF RequestedShares, Some, None
<1> QED
  BY <1>1, <1>2, <1>3 DEF ValidShares

\* Validation and resolution of --consumable-shares agree on every running node.
THEOREM SharingIsNeverDropped == Spec => []SharingIsHonoured
<1>1. StartInv => SharingIsHonoured
  <2> SUFFICES ASSUME StartInv, phase = "running"
               PROVE  (policy # None) =
                        (flag.says # "disabled" /\ IsSingleHostNode(labels))
    BY DEF SharingIsHonoured
  <2>1. (RequestedShares(gate, flag) # None) = (flag.says # "disabled")
    BY ValidFlagIsRequested DEF StartInv, ProgressInv
  <2>2. policy = ResolveShares(RequestedShares(gate, flag), labels)
    BY DEF StartInv, ProgressInv
  <2> QED
    BY <2>1, <2>2 DEF ResolveShares
<1> QED
  BY <1>1, StartInvHolds, PTL

\* The environment of a running plugin whose topology is known is the one of that
\* topology, whose chips have been counted without a refusal.
LEMMA EnvsOfTopology ==
  ASSUME StartInv, phase = "running", NEW dims \in Dims(labels)
  PROVE  /\ \E n \in ChipCount(labels), gen \in Generations :
              Value(envs) = Envs(gen, n, dims, OnPodslice(labels))
         /\ dims # <<>>
         /\ TotalChips(dims) = {SliceChips(dims)}
         /\ SliceChips(dims) \in 1..MaxTotalChips
<1>1. PICK t \in labels.topology : dims \in TopologyDims(t)
  BY DEF Dims
<1>2. labels.topology # None /\ t \in Seq(Int)
  BY <1>1 DEF StartInv, LabelsInv, WellFormed, LabelSets, None
<1>3. \A d \in Dims(labels) : d = dims
  BY <1>1 DEF StartInv, LabelsInv, WellFormed, AtMostOne, Dims, TopologyDims,
              Some, None
<1>4. envs = InitEnvs(labels) /\ Value(envs) \in envs
  BY DEF StartInv, ProgressInv, TypeOK, Value, None
<1>5. PICK gen \in Generations, n \in ChipCount(labels), d \in Dims(labels) :
        /\ Value(envs) = Envs(gen, n, d, OnPodslice(labels))
        /\ TotalChips(d) # None
  <2> DEFINE slice == OnPodslice(labels) /\ labels.topology # None
             gens == UNION {AcceleratorGen(a) : a \in labels.accelerator}
             counts == {n \in ChipCount(labels) :
                          slice => n \in DOMAIN ChipsPerHost}
             known == {d \in Dims(labels) : TotalChips(d) # None}
  <2>1. gens \subseteq Generations
    BY DEF AcceleratorGen, Some, None
  <2>2. InitEnvs(labels) =
          {Envs(x[1], x[2], x[3], slice) : x \in gens \X counts \X known}
    BY <1>2 DEF InitEnvs
  <2>3. \E gen \in gens, n \in counts, d \in known :
          Value(envs) = Envs(gen, n, d, slice)
    BY <1>4, <2>2
  <2>4. slice = OnPodslice(labels)
    BY <1>2 DEF OnPodslice
  <2> QED
    BY <2>1, <2>3, <2>4
<1>6. d = dims /\ TotalChips(dims) # {}
  BY <1>3, <1>5 DEF None
<1>7. \A n1 \in TotalChips(dims) :
        n1 = SliceChips(dims) /\ n1 \in 1..MaxTotalChips
  BY <1>1, <1>2, ThreeDims, TotalChipsExact
<1>8. dims # <<>>
  <2>1. Len(dims) = 3
    BY <1>1, <1>2, ThreeDims
  <2> SUFFICES ASSUME dims = <<>> PROVE FALSE
    OBVIOUS
  <2>2. Len(dims) = 0
    OBVIOUS
  <2> QED
    BY <2>1, <2>2
<1> QED
  BY <1>5, <1>6, <1>7, <1>8

\* isSingleHostNode and InitEnvs never disagree about a node that is shared.
THEOREM SharingImpliesSingleHost == Spec => []SharedNodeIsSingleHost
<1>1. StartInv => SharedNodeIsSingleHost
  <2> SUFFICES ASSUME StartInv, phase = "running", policy # None,
                      OnPodslice(labels)
               PROVE  Value(envs).singleHost
    BY DEF SharedNodeIsSingleHost
  <2>1. PICK n \in ChipCount(labels), dims \in Dims(labels) :
          TRUE \in IsSingleHost(n, dims)
    BY DEF StartInv, ProgressInv, ResolveShares, IsSingleHostNode
  <2>2. PICK m \in ChipCount(labels), gen \in Generations :
          /\ Value(envs) = Envs(gen, m, dims, OnPodslice(labels))
          /\ TotalChips(dims) = {SliceChips(dims)}
    BY <2>1, EnvsOfTopology
  <2>3. m = n
    BY DEF StartInv, LabelsInv, WellFormed, AtMostOne, ChipCount
  <2>4. IsSingleHost(n, dims) = {TRUE}
    BY <2>1, <2>2 DEF IsSingleHost
  <2>5. Value(IsSingleHost(n, dims)) = TRUE
    BY <2>4 DEF Value
  <2>6. Value(envs).singleHost = Value(IsSingleHost(m, dims))
    BY <2>2 DEF Envs
  <2> QED
    BY <2>3, <2>5, <2>6
<1> QED
  BY <1>1, StartInvHolds, PTL

\* The cores of a running plugin's environment are computed exactly.
THEOREM CoresNeverOverflow == Spec => []CoresAreExact
<1>1. StartInv => CoresAreExact
  <2> SUFFICES ASSUME StartInv, phase = "running", NEW dims \in Dims(labels)
               PROVE  /\ SliceChips(dims) \in 1..MaxTotalChips
                      /\ Value(envs).cores \in
                           {Some(SliceChips(dims)), Some(2 * SliceChips(dims))}
    BY DEF CoresAreExact
  <2>1. PICK n \in ChipCount(labels), gen \in Generations :
          /\ Value(envs) = Envs(gen, n, dims, OnPodslice(labels))
          /\ dims # <<>>
          /\ TotalChips(dims) = {SliceChips(dims)}
          /\ SliceChips(dims) \in 1..MaxTotalChips
    BY EnvsOfTopology
  <2>2. Value(envs).cores = NumCores(gen, dims)
    BY <2>1 DEF Envs
  <2>3. NumCores(gen, dims) =
          {IF gen.lite \/ gen.version = "v6e"
             THEN SliceChips(dims) ELSE 2 * SliceChips(dims)}
    BY <2>1 DEF NumCores
  <2> QED
    BY <2>1, <2>2, <2>3 DEF Some
<1> QED
  BY <1>1, StartInvHolds, PTL

-----------------------------------------------------------------------------
(* The topology inferred from the hardware.                                *)

\* The four rows of requestedChipCountToChipsPerDimNumaAligned.
LEMMA ChipsPerHostRows ==
  /\ DOMAIN ChipsPerHost = {1, 2, 4, 8}
  /\ ChipsPerHost[1] = <<1, 1, 1>> /\ ChipsPerHost[2] = <<1, 2, 1>>
  /\ ChipsPerHost[4] = <<2, 2, 1>> /\ ChipsPerHost[8] = <<2, 4, 1>>
  BY DEF ChipsPerHost

\* A 2D topology gets the third dimension 1.
LEMMA TwoDimensions ==
  ASSUME NEW x \in Int, NEW y \in Int, x > 0, y > 0
  PROVE  /\ SubSeq(<<x, y, 1>>, 1, 2) = <<x, y>>
         /\ TopologyDims(<<x, y>>) = {<<x, y, 1>>}
<1> DEFINE short == <<x, y>>
           full  == <<x, y, 1>>
<1>1. /\ short \in Seq(Int) /\ Len(short) = 2 /\ short[1] = x /\ short[2] = y
      /\ full \in Seq(Int) /\ Len(full) = 3
      /\ full[1] = x /\ full[2] = y /\ full[3] = 1
  OBVIOUS
<1> HIDE DEF short, full
<1>2. SubSeq(full, 1, 2) = short
  <2>1. \A i \in 1..2 : full[i] \in Int
    BY <1>1
  <2>2. /\ SubSeq(full, 1, 2) \in Seq(Int)
        /\ Len(SubSeq(full, 1, 2)) = 2
        /\ \A i \in 1..2 : SubSeq(full, 1, 2)[i] = full[i]
    BY <2>1, SubSeqProperties
  <2>3. \A i \in 1..2 : SubSeq(full, 1, 2)[i] = short[i]
    BY <1>1, <2>2
  <2> QED
    BY <1>1, <2>2, <2>3, SeqEqual
<1>3. TopologyDims(short) = {full}
  <2>1. \A i \in DOMAIN short : short[i] > 0
    BY <1>1
  <2>2. <<short[1], short[2], 1>> = full
    BY <1>1 DEF full
  <2> QED
    BY <1>1, <2>1, <2>2 DEF TopologyDims, Some
<1> QED
  BY <1>2, <1>3 DEF short, full

\* singleHostTopology and getTopologyDims give back the row of the table.
LEMMA InferredDims ==
  ASSUME NEW c, NEW t \in SingleHostTopology(c)
  PROVE  c \in DOMAIN ChipsPerHost /\ TopologyDims(t) = {ChipsPerHost[c]}
<1>1. c \in {1, 2, 4, 8} /\ t = SubSeq(ChipsPerHost[c], 1, 2)
  BY ChipsPerHostRows DEF SingleHostTopology, Some, None
<1>2. PICK x \in {1, 2}, y \in {1, 2, 4} : ChipsPerHost[c] = <<x, y, 1>>
  BY <1>1, ChipsPerHostRows
<1>3. t = <<x, y>> /\ TopologyDims(<<x, y>>) = {<<x, y, 1>>}
  <2>1. /\ SubSeq(<<x, y, 1>>, 1, 2) = <<x, y>>
        /\ TopologyDims(<<x, y>>) = {<<x, y, 1>>}
    BY TwoDimensions
  <2> QED
    BY <1>1, <1>2, <2>1, ZenonT(40)
<1>4. TopologyDims(t) = {ChipsPerHost[c]}
  BY <1>2, <1>3, ZenonT(40)
<1> QED
  BY <1>1, <1>4, ChipsPerHostRows

\* A row of the table has as many chips as its key, and is one host.
LEMMA RowIsOneHost ==
  ASSUME NEW c \in DOMAIN ChipsPerHost
  PROVE  /\ SliceChips(ChipsPerHost[c]) = c
         /\ HostBounds(c, ChipsPerHost[c]) = Some(<<1, 1, 1>>)
<1>1. SliceChips(ChipsPerHost[c]) = c
  BY ChipsPerHostRows DEF SliceChips
<1>2. \A i \in 1..3 : ChipsPerHost[c][i] \in Int /\ ChipsPerHost[c][i] > 0
  BY ChipsPerHostRows
<1>3. \A x \in Int : x > 0 => x \div x = 1
  OBVIOUS
<1>4. [i \in 1..3 |-> ChipsPerHost[c][i] \div ChipsPerHost[c][i]]
        = [i \in 1..3 |-> 1]
  BY <1>2, <1>3
<1>5. [i \in 1..3 |-> 1] = <<1, 1, 1>>
  OBVIOUS
<1> QED
  BY <1>1, <1>4, <1>5 DEF HostBounds

\* A topology that completeLabelsFromHardware infers describes a single host, for
\* every number of chips the driver knows.
THEOREM InferredTopologiesFit == Spec => []InferredTopologyFits
<1>1. StartInv => InferredTopologyFits
  <2> DEFINE c == Value(hardware).chipCount
  <2> SUFFICES ASSUME StartInv, phase = "running", OnPodslice(labels),
                      given.topology = None, labels.topology # None,
                      c = Cardinality(allocatable)
               PROVE  /\ Value(envs).hostBounds = Some(<<1, 1, 1>>)
                      /\ Value(envs).singleHost
    BY DEF InferredTopologyFits
  <2>1. labels.topology = SingleHostTopology(c)
    BY DEF StartInv, LabelsInv, WellFormed, LabelSets, ProgressInv, CompleteLabels
  <2>2. PICK t \in labels.topology : TRUE
    BY DEF None
  <2>3. c \in DOMAIN ChipsPerHost /\ TopologyDims(t) = {ChipsPerHost[c]}
    BY <2>1, <2>2, InferredDims
  <2> DEFINE dims == ChipsPerHost[c]
  <2>4. dims \in Dims(labels)
    BY <2>2, <2>3 DEF Dims
  <2>5. PICK n \in ChipCount(labels), gen \in Generations :
          /\ Value(envs) = Envs(gen, n, dims, TRUE)
          /\ dims # <<>>
          /\ TotalChips(dims) = {SliceChips(dims)}
    <3>1. OnPodslice(labels) = TRUE
      BY DEF OnPodslice
    <3> HIDE DEF dims
    <3> QED
      BY <2>4, <3>1, EnvsOfTopology
  <2>6. n = c
    BY DEF StartInv, ProgressInv, LabelsInv, WellFormed, AtMostOne, ChipCount
  <2>7. Value(envs).hostBounds = Some(<<1, 1, 1>>)
    BY <2>3, <2>5, <2>6, RowIsOneHost DEF Envs
  <2>8. IsSingleHost(c, dims) = {TRUE}
    BY <2>3, <2>5, RowIsOneHost DEF IsSingleHost
  <2>9. Value(envs).singleHost = Value(IsSingleHost(c, dims))
    BY <2>5, <2>6 DEF Envs
  <2>10. Value(IsSingleHost(c, dims)) = TRUE
    BY <2>8 DEF Value
  <2> QED
    BY <2>7, <2>9, <2>10
<1> QED
  BY <1>1, StartInvHolds, PTL
-----------------------------------------------------------------------------
(* Which node is refused.                                                  *)

\* What NewDriver was given is what the sources say, without those that failed.
FoundInv ==
  phase \in {"configure", "enumerate", "running"} =>
    \E failed \in SUBSET Remote : given = Found(offer, failed)

\* The labels are read once, and kept.
LEMMA FoundInvHolds == Spec => []FoundInv
<1>1. Init => FoundInv
  BY DEF Init, FoundInv
<1>2. FoundInv /\ [Next]_vars => FoundInv'
  <2> SUFFICES ASSUME FoundInv, [Next]_vars PROVE FoundInv'
    OBVIOUS
  <2> USE DEF FoundInv, host, driver
  <2>1. CASE UNCHANGED vars
    BY <2>1 DEF vars
  <2>2. ASSUME NEW failed \in SUBSET Remote, ReadLabels(failed) PROVE FoundInv'
    BY <2>2 DEF ReadLabels
  <2>3. CASE Configure \/ Enumerate
    BY <2>3 DEF Configure, Enumerate
  <2>4. CASE ValidateFlag \/ PrepareHost \/ Refuse \/ RetryTimer
    BY <2>4 DEF ValidateFlag, PrepareHost, Refuse, RetryTimer
  <2>5. CASE \/ HostFails \/ StateFails
             \/ SignalArrives \/ SignalKills \/ TakeSignal \/ Restart
    BY <2>5 DEF HostFails, StateFails, SignalArrives, SignalKills, TakeSignal, Restart
  <2>6. ASSUME NEW f \in Accels \cup Groups, FileChanges(f) PROVE FoundInv'
    BY <2>6 DEF FileChanges
  <2>7. ASSUME NEW unread, Probe(unread) \/ NoTPU(unread) PROVE FoundInv'
    BY <2>7 DEF Probe, NoTPU
  <2> QED
    BY <2>1, <2>2, <2>3, <2>4, <2>5, <2>6, <2>7 DEF Next, StartPlugin, Misread
<1> QED
  BY <1>1, <1>2, PTL DEF Spec

\* The driver configuration cannot fail and comes first: it is believed.
LEMMA ConfigurationIsFound ==
  ASSUME StartInv, Startable, NEW failed \in SUBSET Remote,
         NEW l, l = Found(offer, failed)
  PROVE  /\ l.accelerator # None /\ \E a \in l.accelerator : AcceleratorGen(a) # None
         /\ l.count = None /\ l.topology = None
         /\ l \in LabelSets
<1> DEFINE n == Len(Sources)
<1>1. PICK c \in offer[1] :
        /\ \E a \in c.accelerator : AcceleratorGen(a) # None
        /\ c.count = None /\ c.topology = None
  BY DEF Startable
<1>2. DOMAIN offer = 1..n /\ n \in Nat /\ 1 \in 1..n
  BY SourcesAssumption DEF StartInv, LabelsInv
<1> HIDE DEF n
<1>3. offer[1] = {c} /\ Value(offer[1]) = c
  BY <1>1, <1>2, SourcesAssumption DEF n, StartInv, LabelsInv, Some, None, Value
<1>4. Knows(offer, 1, failed)
  BY <1>1, <1>3 DEF Knows, Remote, None
<1>5. l = c
  <2>1. \A j \in 1..(1 - 1) : ~Knows(offer, j, failed)
    OBVIOUS
  <2>2. Found(offer, failed) = Value(offer[1])
    BY <1>2, <1>4, <2>1, FirstIsFound
  <2> QED
    BY <1>3, <2>2
<1>6. WellFormed(l)
  BY FoundWellFormed DEF StartInv
<1> QED
  BY <1>1, <1>5, <1>6 DEF WellFormed, None

\* The chips probed are counted as they are enumerated, when every group is a TPU.
LEMMA ProbeIsEnumeration ==
  ASSUME StartInv, \A g \in Groups : IsTpuGroup(g), ProbeHolds, hardware # None
  PROVE  /\ Value(hardware).chipCount = Cardinality(NodeChips)
         /\ Enumerated(Value(hardware).devDirectory) = NodeChips
<1>1. hardware = ProbeTPUHardware({})
  BY DEF ProbeHolds
<1>2. CASE AccelDevices # {}
  <2>1. hardware = {[devDirectory |-> "/dev", chipCount |-> Cardinality(AccelDevices)]}
    BY <1>1, <1>2 DEF ProbeTPUHardware, Hardware, Some
  <2>2. Value(hardware) \in hardware
    BY <2>1 DEF Value
  <2> QED
    BY <1>2, <2>1, <2>2 DEF NodeChips, Enumerated, AccelDevices
<1>3. CASE AccelDevices = {}
  <2>1. hardware =
          {[devDirectory |-> "/dev/vfio", chipCount |-> Cardinality(VfioTpuDevices)]}
    BY <1>1, <1>3 DEF ProbeTPUHardware, Hardware, Some, None
  <2>2. Value(hardware) \in hardware
    BY <2>1 DEF Value
  <2>3. VfioTpuDevices = files \cap Groups
    BY DEF VfioTpuDevices
  <2> QED
    BY <1>3, <2>1, <2>2, <2>3 DEF NodeChips, Enumerated
<1> QED
  BY <1>2, <1>3

\* The labels of such a node, completed, are those of its chips.
LEMMA CompletedConfiguration ==
  ASSUME StartInv, FoundInv, Startable, ProbeHolds,
         \A g \in Groups : IsTpuGroup(g), phase \in {"configure", "enumerate"}
  PROVE  /\ InitEnvs(labels) # None
         /\ Cardinality(NodeChips) \in ChipCount(labels)
<1> DEFINE n == Cardinality(NodeChips)
<1>1. n \in DOMAIN ChipsPerHost /\ n > 0
  BY ChipsPerHostRows DEF Startable
<1>2. PICK failed \in SUBSET Remote : given = Found(offer, failed)
  BY DEF FoundInv
<1>3. /\ \E a \in given.accelerator : AcceleratorGen(a) # None
      /\ given.count = None /\ given.topology = None /\ given \in LabelSets
  BY <1>2, ConfigurationIsFound
<1>4. Value(hardware).chipCount = n
  BY ProbeIsEnumeration DEF StartInv, TypeOK
<1>5. /\ labels.accelerator = given.accelerator
      /\ labels.count = {n}
      /\ labels.topology = SingleHostTopology(n)
  BY <1>3, <1>4 DEF StartInv, ProgressInv, CompleteLabels, LabelSets, Some
<1>6. n \in ChipCount(labels)
  BY <1>1, <1>5 DEF ChipCount
<1>7. \E t \in labels.topology :
        \E dims \in TopologyDims(t) : TotalChips(dims) # None
  BY <1>1, <1>5, InferredTopologyAccepted
<1> QED
  BY <1>1, <1>3, <1>5, <1>6, <1>7, LabelsAccepted

\* The one thing that stands between the README's promise and the code are IOMMU
\* groups that are no TPU: on hosts without such groups, however many, a node whose
\* configuration names the accelerator is not refused.
THEOREM TpuOnlyNodesStart ==
  ASSUME \A g \in Groups : IsTpuGroup(g)
  PROVE  Spec => ConfiguredNodeStarts
<1>1. StartInv /\ FoundInv /\ Next =>
        (Startable /\ ProbeHolds /\ changes' = changes => phase' # "failed")
  <2> SUFFICES ASSUME StartInv, FoundInv, Next, Startable, ProbeHolds,
                      changes' = changes
               PROVE  phase' # "failed"
    OBVIOUS
  <2> USE DEF host
  <2>1. CASE ValidateFlag
    BY <2>1 DEF ValidateFlag, Startable
  <2>2. ASSUME NEW failed \in SUBSET Remote, ReadLabels(failed)
        PROVE  phase' # "failed"
    <3>1. given'.accelerator # None /\ given' \in LabelSets
      BY <2>2, ConfigurationIsFound DEF ReadLabels
    <3>2. labels' = CompleteLabels(given', Value(hardware))
      BY <2>2 DEF ReadLabels
    <3>3. labels'.accelerator = given'.accelerator
      BY <3>1, <3>2 DEF CompleteLabels, LabelSets
    <3> QED
      BY <2>2, <3>1, <3>3 DEF ReadLabels
  <2>3. CASE Refuse
    <3>1. InitEnvs(labels) # None /\ Cardinality(NodeChips) \in ChipCount(labels)
      BY <2>3, CompletedConfiguration DEF Refuse
    <3>2. Enumerated(Value(hardware).devDirectory) = NodeChips
      BY <2>3, ProbeIsEnumeration DEF Refuse, StartInv, TypeOK
    <3> QED
      BY <2>3, <3>1, <3>2 DEF Refuse
  <2>4. CASE HostFails \/ StateFails \/ \E f \in Accels \cup Groups : FileChanges(f)
    BY <2>4 DEF HostFails, StateFails, FileChanges, Change, StartInv, TypeOK
  <2>5. CASE PrepareHost \/ Configure \/ Enumerate \/ RetryTimer
    BY <2>5 DEF PrepareHost, Configure, Enumerate, RetryTimer
  <2>7. ASSUME NEW unread, Probe(unread) \/ NoTPU(unread) PROVE phase' # "failed"
    BY <2>7 DEF Probe, NoTPU
  <2>6. CASE SignalArrives \/ SignalKills \/ TakeSignal \/ Restart
    BY <2>6 DEF SignalArrives, SignalKills, TakeSignal, Restart
  <2> QED
    BY <2>1, <2>2, <2>3, <2>4, <2>5, <2>6, <2>7 DEF Next, StartPlugin, Misread
<1> QED
  BY <1>1, StartInvHolds, FoundInvHolds, PTL DEF Spec, ConfiguredNodeStarts

-----------------------------------------------------------------------------
(* Signals.                                                                *)

\* A signal that was sent is never lost: it waits in the channel until the process
\* takes it or has ended, whatever NewDriver is doing when it comes.
SignalsKept == told => sigc \/ phase \in {"failed", "stopped"}

\* No signal is lost on its way to the process (the safety core of SignalEndsProcess).
THEOREM SignalsAreKept == Spec => []SignalsKept
<1>1. Init => SignalsKept
  BY Zenon DEF Init, SignalsKept
<1>2. SignalsKept /\ [Next]_vars => SignalsKept'
  <2> SUFFICES ASSUME SignalsKept, [Next]_vars PROVE SignalsKept'
    OBVIOUS
  <2> USE DEF SignalsKept, signals
  <2>1. CASE UNCHANGED vars
    BY <2>1, Zenon DEF vars
  <2>2. CASE StartPlugin
    <3>1. UNCHANGED <<told, sigc>> /\ phase \notin {"failed", "stopped"}
      BY <2>2, Zenon DEF StartPlugin, ValidateFlag, PrepareHost, Probe, NoTPU, Configure,
                  Enumerate, Refuse, RetryTimer, ReadLabels
    <3> QED
      BY <3>1, Zenon
  <2>3. CASE HostFails \/ StateFails \/ SignalKills \/ TakeSignal
    <3>1. phase' \in {"failed", "stopped"}
      BY <2>3, Zenon DEF HostFails, StateFails, SignalKills, TakeSignal
    <3> QED
      BY <3>1, Zenon
  <2>4. CASE SignalArrives
    BY <2>4, Zenon DEF SignalArrives
  <2>5. CASE Restart
    BY <2>5, Zenon DEF Restart
  <2>6. ASSUME NEW f \in Accels \cup Groups, FileChanges(f) PROVE SignalsKept'
    <3>1. UNCHANGED <<signals, phase>>
      BY <2>6 DEF FileChanges
    <3> QED
      BY <3>1, Zenon
  <2>7. ASSUME NEW unread \in SUBSET Listed, Misread(unread) PROVE SignalsKept'
    <3>1. UNCHANGED <<told, sigc>> /\ phase \notin {"failed", "stopped"}
      BY <2>7, Zenon DEF Misread, Probe, NoTPU
    <3> QED
      BY <3>1, Zenon
  <2> QED
    BY <2>1, <2>2, <2>3, <2>4, <2>5, <2>6, <2>7 DEF Next
<1> QED
  BY <1>1, <1>2, PTL DEF Spec
=============================================================================
