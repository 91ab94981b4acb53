------------------------------- MODULE Labels --------------------------------
(***************************************************************************)
(* What the plugin makes of the labels that describe a node's TPU: which   *)
(* source it believes, how it completes the answer from the hardware,      *)
(* whether the node may share its chips, and the environment of the        *)
(* workloads.  A label that is not set is None.                            *)
(***************************************************************************)
EXTENDS Topology

Accelerators == [version : STRING, lite : BOOLEAN, form : STRING]

LabelSets ==
  [accelerator : SUBSET Accelerators, count : SUBSET Int, topology : SUBSET Seq(Int)]

AtMostOne(S) == \A x, y \in S : x = y

\* Labels have each property at most once.
WellFormed(l) ==
  /\ l \in LabelSets
  /\ AtMostOne(l.accelerator) /\ AtMostOne(l.count) /\ AtMostOne(l.topology)

\* The chips of a topology, computed without bounds.
SliceChips(dims) == dims[1] * dims[2] * dims[3]

Unlabelled == [accelerator |-> None, count |-> None, topology |-> None]

-----------------------------------------------------------------------------
(* The labels.                                                             *)

\* getTPUNodeLabelsFromSources: the first source that answers and knows the
\* accelerator; offer is what each source holds, in order of precedence, and
\* failed the set of sources that do not answer.
Knows(offer, i, failed) ==
  i \notin failed /\ offer[i] # None /\ Value(offer[i]).accelerator # None

FirstSource(offer, failed) ==
  {i \in DOMAIN offer :
     Knows(offer, i, failed) /\ \A j \in 1..(i - 1) : ~Knows(offer, j, failed)}

Found(offer, failed) ==
  IF FirstSource(offer, failed) = {} THEN Unlabelled
  ELSE Value(offer[Value(FirstSource(offer, failed))])

\* Mutant of CompleteLabels: the count of chips is taken from the hardware.
CompleteAllLabels(l, hw) ==
  [l EXCEPT
     !.count = Some(hw.chipCount),
     !.topology = IF @ = None THEN SingleHostTopology(hw.chipCount) ELSE @]

\* completeLabelsFromHardware fills in what the source left open.
CompleteLabels(l, hw) ==
  [l EXCEPT
     !.count = IF @ = None THEN Some(hw.chipCount) ELSE @,
     !.topology = IF @ = None THEN SingleHostTopology(hw.chipCount) ELSE @]

\* ChipCount refuses what is not a positive number; 0 stands for all of that.
ChipCount(l) == {n \in l.count : n > 0}

Dims(l) == UNION {TopologyDims(t) : t \in l.topology}

OnPodslice(l) == \E a \in l.accelerator : IsPodslice(a)

\* Mutant of IsSingleHostNode: a podslice with any topology may be shared.
IsAnyNode(l) == ~OnPodslice(l) \/ Dims(l) # None

\* isSingleHostNode: a podslice whose topology is this node's chips, no more.
IsSingleHostNode(l) ==
  \/ ~OnPodslice(l)
  \/ \E n \in ChipCount(l), dims \in Dims(l) : TRUE \in IsSingleHost(n, dims)

\* The policy --consumable-shares asks for; gate is the feature gate
\* ConsumableShares.  A flag says disabled, unlimited, a number, or neither.
RequestedShares(gate, flag) ==
  CASE ~gate \/ flag.says = "disabled" -> None
    [] gate /\ flag.says = "unlimited" -> Some([unlimited |-> TRUE, shares |-> 0])
    [] gate /\ flag.says = "number" /\ flag.n > 0 ->
         Some([unlimited |-> FALSE, shares |-> flag.n])
    [] OTHER -> None

\* Mutant of ValidShares: the feature gate is not looked at.
ValidWithoutGate(gate, flag) ==
  \/ flag.says \in {"disabled", "unlimited"}
  \/ flag.says = "number" /\ flag.n > 0

\* validateConsumableShares.
ValidShares(gate, flag) ==
  \/ flag.says = "disabled"
  \/ gate /\ flag.says = "unlimited"
  \/ gate /\ flag.says = "number" /\ flag.n > 0

\* resolveConsumableShares: what was requested, on a single host.
ResolveShares(requested, l) == IF IsSingleHostNode(l) THEN requested ELSE None

-----------------------------------------------------------------------------
(* The environment of the workloads.                                       *)

\* InitEnvs with addPodsliceOrSliceEnvs, for n chips on the node.  An unknown
\* topology has no dimensions, and its product is 1.
Envs(gen, n, dims, slice) ==
  [cores        |-> IF dims = <<>> THEN None ELSE NumCores(gen, dims),
   hostBounds   |-> IF slice THEN HostBounds(n, dims) ELSE None,
   chipsPerHost |-> IF slice THEN Some(ChipsPerHost[n]) ELSE None,
   wrap         |-> IF slice THEN Some(WrapAround(gen, dims)) ELSE None,
   ici          |-> slice /\ gen.version \in {"v4", "v5p"} /\ CubeOrLarger(dims),
   singleHost   |-> Value(IsSingleHost(n, dims))]

\* Mutant of InitEnvs: the topology is not passed on.
InitEnvsNoTopology(l) ==
  {Envs(gen, n, <<>>, FALSE) :
     gen \in UNION {AcceleratorGen(a) : a \in l.accelerator}, n \in ChipCount(l)}

InitEnvs(l) ==
  LET slice  == OnPodslice(l) /\ l.topology # None
      gens   == UNION {AcceleratorGen(a) : a \in l.accelerator}
      counts == {n \in ChipCount(l) : slice => n \in DOMAIN ChipsPerHost}
      dims   == IF l.topology = None THEN Some(<<>>)
                ELSE {d \in Dims(l) : TotalChips(d) # None}
  IN  {Envs(x[1], x[2], x[3], slice) : x \in gens \X counts \X dims}
=============================================================================
