------------------------------ MODULE Topology ------------------------------
(***************************************************************************)
(* The topology arithmetic of util.go: what the plugin computes from the   *)
(* labels that describe a node's TPU, and when it refuses to.              *)
(*                                                                         *)
(* A Go result with an error, and a label that may be unset, is a set with *)
(* at most one element: {} is the error or the unset label.  Dimensions    *)
(* are int64 and wrap at IntLimit, a parameter so that small instances can *)
(* reach it.                                                               *)
(***************************************************************************)
EXTENDS Integers, Sequences

CONSTANTS
  MaxTotalChips,  \* maxTotalChips, 2^20 in the code
  IntLimit        \* the first integer an int64 cannot hold, 2^63 in the code

ASSUME BoundsAssumption ==
  /\ MaxTotalChips \in Nat /\ MaxTotalChips >= 1
  /\ IntLimit \in Nat /\ MaxTotalChips < IntLimit

None == {}
Some(x) == {x}
Value(option) == CHOOSE x \in option : TRUE

\* The machine integer that stands for n.
Wrapped(n) == ((n + IntLimit) % (2 * IntLimit)) - IntLimit

-----------------------------------------------------------------------------
(* Accelerator types.                                                      *)

\* Generations, v5litepod being [version |-> "v5", lite, pod].
Gen(v, l, p) == [version |-> v, lite |-> l, pod |-> p]

Generations ==
  {Gen(v, FALSE, FALSE) : v \in {"v3", "v4", "v5p", "v6e"}} \cup
  {Gen("v4", TRUE, FALSE), Gen("v5", TRUE, FALSE), Gen("v5", TRUE, TRUE)}

\* An accelerator type is tpu-<version>[-lite][-<form>].  Versions with a letter
\* only match with the form slice, lite only with the two others.
Matches(a) ==
  /\ a.version \in {"v5p", "v6e"} => a.form = "slice"
  /\ a.lite => a.form \in {"device", "podslice"}

\* AcceleratorGen.
AcceleratorGen(a) ==
  LET gen == Gen(a.version, a.lite, a.version = "v5" /\ a.form = "podslice")
      noSuchType == a.version = "v4" /\ IF a.lite THEN a.form = "podslice"
                                                  ELSE a.form = "device"
  IN  IF Matches(a) /\ ~noSuchType /\ gen \in Generations
        THEN Some(gen) ELSE None

IsPodslice(a) == a.form \in {"podslice", "slice"}

-----------------------------------------------------------------------------
(* Dimensions.                                                             *)

\* getTopologyDims: positive numbers, and a third dimension of 1 for a 2D
\* topology.
TopologyDims(t) ==
  IF Len(t) \in {2, 3} /\ \A i \in DOMAIN t : t[i] > 0
    THEN Some(IF Len(t) = 2 THEN <<t[1], t[2], 1>> ELSE t)
    ELSE None

\* Mutant of Multiply: the product is checked after the multiplication.
MultiplyFirst(total, chips) ==
  IF Wrapped(total * chips) > MaxTotalChips
    THEN None ELSE Some(Wrapped(total * chips))

\* One turn of calculateTotalChips' loop.
Multiply(total, chips) ==
  IF chips <= 0 \/ total > MaxTotalChips \div chips
    THEN None ELSE Some(Wrapped(total * chips))

\* calculateTotalChips.  Its argument is a result of getTopologyDims, or empty
\* when the topology is unknown.
TotalChips(dims) ==
  IF dims = <<>> THEN Some(1)
  ELSE UNION {UNION {Multiply(ab, dims[3]) : ab \in Multiply(a, dims[2])} :
                a \in Multiply(1, dims[1])}

\* numCores: one core per chip for lite generations and v6e, otherwise two.
NumCores(gen, dims) ==
  {IF gen.lite \/ gen.version = "v6e" THEN n ELSE 2 * n : n \in TotalChips(dims)}

\* requestedChipCountToChipsPerDimNumaAligned.
ChipsPerHost ==
  [n \in {1, 2, 4, 8} |-> CASE n = 1 -> <<1, 1, 1>> [] n = 2 -> <<1, 2, 1>>
                            [] n = 4 -> <<2, 2, 1>> [] n = 8 -> <<2, 4, 1>>]

\* maxTotalChips is more than any host has.
ASSUME CapAssumption == \A n \in DOMAIN ChipsPerHost : n <= MaxTotalChips

\* calculateHostBounds.
HostBounds(count, dims) ==
  IF count \in DOMAIN ChipsPerHost
    THEN Some([i \in 1..3 |-> dims[i] \div ChipsPerHost[count][i]])
    ELSE None

\* isSingleHost.
IsSingleHost(count, dims) == {count = n : n \in TotalChips(dims)}

CubeOrLarger(dims) == \A i \in DOMAIN dims : dims[i] >= 4

\* wrap, wrapVersion and wrapLitePod; MaxLiteDim is vlpMaxTopologyDim.
MaxLiteDim == 16

WrapAround(gen, dims) ==
  IF gen.version \in {"v3", "v4", "v5p"}
    THEN [i \in 1..3 |-> CubeOrLarger(dims)]
    ELSE [i \in 1..3 |-> dims[i] = MaxLiteDim]

\* Mutant of SingleHostTopology: the two dimensions are swapped.
TransposedTopology(count) ==
  IF count \in DOMAIN ChipsPerHost
    THEN Some(<<ChipsPerHost[count][2], ChipsPerHost[count][1]>>)
    ELSE None

\* singleHostTopology: the trailing 1 of a 2D topology is not written.
SingleHostTopology(count) ==
  IF count \in DOMAIN ChipsPerHost
    THEN Some(SubSeq(ChipsPerHost[count], 1, 2))
    ELSE None
=============================================================================
