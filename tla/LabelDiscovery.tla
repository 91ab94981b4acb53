---------------------------- MODULE LabelDiscovery ----------------------------
(***************************************************************************)
(* How the plugin finds out what kind of TPU a node has: it asks the       *)
(* driver configuration, the tpu-env file of the Cloud TPU runtime, the    *)
(* GCE metadata server (polled for kube-labels, then tpu-env) and the Node *)
(* object, each with a format of its own, and any of them may fail.        *)
(*                                                                         *)
(* The node is a host of a slice.  What the sources say of it is true, but *)
(* may leave out anything; the module is about what the plugin makes of    *)
(* true answers.  Startup takes the answers in one step, by Found; here    *)
(* they come one after the other.                                          *)
(***************************************************************************)
EXTENDS Labels

CONSTANTS
  Slices,       \* the slices a node may be a host of
  Configs,      \* values of the flags --tpu-accelerator, --tpu-chip-count and
                \* --tpu-topology
  LabelTexts,   \* kube-labels attributes and sets of node labels
  EnvTexts,     \* tpu-env files and attributes
  SharesFlags,  \* values of --consumable-shares
  Polls         \* rounds that fit into the 15 seconds of the poll

VARIABLES
  slice,      \* the slice of the node: its TPU type, chips per host, topology
  says,       \* what each source holds
  flag,       \* the flag --consumable-shares
  chips,      \* the number of device files on the host
  step,       \* progress of NewDriver
  round,      \* round of the metadata poll
  silent,     \* the sources that did not answer when they were last asked
  hardware,   \* the number of chips the probe saw
  given,      \* the labels as their source gave them
  labels,     \* the labels after completion
  policy,     \* the resolved sharing policy
  published   \* the number of devices published

node == <<slice, says, flag>>
driver == <<step, round, silent, hardware, given, labels, policy, published>>
vars == <<node, chips, driver>>

-----------------------------------------------------------------------------
(* The formats.  A text is a sequence of entries with a key and a value;    *)
(* an empty value is None, an entry that cannot be split has another key.   *)

Own(property) == <<"tpu.google.com", property>>
Gke(property) == <<"cloud.google.com", property>>
Env(variable) == <<"tpu-env", variable>>

\* The last entry of a key counts, as in a Go map that is filled line by line.
LastValue(text, key) ==
  LET last == {i \in DOMAIN text :
                 /\ text[i].key = key
                 /\ \A j \in (i + 1)..Len(text) : text[j].key # key}
  IN  UNION {text[i].value : i \in last}

\* normalizeTPULabels: the driver's own key wins over that of the platform.
Preferred(text, property) ==
  LET own == LastValue(text, Own(property))
  IN  IF own # None THEN own ELSE LastValue(text, Gke(property))

\* The labels of a kube-labels attribute, or of a Node object.
KubeLabels(text) ==
  [accelerator |-> Preferred(text, "accelerator"),
   count       |-> Preferred(text, "count"),
   topology    |-> Preferred(text, "topology")]

\* The accelerator type of a family of TPU VMs: what it begins with decides, and if
\* it begins with no known prefix it is taken for the name of the type itself.
OfFamily(family) ==
  LET Type(v, l, f) == [version |-> v, lite |-> l, form |-> f]
      prefix == family.prefix
  IN  CASE prefix = "v5litepod" -> Type("v5", TRUE, "podslice")
        [] prefix = "v5lite"    -> Type("v5", TRUE, "device")
        [] prefix = "v5p"       -> Type("v5p", FALSE, "slice")
        [] prefix = "v6e"       -> Type("v6e", FALSE, "slice")
        [] prefix = "v4"        -> Type("v4", FALSE, "podslice")
        [] prefix = "v3"        -> Type("v3", FALSE, "device")
        [] OTHER                -> family.name

Factor(part) == IF part = None THEN 1 ELSE Value(part)

\* Mutant of Product: the product starts at zero.
ProductFromZero(bounds) ==
  0 * Factor(bounds[1]) * Factor(bounds[2]) * Factor(bounds[3])

\* The product of the three parts of CHIPS_PER_HOST_BOUNDS; what is missing or
\* cannot be parsed does not count.
Product(bounds) == Factor(bounds[1]) * Factor(bounds[2]) * Factor(bounds[3])

AcceleratorType(text) ==
  LET type == LastValue(text, Env("ACCELERATOR_TYPE"))
  IN  IF type # None THEN type ELSE LastValue(text, Env("TYPE"))

DefaultCount == 4
DefaultTopology == <<2, 2>>

\* The default stands for bounds that are not there at all; empty bounds have the
\* empty product.
EnvCount(text) ==
  LET key    == Env("CHIPS_PER_HOST_BOUNDS")
      bounds == LastValue(text, key)
  IN  IF \A i \in DOMAIN text : text[i].key # key THEN Some(DefaultCount)
      ELSE IF bounds = None THEN Some(1)
      ELSE {Product(b) : b \in bounds}

\* Mutant of EnvLabels: the topology is looked up under another key.
EnvLabelsDefaultTopology(text) ==
  IF AcceleratorType(text) = None THEN Unlabelled
  ELSE [accelerator |-> {OfFamily(f) : f \in AcceleratorType(text)},
        count |-> EnvCount(text),
        topology |-> Some(DefaultTopology)]

\* parseTpuEnv and mapTpuEnvToLabels.
EnvLabels(text) ==
  IF AcceleratorType(text) = None THEN Unlabelled
  ELSE LET topology == LastValue(text, Env("TOPOLOGY"))
       IN  [accelerator |-> {OfFamily(f) : f \in AcceleratorType(text)},
            count |-> EnvCount(text),
            topology |-> IF topology = None THEN Some(DefaultTopology)
                         ELSE topology]

\* The sources in order of precedence: configuration, tpu-env file, the two
\* attributes of the metadata server, Node object.
Offer ==
  <<Some(says.config),
    {EnvLabels(t) : t \in says.file},
    {KubeLabels(t) : t \in says.kube},
    {EnvLabels(t) : t \in says.env},
    {KubeLabels(t) : t \in says.node}>>

-----------------------------------------------------------------------------
(* The node.                                                               *)

\* The slice is the chips of this host.
IsOneHost(s) == \E dims \in TopologyDims(s.topology) : s.chips = SliceChips(dims)

\* A type that is not a podslice is one host by definition (isSingleHostNode), and
\* a slice has at least the chips of one host.
ASSUME SlicesAssumption ==
  \A s \in Slices :
    /\ s.accelerator \in Accelerators
    /\ s.family \in [prefix : STRING, name : Accelerators]
    /\ s.chips \in Nat \ {0} /\ s.topology \in Seq(Int)
    /\ ~IsPodslice(s.accelerator) => IsOneHost(s)
    /\ \A dims \in TopologyDims(s.topology) : s.chips <= SliceChips(dims)

ASSUME SourcesAssumption ==
  /\ \A c \in Configs : WellFormed(c)
  /\ Polls \in Nat

\* What an entry may say of a slice.
TrueValue(key, s) ==
  CASE key[2] = "accelerator" -> s.accelerator
    [] key[2] = "count" -> s.chips
    [] key[2] \in {"ACCELERATOR_TYPE", "TYPE"} -> s.family
    [] key[2] = "CHIPS_PER_HOST_BOUNDS" ->
         [i \in 1..3 |-> Some(ChipsPerHost[s.chips][i])]
    [] key[2] \in {"topology", "TOPOLOGY"} -> s.topology

TrueText(text, s) ==
  \A i \in DOMAIN text : text[i].value \subseteq {TrueValue(text[i].key, s)}

TrueConfig(config, s) ==
  /\ config.accelerator \subseteq {s.accelerator}
  /\ config.count \subseteq {s.chips}
  /\ config.topology \subseteq {s.topology}

\* A source that may hold one of the texts, or nothing.
Holding(texts, s) ==
  {None} \cup {Some(t) : t \in {u \in texts : TrueText(u, s)}}

\* Elsewhere than on GCE there is no metadata server to hold anything.
Says(s) ==
  {t \in [config : {c \in Configs : TrueConfig(c, s)},
          file   : Holding(EnvTexts, s),
          onGCE  : BOOLEAN,
          kube   : Holding(LabelTexts, s),
          env    : Holding(EnvTexts, s),
          node   : Holding(LabelTexts, s)] :
     t.onGCE \/ (t.kube = None /\ t.env = None)}

Init ==
  /\ slice \in Slices
  /\ says \in Says(slice)
  /\ flag \in SharesFlags
  /\ chips \in 1..slice.chips
  /\ step = "probe" /\ round = 0 /\ silent = {}
  /\ hardware = 0 /\ given = Unlabelled /\ labels = Unlabelled
  /\ policy = None /\ published = 0

\* The device file of one more chip appears.
ChipAppears ==
  /\ chips < slice.chips
  /\ chips' = chips + 1
  /\ UNCHANGED <<node, driver>>

-----------------------------------------------------------------------------
(* getTPUNodeLabelsFromSources.                                            *)

Probe ==
  /\ step = "probe"
  /\ hardware' = chips
  /\ step' = "config"
  /\ UNCHANGED <<node, chips, round, silent, given, labels, policy, published>>

\* Mutant of Heard: labels that do not name the accelerator are accepted.
HeardAnything(i, next) ==
  /\ silent' = silent \ {i}
  /\ IF Offer[i] # None
       THEN given' = Value(Offer[i]) /\ step' = "complete"
       ELSE given' = given /\ step' = next

\* Source i answers; it is believed if it knows the accelerator.
Heard(i, next) ==
  /\ silent' = silent \ {i}
  /\ IF Knows(Offer, i, {})
       THEN given' = Value(Offer[i]) /\ step' = "complete"
       ELSE given' = given /\ step' = next

\* Source i fails to answer.
Unheard(i, next) ==
  /\ silent' = silent \cup {i}
  /\ step' = next
  /\ UNCHANGED given

AskConfig ==
  /\ step = "config" /\ Heard(1, "file")
  /\ UNCHANGED <<node, chips, round, hardware, labels, policy, published>>

AskFile ==
  /\ step = "file" /\ (Heard(2, "gce") \/ Unheard(2, "gce"))
  /\ UNCHANGED <<node, chips, round, hardware, labels, policy, published>>

\* Elsewhere than on GCE the metadata server is not asked.
DetectGCE ==
  /\ step = "gce"
  /\ IF says.onGCE THEN step' = "kube" /\ UNCHANGED silent
     ELSE step' = "node" /\ silent' = silent \cup {3, 4}
  /\ UNCHANGED <<node, chips, round, hardware, given, labels, policy, published>>

\* A round of the poll: kube-labels, then tpu-env.
AskKube ==
  /\ step = "kube" /\ (Heard(3, "env") \/ Unheard(3, "env"))
  /\ UNCHANGED <<node, chips, round, hardware, labels, policy, published>>

AskEnv ==
  /\ step = "env" /\ (Heard(4, "wait") \/ Unheard(4, "wait"))
  /\ UNCHANGED <<node, chips, round, hardware, labels, policy, published>>

\* Mutant of NextRound: the poll has no deadline.
NextRoundForEver ==
  /\ step = "wait"
  /\ round' = 0
  /\ step' = "kube"
  /\ UNCHANGED <<node, chips, silent, hardware, given, labels, policy, published>>

\* One second has passed.
NextRound ==
  /\ step = "wait" /\ round < Polls
  /\ round' = round + 1
  /\ step' = "kube"
  /\ UNCHANGED <<node, chips, silent, hardware, given, labels, policy, published>>

\* Mutant of PollTimeout: the reads do not share the deadline of the poll.
PollTimeoutBetweenReads ==
  /\ step = "wait"
  /\ step' = "node"
  /\ UNCHANGED <<node, chips, round, silent, hardware, given, labels, policy,
                 published>>

\* The deadline passes, in any round, between two rounds or in the middle of a
\* read, which it ends; the reads that are left of the round fail at once.
PollTimeout ==
  /\ \/ step = "kube" /\ silent' = silent \cup {3, 4}
     \/ step = "env" /\ silent' = silent \cup {4}
     \/ step = "wait" /\ silent' = silent
  /\ step' = "node"
  /\ UNCHANGED <<node, chips, round, hardware, given, labels, policy, published>>

\* The Node object is read without a deadline.
AskNode ==
  /\ step = "node" /\ (Heard(5, "complete") \/ Unheard(5, "complete"))
  /\ UNCHANGED <<node, chips, round, hardware, labels, policy, published>>

\* Mutant of Complete: a node whose accelerator nobody knows is accepted.
CompleteUnchecked ==
  /\ step = "complete"
  /\ labels' = CompleteLabels(given, [chipCount |-> hardware])
  /\ step' = "start"
  /\ UNCHANGED <<node, chips, round, silent, hardware, given, policy, published>>

\* completeLabelsFromHardware, and the check that the accelerator is known.
Complete ==
  /\ step = "complete"
  /\ labels' = CompleteLabels(given, [chipCount |-> hardware])
  /\ step' = IF labels'.accelerator = None THEN "refused" ELSE "start"
  /\ UNCHANGED <<node, chips, round, silent, hardware, given, policy, published>>

-----------------------------------------------------------------------------
(* The rest of NewDriver, in one step; Startup has the details.            *)

Accepted == InitEnvs(labels) # None /\ chips \in ChipCount(labels)

Start ==
  /\ step = "start" /\ Accepted
  /\ policy' = ResolveShares(flag, labels)
  /\ published' = chips
  /\ step' = "running"
  /\ UNCHANGED <<node, chips, round, silent, hardware, given, labels>>

Refuse ==
  /\ step = "start" /\ ~Accepted
  /\ step' = "refused"
  /\ UNCHANGED <<node, chips, round, silent, hardware, given, labels, policy,
                 published>>

\* The container ends, or has ended, and the kubelet restarts it.
Restart ==
  /\ step \in {"running", "refused"}
  /\ step' = "probe" /\ round' = 0 /\ silent' = {}
  /\ hardware' = 0 /\ given' = Unlabelled /\ labels' = Unlabelled
  /\ policy' = None /\ published' = 0
  /\ UNCHANGED <<node, chips>>

NewDriver ==
  \/ Probe \/ AskConfig \/ AskFile \/ DetectGCE \/ AskKube \/ AskEnv
  \/ NextRound \/ PollTimeout \/ AskNode \/ Complete \/ Start \/ Refuse

Next == ChipAppears \/ NewDriver \/ Restart

Spec == Init /\ [][Next]_vars

\* The steps that end by themselves: what the process computes, what it reads from
\* its own host, and the deadline of the poll.  A read from the metadata server or
\* of the Node object may never return.
Prompt ==
  \/ Probe \/ AskConfig \/ AskFile \/ DetectGCE \/ NextRound \/ PollTimeout
  \/ Complete \/ Start \/ Refuse

FairSpec == Spec /\ WF_vars(Prompt)

-----------------------------------------------------------------------------
(* Properties.                                                             *)

\* Type invariant.
TypeOK ==
  /\ slice \in Slices
  /\ flag \in SharesFlags
  /\ chips \in 1..slice.chips
  /\ step \in {"probe", "config", "file", "gce", "kube", "env", "wait", "node",
               "complete", "start", "running", "refused"}
  /\ round \in 0..Polls
  /\ silent \subseteq 1..5
  /\ hardware \in 0..slice.chips
  /\ step \notin {"probe", "running", "refused"} => hardware # 0
  /\ step \in {"start", "running"} => labels.accelerator # None
  /\ policy \in SharesFlags \cup {None}
  /\ published \in 0..slice.chips

\* The steps of the discovery amount to the one step Startup makes: whatever the
\* order of answers, failures and rounds, the labels are those of the first source
\* that knows the accelerator among the sources that were heard last.
ImplementsReadLabels ==
  [][step # "complete" /\ step' = "complete" => given' = Found(Offer, silent')]_vars

\* The sources that name the accelerator name the topology too.
TopologyStated ==
  /\ \A t \in says.file \cup says.env :
       AcceleratorType(t) # None => LastValue(t, Env("TOPOLOGY")) # None
  /\ \A l \in Offer[1] \cup Offer[3] \cup Offer[5] :
       l.accelerator # None => l.topology # None

\* No tpu-env speaks of a host of a v3 pod: it has only v3 devices.
FormKept ==
  \A t \in says.file \cup says.env :
    AcceleratorType(t) # None => OfFamily(slice.family) = slice.accelerator

\* Where the topology is stated, chips are shared only on a host that is its own
\* slice, and a podslice is shared whole: whichever source answers, whatever it
\* leaves out besides, and with chips that appear while the sources are asked
\* (mapTpuEnvToLabels and completeLabelsFromHardware make up what is missing;
\* isSingleHostNode and the enumeration have to catch what they make up).
SharedNodeIsItsSlice ==
  step = "running" /\ policy # None /\ TopologyStated /\ FormKept =>
    /\ IsOneHost(slice)
    /\ IsPodslice(slice.accelerator) => published = slice.chips

\* The sources of the tpu-env format name the chips they count.
BoundsStated ==
  \A t \in says.file \cup says.env :
    AcceleratorType(t) # None => LastValue(t, Env("CHIPS_PER_HOST_BOUNDS")) # None

\* A slice the driver supports.
Supported ==
  /\ AcceleratorGen(slice.accelerator) # None
  /\ slice.chips \in DOMAIN ChipsPerHost
  /\ \E dims \in TopologyDims(slice.topology) : TotalChips(dims) # None

\* A node of a supported slice that has all its chips, and of which some source
\* tells the true type, is not refused; the README has it that chips never have to
\* be labeled.
NamedNodeStarts ==
  step = "refused" /\ hardware = slice.chips /\ Supported =>
    given.accelerator # Some(slice.accelerator)

\* The same, unless a tpu-env is silent about the number of chips.
CountedNodeStarts == BoundsStated => NamedNodeStarts

\* "Only single-host nodes can share; on a multi-host slice this setting is
\* ignored" (--consumable-shares); at least where the topology is stated.
MultiHostNeverShares ==
  step = "running" /\ policy # None /\ TopologyStated => IsOneHost(slice)

\* The most steps NewDriver still has to take: three for each round of the poll that
\* is left, and those before and after the poll.
StepsLeft ==
  LET rounds == 3 * (Polls - round)
  IN  CASE step = "probe"  -> rounds + 10
        [] step = "config" -> rounds + 9
        [] step = "file"   -> rounds + 8
        [] step = "gce"    -> rounds + 7
        [] step = "kube"   -> rounds + 6
        [] step = "env"    -> rounds + 5
        [] step = "wait"   -> rounds + 4
        [] step = "node"     -> 3
        [] step = "complete" -> 2
        [] step = "start"    -> 1
        [] OTHER -> 0

\* Whatever the sources answer or fail to, every step of NewDriver brings it nearer to
\* its end: no answer sends it back, and the poll is the only loop.
StartupAdvances ==
  [][step \notin {"running", "refused"} =>
       chips' # chips \/ (StepsLeft' < StepsLeft /\ StepsLeft' >= 0)]_vars

\* A metadata server that never answers, and fails no read either, does not hold up
\* the start: only the Node object, read without a deadline, can
\* (getNodeLabelsFromMetadata against labelsFromNode).
DiscoveryEnds == step # "node" ~> step \in {"node", "running", "refused"}
=============================================================================
